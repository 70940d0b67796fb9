--------------------------- MODULE ProgramProofs ----------------------------
(***************************************************************************)
(* The program that runs is the one whose name was typed, and it gets the  *)
(* words that were typed behind it. And the programs with the shorter      *)
(* loops print what they are for: cat, ls, pingpong, counter and syserr.   *)
(*                                                                         *)
(* Words reads a line from its beginning to its end, character after       *)
(* character. parse_args skips spaces, copies the first word and leaves an *)
(* index from which the next function copies the arguments. That both find *)
(* the same is the lemma SameWords: from the end of the first word, the    *)
(* rest of the line is read like a line of its own.                        *)
(*                                                                         *)
(* What a program has printed is what the property asks of it, as far as   *)
(* it has come: the text of the file up to the position of its descriptor, *)
(* the first names of the directory, the numbers counted, the frames or    *)
(* the verdicts so far. Texts in a row are Flat, and the lines of a text   *)
(* are what Cuts finds in it, character after character.                   *)
(***************************************************************************)
EXTENDS LibraryProofs, FiniteSetTheorems

-----------------------------------------------------------------------------
\* The words of a line are found by a fold.

\* The words of a line: what was found after each character.
WordsRun(h, line, n) ==
    /\ h[0] = NoWords /\ h[n].done = Words(line)
    /\ \A k \in 1 .. n : h[k] = WordsStep(h[k - 1], Append(line, Space)[k])

\* The fold of Words exists.
LEMMA WordsRuns ==
    ASSUME NEW line, NEW n \in Nat, DOMAIN Append(line, Space) = 1 .. n,
           NEW D, NoWords \in D, \A m \in D, k \in 1 .. n : WordsStep(m, Append(line, Space)[k]) \in D
    PROVE  \E h : WordsRun(h, line, n)
<1> DEFINE body(m, x) == WordsStep(m, x)
           F(f) == [S \in SUBSET (DOMAIN Append(line, Space)) |->
                      IF S = {} THEN NoWords ELSE body(f[S \ {Max(S)}], Append(line, Space)[Max(S)])]
           step == [p \in (1 .. n) \X D |-> body(p[2], Append(line, Space)[p[1]])]
           iter == CHOOSE f : f = F(f)
           h == [k \in 0 .. n |-> iter[1 .. k]]
<1>1. step \in [(1 .. n) \X D -> D]
    OBVIOUS
<1>2. Words(line) = iter[DOMAIN Append(line, Space)].done
    BY DEF Words, FoldLeft, MapThenFoldSet
<1> HIDE DEF body
<1>3. PICK g \in [SUBSET (1 .. n) -> D] : Folds(g, n, NoWords, step)
    <2> HIDE DEF step
    <2> QED BY <1>1, FoldExists
<1>4. g = F(g)
    <2>1. ASSUME NEW S \in SUBSET (1 .. n), S # {}
          PROVE  step[<<Max(S), g[S \ {Max(S)}]>>] = body(g[S \ {Max(S)}], Append(line, Space)[Max(S)])
        <3>1. Max(S) \in 1 .. n
            BY <2>1, LastOf
        <3> QED BY <3>1
    <2> HIDE DEF step
    <2> QED BY <1>3, <2>1 DEF Folds
<1>5. iter = F(iter)
    <2> HIDE DEF F
    <2> QED BY <1>4
<1> HIDE DEF iter
<1>6. h[0] = NoWords
    BY <1>5
<1>7. ASSUME NEW k \in 1 .. n PROVE h[k] = body(h[k - 1], Append(line, Space)[k])
    <2>1. h[k] = iter[1 .. k] /\ h[k - 1] = iter[1 .. k - 1]
        OBVIOUS
    <2>2. iter[1 .. k] = body(iter[(1 .. k) \ {Max(1 .. k)}], Append(line, Space)[Max(1 .. k)])
        BY <1>5, Intervals, ZenonT(40)
    <2> QED BY <2>1, <2>2, Intervals
<1>8. h[n] = iter[1 .. n]
    OBVIOUS
<1> HIDE DEF h
<1> QED BY <1>2, <1>6, <1>7, <1>8 DEF body, WordsRun

\* A run of the words, as steps from one character to the next.
WordSteps(h, t, n) == \A k \in 1 .. n : h[k] = WordsStep(h[k - 1], t[k])
FoundSoFar(d, p) == [done |-> d, piece |-> p]

OnlySpaces(t, a, b) == \A k \in a + 1 .. b : t[k] = Space

\* Spaces add no words.
LEMMA SpacesStay ==
    ASSUME NEW t, NEW h, NEW n \in Nat, NEW a \in Nat, NEW b \in a .. n, WordSteps(h, t, n),
           OnlySpaces(t, a, b), NEW d, h[a] = FoundSoFar(d, <<>>)
    PROVE  h[b] = FoundSoFar(d, <<>>)
<1> USE DEF OnlySpaces
<1> DEFINE H == {i \in Nat : a + i <= b => h[a + i] = FoundSoFar(d, <<>>)}
<1>1. 0 \in H
    OBVIOUS
<1>2. ASSUME NEW i \in Nat, i \in H PROVE i + 1 \in H
    <2> SUFFICES ASSUME a + (i + 1) <= b PROVE h[a + (i + 1)] = FoundSoFar(d, <<>>)
        OBVIOUS
    <2>1. PICK k \in 1 .. n : k = a + (i + 1) /\ k \in a + 1 .. b /\ k - 1 = a + i
        <3>1. a + (i + 1) \in 1 .. n /\ a + (i + 1) \in a + 1 .. b /\ a + (i + 1) - 1 = a + i
            OBVIOUS
        <3> QED BY <3>1
    <2>2. h[k - 1] = FoundSoFar(d, <<>>)
        BY <1>2, <2>1
    <2>3. h[k] = WordsStep(h[k - 1], t[k]) /\ t[k] = Space
        BY <2>1 DEF WordSteps
    <2>4. WordsStep(FoundSoFar(d, <<>>), Space) = FoundSoFar(d, <<>>)
        BY DEF WordsStep, FoundSoFar
    <2> QED BY <2>1, <2>2, <2>3, <2>4
<1> HIDE DEF H
<1>3. Nat \subseteq H
    BY <1>1, <1>2, Induction
<1>4. b - a \in Nat /\ a + (b - a) = b
    OBVIOUS
<1>5. b - a \in H
    BY <1>3, <1>4
<1> QED BY <1>4, <1>5 DEF H

Stretch(t, a, b) == [k \in 1 .. b - a |-> t[a + k]]
NoSpaces(t, a, b) == \A k \in a + 1 .. b : t[k] # Space /\ t[k] \in Nat

\* Between spaces one word grows.
LEMMA WordGrows ==
    ASSUME NEW t, NEW h, NEW n \in Nat, NEW a \in Nat, NEW b \in a .. n, WordSteps(h, t, n),
           NoSpaces(t, a, b), NEW d, h[a] = FoundSoFar(d, <<>>)
    PROVE  h[b] = FoundSoFar(d, Stretch(t, a, b))
<1> USE DEF NoSpaces
<1> DEFINE P(i) == [k \in 1 .. i |-> t[a + k]]
           H == {i \in Nat : a + i <= b => h[a + i] = FoundSoFar(d, P(i))}
<1>1. 0 \in H
    <2>1. P(0) = <<>>
        OBVIOUS
    <2> QED BY <2>1
<1>2. ASSUME NEW i \in Nat, i \in H PROVE i + 1 \in H
    <2> SUFFICES ASSUME a + (i + 1) <= b PROVE h[a + (i + 1)] = FoundSoFar(d, P(i + 1))
        OBVIOUS
    <2>1. PICK k \in 1 .. n : k = a + (i + 1) /\ k \in a + 1 .. b /\ k - 1 = a + i
        <3>1. a + (i + 1) \in 1 .. n /\ a + (i + 1) \in a + 1 .. b /\ a + (i + 1) - 1 = a + i
            OBVIOUS
        <3> QED BY <3>1
    <2>2. h[k - 1] = FoundSoFar(d, P(i))
        BY <1>2, <2>1
    <2>3. h[k] = WordsStep(h[k - 1], t[k]) /\ t[k] # Space /\ t[k] \in Nat
        BY <2>1 DEF WordSteps
    <2>4. Append(P(i), t[k]) = P(i + 1)
        <3>1. \A j \in 1 .. i + 1 : a + j \in a + 1 .. b
            OBVIOUS
        <3>2. P(i) \in Seq(Nat) /\ Len(P(i)) = i
            BY <3>1
        <3>3. P(i + 1) \in Seq(Nat) /\ Len(P(i + 1)) = i + 1
            BY <3>1
        <3>4. \A j \in 1 .. i : P(i)[j] = P(i + 1)[j]
            OBVIOUS
        <3>5. P(i + 1)[i + 1] = t[k]
            BY <2>1
        <3> HIDE DEF P
        <3>6. Append(P(i), t[k]) \in Seq(Nat) /\ Len(Append(P(i), t[k])) = i + 1
            BY <2>3, <3>2
        <3>7. /\ \A j \in 1 .. i : Append(P(i), t[k])[j] = P(i)[j]
              /\ Append(P(i), t[k])[i + 1] = t[k]
            BY <2>3, <3>2, AppendProperties
        <3>8. \A j \in 1 .. i + 1 : j \in 1 .. i \/ j = i + 1
            OBVIOUS
        <3>9. \A j \in 1 .. i + 1 : Append(P(i), t[k])[j] = P(i + 1)[j]
            BY <3>4, <3>5, <3>7, <3>8
        <3> QED BY <3>3, <3>6, <3>9, SeqEqual
    <2>5. WordsStep(FoundSoFar(d, P(i)), t[k]) = FoundSoFar(d, Append(P(i), t[k]))
        <3> HIDE DEF P
        <3> QED BY <2>3 DEF WordsStep, FoundSoFar
    <2> HIDE DEF P
    <2> QED BY <2>1, <2>2, <2>3, <2>4, <2>5
<1> HIDE DEF H
<1>3. Nat \subseteq H
    BY <1>1, <1>2, Induction
<1>4. b - a \in Nat /\ a + (b - a) = b
    OBVIOUS
<1>5. b - a \in H
    BY <1>3, <1>4
<1> QED BY <1>4, <1>5 DEF H, Stretch

WordStates == [done : Seq(Seq(Nat)), piece : Seq(Nat)]

\* What is found are words.
LEMMA StepStays ==
    ASSUME NEW s \in WordStates, NEW c \in Nat
    PROVE  WordsStep(s, c) \in WordStates
<1>1. s.done \in Seq(Seq(Nat)) /\ s.piece \in Seq(Nat)
    BY DEF WordStates
<1>2. CASE c # Space
    <2>1. WordsStep(s, c) = [done |-> s.done, piece |-> Append(s.piece, c)]
        BY <1>2 DEF WordsStep, WordStates
    <2> QED BY <1>1, <2>1 DEF WordStates
<1>3. CASE c = Space
    <2>1. Append(s.done, s.piece) \in Seq(Seq(Nat)) /\ <<>> \in Seq(Nat)
        BY <1>1
    <2> QED BY <1>1, <1>3, <2>1 DEF WordsStep, WordStates
<1> QED BY <1>2, <1>3

Continues(t, u, j, m, n) == n = j + m /\ \A i \in 1 .. m : t[j + i] = u[i] /\ u[i] \in Nat

BehindWord(h, j, w) == h[j] = FoundSoFar(w, <<>>)

\* What follows a word is read like a line of its own: the same words are found
\* behind those found before.
LEMMA SameWords ==
    ASSUME NEW t, NEW h, NEW n \in Nat, WordSteps(h, t, n),
           NEW u, NEW g, NEW m \in Nat, WordSteps(g, u, m), g[0] = NoWords,
           NEW j \in Nat, Continues(t, u, j, m, n),
           NEW w \in Seq(Seq(Nat)), BehindWord(h, j, w)
    PROVE  g[m] \in WordStates /\ h[n] = FoundSoFar(w \o g[m].done, g[m].piece)
<1> USE DEF Continues, BehindWord
<1> DEFINE H == {i \in Nat : i <= m => g[i] \in WordStates /\ h[j + i] = FoundSoFar(w \o g[i].done, g[i].piece)}
<1>1. 0 \in H
    <2>1. NoWords \in WordStates
        BY DEF NoWords, WordStates
    <2>2. w \o <<>> = w
        OBVIOUS
    <2>3. NoWords.done = <<>> /\ NoWords.piece = <<>>
        BY DEF NoWords
    <2>4. j + 0 = j
        OBVIOUS
    <2>5. h[j + 0] = FoundSoFar(w \o g[0].done, g[0].piece)
        BY <2>2, <2>3, <2>4
    <2> QED BY <2>1, <2>5
<1>2. ASSUME NEW i \in Nat, i \in H PROVE i + 1 \in H
    <2> SUFFICES ASSUME i + 1 <= m
                 PROVE g[i + 1] \in WordStates /\ h[j + (i + 1)] = FoundSoFar(w \o g[i + 1].done, g[i + 1].piece)
        OBVIOUS
    <2>1. i + 1 \in 1 .. m /\ i + 1 - 1 = i /\ j + (i + 1) \in 1 .. n /\ j + (i + 1) - 1 = j + i
        OBVIOUS
    <2>2. PICK s \in WordStates : s = g[i] /\ h[j + i] = FoundSoFar(w \o s.done, s.piece)
        BY <1>2, <2>1
    <2>3. PICK c \in Nat : c = u[i + 1] /\ c = t[j + (i + 1)]
        BY <2>1
    <2>4. g[i + 1] = WordsStep(s, c)
        BY <2>1, <2>2, <2>3 DEF WordSteps
    <2>5. h[j + (i + 1)] = WordsStep(FoundSoFar(w \o s.done, s.piece), c)
        BY <2>1, <2>2, <2>3 DEF WordSteps
    <2>6. WordsStep(s, c) \in WordStates
        BY StepStays
    <2>7. WordsStep(FoundSoFar(w \o s.done, s.piece), c)
            = FoundSoFar(w \o WordsStep(s, c).done, WordsStep(s, c).piece)
        <3>1. PICK d \in Seq(Seq(Nat)), p \in Seq(Nat) : s = [done |-> d, piece |-> p]
            BY DEF WordStates
        <3>2. w \o Append(d, p) = Append(w \o d, p)
            BY SMTT(30)
        <3>3. CASE c # Space
            BY <3>1, <3>3 DEF WordsStep, FoundSoFar
        <3>4. CASE c = Space /\ p = <<>>
            BY <3>1, <3>4 DEF WordsStep, FoundSoFar
        <3>5. CASE c = Space /\ p # <<>>
            BY <3>1, <3>2, <3>5 DEF WordsStep, FoundSoFar
        <3> QED BY <3>3, <3>4, <3>5
    <2> QED BY <2>4, <2>5, <2>6, <2>7
<1> HIDE DEF H
<1>3. Nat \subseteq H
    BY <1>1, <1>2, Induction
<1>4. m \in H
    BY <1>3
<1> QED BY <1>4 DEF H

-----------------------------------------------------------------------------
\* What parse_args makes of a line.

\* Skip stops at the first character that is no space.
SkipsTo(line, idx, j) ==
    /\ j \in idx .. Len(line)
    /\ CharAt(line, j + 1) # Space
    /\ \A i \in idx + 1 .. j : line[i] = Space

\* Skip goes there in every line.
LEMMA SkipIs ==
    ASSUME NEW line \in Typed, NEW idx \in 0 .. Len(line)
    PROVE  SkipsTo(line, idx, Skip(line, idx))
<1>1. PICK n \in Nat : n = Len(line)
    BY DEF Typed
<1> DEFINE S == {i \in idx .. Len(line) : CharAt(line, i + 1) # Space}
<1>2. S \subseteq Nat
    BY <1>1
<1>3. n \in S
    <2>1. CharAt(line, n + 1) = 0
        BY <1>1 DEF CharAt
    <2> QED BY <1>1, <2>1 DEF Space
<1>4. S # {}
    BY <1>3
<1>5. Skip(line, idx) = Min(S)
    BY DEF Skip
<1> HIDE DEF S
<1>6. Min(S) \in S /\ \A k \in S : Min(S) <= k
    BY <1>2, <1>4, FirstOf
<1>7. PICK j \in S : j = Skip(line, idx) /\ \A k \in S : j <= k
    BY <1>5, <1>6
<1>8. j \in idx .. n /\ CharAt(line, j + 1) # Space
    BY <1>1, <1>7 DEF S
<1>9. ASSUME NEW i \in idx + 1 .. j PROVE line[i] = Space
    <2>1. i - 1 \in idx .. n /\ i - 1 < j /\ i - 1 + 1 = i /\ i <= n
        BY <1>1, <1>8, <1>9
    <2>2. i - 1 \notin S
        <3>1. i - 1 \in S => j <= i - 1
            BY <1>7
        <3> QED BY <1>8, <2>1, <3>1
    <2>3. CharAt(line, i) = Space
        BY <1>1, <2>1, <2>2 DEF S
    <2> QED BY <1>1, <2>1, <2>3 DEF CharAt
<1> QED BY <1>1, <1>7, <1>8, <1>9 DEF SkipsTo

\* The first word of a line lies behind place a and ends before place e.
FirstWordAt(line, a, e) ==
    /\ SkipsTo(line, 0, a)
    /\ e \in a + 1 .. Len(line) + 1
    /\ e <= Len(line) => line[e] = Space
    /\ \A i \in a + 1 .. e - 1 : line[i] # Space

Shorter(n) == IF n > NameLen THEN NameLen ELSE n

Parsed(line, a, e) ==
    /\ FirstWordAt(line, a, e)
    /\ ParseArgs(line) = [real_command |-> SubSeq(line, a + 1, a + Shorter(e - 1 - a)),
                          index |-> a + Shorter(e - 1 - a)]

\* parse_args finds the first word of a line, or as much of it as a name can
\* have.
LEMMA ParseArgsIs ==
    ASSUME NEW line \in Typed
    PROVE  \E a \in Nat, e \in Nat : Parsed(line, a, e)
<1>1. PICK n \in Nat : n = Len(line) /\ \A i \in 1 .. n : line[i] \in Nat \ {0}
    BY DEF Typed
<1>2. PICK a : a = Skip(line, 0) /\ SkipsTo(line, 0, a)
    BY <1>1, SkipIs
<1>3. a \in 0 .. n
    BY <1>1, <1>2 DEF SkipsTo
<1> DEFINE S == {i \in a + 1 .. n + 1 : CharAt(line, i) \in {Space, 0}}
<1>4. S \subseteq Nat /\ n + 1 \in S
    BY <1>1, <1>3 DEF CharAt
<1>5. S = {i \in Skip(line, 0) + 1 .. Len(line) + 1 : CharAt(line, i) \in {Space, 0}}
    BY <1>1, <1>2
<1> HIDE DEF S
<1>6. PICK e \in S : e = Min(S) /\ \A k \in S : e <= k
    BY <1>4, FirstOf
<1>7. e \in a + 1 .. n + 1 /\ e \in Nat /\ CharAt(line, e) \in {Space, 0}
    BY <1>3, <1>6 DEF S
<1>8. e <= n => line[e] = Space
    BY <1>1, <1>3, <1>7 DEF CharAt
<1>9. ASSUME NEW i \in a + 1 .. e - 1 PROVE line[i] # Space
    <2>1. i \in a + 1 .. n + 1 /\ i <= n /\ i < e
        BY <1>3, <1>7, <1>9
    <2>2. i \notin S
        BY <1>3, <1>6, <1>7, <2>1
    <2>3. CharAt(line, i) # Space
        BY <2>1, <2>2 DEF S
    <2> QED BY <1>1, <2>1, <2>3 DEF CharAt
<1>10. FirstWordAt(line, a, e)
    BY <1>1, <1>2, <1>7, <1>8, <1>9 DEF FirstWordAt
<1>11. ParseArgs(line) = [real_command |-> SubSeq(line, a + 1, a + Shorter(e - 1 - a)),
                          index |-> a + Shorter(e - 1 - a)]
    <2>1. ParseArgs(line)
            = [real_command |-> SubSeq(line, Skip(line, 0) + 1, Skip(line, 0) + Shorter(Min(S) - 1 - Skip(line, 0))),
               index |-> Skip(line, 0) + Shorter(Min(S) - 1 - Skip(line, 0))]
        BY <1>5, Zenon DEF ParseArgs, Shorter
    <2>2. ParseArgs(line)
            = [real_command |-> SubSeq(line, a + 1, a + Shorter(Min(S) - 1 - a)),
               index |-> a + Shorter(Min(S) - 1 - a)]
        BY <1>2, <2>1
    <2>3. e = Min(S) /\ Min(S) - 1 - a = e - 1 - a
        BY <1>6
    <2>4. Shorter(Min(S) - 1 - a) = Shorter(e - 1 - a)
        BY <2>3
    <2>5. PICK l : l = Shorter(Min(S) - 1 - a) /\ l = Shorter(e - 1 - a)
        BY <2>4
    <2>6. ParseArgs(line) = [real_command |-> SubSeq(line, a + 1, a + l), index |-> a + l]
        BY <2>2, <2>5
    <2> QED BY <2>5, <2>6, Zenon
<1>12. Parsed(line, a, e) /\ a \in Nat /\ e \in Nat
    BY <1>3, <1>7, <1>10, <1>11 DEF Parsed
<1> QED BY <1>12

\* A line without newlines gives the program all that follows the spaces.
LEMMA ArgumentsAre ==
    ASSUME NEW line \in Typed, NEW idx \in 0 .. Len(line)
    PROVE  ParseArgumentsOfProgram(line, idx) = SubSeq(line, Skip(line, idx) + 1, Len(line))
<1>1. PICK n \in Nat : n = Len(line) /\ \A i \in 1 .. n : line[i] \in Nat /\ line[i] # Newline
    BY DEF Typed
<1>2. PICK j \in 0 .. n : j = Skip(line, idx)
    <2>1. SkipsTo(line, idx, Skip(line, idx))
        BY SkipIs
    <2> QED BY <1>1, <2>1 DEF SkipsTo
<1> DEFINE rest == SubSeq(line, j + 1, n)
<1>3. Len(rest) \in Nat /\ \A i \in 1 .. Len(rest) : rest[i] # Newline
    <2>1. j + 1 \in Int /\ n \in Int /\ \A i \in j + 1 .. n : line[i] \in Nat
        BY <1>1, <1>2
    <2>2. /\ Len(rest) = IF j + 1 <= n THEN n - (j + 1) + 1 ELSE 0
          /\ \A i \in 1 .. n - (j + 1) + 1 : rest[i] = line[j + 1 + i - 1]
        <3> HIDE DEF rest
        <3> QED BY <2>1, SubSeqProperties DEF rest
    <2> HIDE DEF rest
    <2>3. Len(rest) \in Nat
        BY <1>2, <2>2
    <2>4. ASSUME NEW i \in 1 .. Len(rest) PROVE rest[i] # Newline
        <3>1. i \in 1 .. n - (j + 1) + 1 /\ j + 1 + i - 1 \in 1 .. n
            BY <1>2, <2>2, <2>4
        <3> QED BY <1>1, <2>2, <3>1
    <2> QED BY <2>3, <2>4
<1>4. ~Contains(rest, Newline)
    BY <1>3 DEF Contains
<1>5. ParseArgumentsOfProgram(line, idx)
        = IF Contains(rest, Newline) THEN SubSeq(rest, 1, SelectInSeq(rest, LAMBDA c : c = Newline) - 1)
                                     ELSE rest
    BY <1>1, <1>2 DEF ParseArgumentsOfProgram
<1> HIDE DEF rest
<1> QED BY <1>1, <1>2, <1>4, <1>5 DEF rest

\* A line read from its beginning to its end, as Words does it.
LEMMA WordsRead ==
    ASSUME NEW line \in Typed
    PROVE  \E h : /\ h[0] = NoWords /\ h[Len(line) + 1].done = Words(line)
                  /\ WordSteps(h, Append(line, Space), Len(line) + 1)
<1>1. PICK n \in Nat : n = Len(line) + 1
    BY DEF Typed
<1>2. Append(line, Space) \in Seq(Nat) /\ DOMAIN Append(line, Space) = 1 .. n
    BY <1>1 DEF Typed, Space
<1>3. NoWords \in WordStates
    BY DEF NoWords, WordStates
<1>4. \A m \in WordStates, k \in 1 .. n : WordsStep(m, Append(line, Space)[k]) \in WordStates
    <2>1. \A k \in 1 .. n : Append(line, Space)[k] \in Nat
        BY <1>2
    <2> QED BY <2>1, StepStays
<1>5. \E h : WordsRun(h, line, n)
    BY <1>2, <1>3, <1>4, WordsRuns
<1> QED BY <1>1, <1>5 DEF WordsRun, WordSteps

\* The characters of a line and the space behind it.
LEMMA LineAndSpace ==
    ASSUME NEW line \in Typed, NEW n \in Nat, n = Len(line)
    PROVE  /\ \A i \in 1 .. n : Append(line, Space)[i] = line[i] /\ line[i] \in Nat
           /\ Append(line, Space)[n + 1] = Space
BY AppendProperties DEF Typed, Space

-----------------------------------------------------------------------------
\* A line is its first word and what follows.

\* What follows the first word.
RestOf(line, e) == SubSeq(line, Skip(line, e - 1) + 1, Len(line))

\* What follows a place of a line is a line.
LEMMA RestIsLine ==
    ASSUME NEW line \in Typed, NEW n \in Nat, n = Len(line), NEW j \in 0 .. n
    PROVE  /\ SubSeq(line, j + 1, n) \in Typed /\ Len(SubSeq(line, j + 1, n)) = n - j
           /\ \A i \in 1 .. n - j : SubSeq(line, j + 1, n)[i] = line[j + i]
<1>1. \A i \in j + 1 .. n : line[i] \in Nat \ {0, Newline}
    BY DEF Typed
<1>2. j + 1 \in Int /\ n \in Int
    OBVIOUS
<1>3. /\ SubSeq(line, j + 1, n) \in Seq(Nat \ {0, Newline})
      /\ Len(SubSeq(line, j + 1, n)) = IF j + 1 <= n THEN n - (j + 1) + 1 ELSE 0
      /\ \A i \in 1 .. n - (j + 1) + 1 : SubSeq(line, j + 1, n)[i] = line[j + 1 + i - 1]
    BY <1>1, <1>2, SubSeqProperties
<1>4. n - (j + 1) + 1 = n - j /\ \A i \in 1 .. n - j : j + 1 + i - 1 = j + i
    OBVIOUS
<1>5. Len(SubSeq(line, j + 1, n)) = n - j
    BY <1>3, <1>4
<1> QED BY <1>3, <1>4, <1>5 DEF Typed

\* A line of spaces has no words.
LEMMA NoWordsInSpaces ==
    ASSUME NEW line \in Typed, \A i \in 1 .. Len(line) : line[i] = Space
    PROVE  Words(line) = <<>>
<1>1. PICK n \in Nat : n = Len(line)
    BY DEF Typed
<1>2. PICK h : h[0] = NoWords /\ h[n + 1].done = Words(line) /\ WordSteps(h, Append(line, Space), n + 1)
    BY <1>1, WordsRead
<1>3. PICK t : t = Append(line, Space) /\ \A i \in 1 .. n + 1 : t[i] = Space
    <2>1. /\ \A i \in 1 .. n : Append(line, Space)[i] = line[i]
          /\ Append(line, Space)[n + 1] = Space
        BY <1>1, LineAndSpace
    <2>2. \A i \in 1 .. n + 1 : i \in 1 .. n \/ i = n + 1
        OBVIOUS
    <2> QED BY <1>1, <2>1, <2>2
<1>4. PICK b \in Nat : b = n + 1 /\ WordSteps(h, Append(line, Space), b)
    BY <1>2
<1>5. h[0] = FoundSoFar(<<>>, <<>>)
    BY <1>2 DEF NoWords, FoundSoFar
<1>6. b \in 0 .. b /\ OnlySpaces(t, 0, b)
    <2>1. \A k \in 1 .. b : t[k] = Space
        BY <1>3, <1>4
    <2>2. 0 + 1 = 1
        OBVIOUS
    <2> QED BY <2>1, <2>2 DEF OnlySpaces
<1>8. WordSteps(h, t, b) /\ 0 \in Nat
    <2>1. t = Append(line, Space)
        BY <1>3
    <2> QED BY <1>4, <2>1
<1>7. h[b] = FoundSoFar(<<>>, <<>>)
    BY <1>5, <1>6, <1>8, SpacesStay
<1> QED BY <1>2, <1>4, <1>7 DEF FoundSoFar

\* The words of a line are its first word and the words of what follows it.
LEMMA FirstWordAndRest ==
    ASSUME NEW line \in Typed, NEW a \in Nat, NEW e \in Nat, FirstWordAt(line, a, e), e # a + 1
    PROVE  Words(line) = <<SubSeq(line, a + 1, e - 1)>> \o Words(RestOf(line, e))
<1>1. PICK n \in Nat : n = Len(line)
    BY DEF Typed
<1>2. PICK h, t : /\ h[0] = NoWords /\ h[n + 1].done = Words(line) /\ WordSteps(h, t, n + 1)
                  /\ t = Append(line, Space)
    BY <1>1, WordsRead
<1>3. (\A i \in 1 .. n : t[i] = line[i] /\ line[i] \in Nat) /\ t[n + 1] = Space
    BY <1>1, <1>2, LineAndSpace
<1>4. PICK b \in Nat : b = n + 1 /\ WordSteps(h, t, b)
    BY <1>2
<1>5. PICK f \in Nat : /\ f = e - 1 /\ f + 1 = e /\ a < f /\ f \in a .. b /\ f <= n /\ a <= n
    <2>1. e \in a + 1 .. n + 1
        BY <1>1 DEF FirstWordAt
    <2>2. e - 1 \in Nat /\ e - 1 + 1 = e /\ a < e - 1 /\ e - 1 \in a .. b /\ e - 1 <= n /\ a <= n
        BY <1>4, <2>1
    <2> QED BY <2>2
<1>6. h[a] = FoundSoFar(<<>>, <<>>)
    <2>1. h[0] = FoundSoFar(<<>>, <<>>)
        BY <1>2 DEF NoWords, FoundSoFar
    <2>2. OnlySpaces(t, 0, a)
        BY <1>1, <1>3, <1>5 DEF FirstWordAt, SkipsTo, OnlySpaces
    <2>3. 0 \in Nat /\ a \in 0 .. b
        BY <1>4, <1>5
    <2> QED BY <1>4, <2>1, <2>2, <2>3, SpacesStay
<1>7. PICK w \in Seq(Nat) : w = SubSeq(line, a + 1, f) /\ w # <<>> /\ h[f] = FoundSoFar(<<>>, w)
    <2>1. \A i \in a + 1 .. f : t[i] # Space /\ t[i] \in Nat
        BY <1>1, <1>3, <1>5 DEF FirstWordAt
    <2>6. NoSpaces(t, a, f)
        BY <2>1 DEF NoSpaces
    <2>2. h[f] = FoundSoFar(<<>>, Stretch(t, a, f))
        <3>1. f \in a .. b
            BY <1>5
        <3> QED BY <1>4, <1>6, <2>6, <3>1, WordGrows
    <2>3. \A i \in 1 .. f - a : a + i \in 1 .. n /\ a + i \in a + 1 .. f
        BY <1>5
    <2>4. [i \in 1 .. f - a |-> t[a + i]] = SubSeq(line, a + 1, f)
        <3>1. [i \in 1 .. f - a |-> t[a + i]] \in Seq(Nat) /\ Len([i \in 1 .. f - a |-> t[a + i]]) = f - a
            BY <1>5, <2>1, <2>3
        <3>2. a + 1 \in Int /\ f \in Int /\ \A i \in a + 1 .. f : line[i] \in Nat
            BY <1>3, <1>5
        <3>3. /\ SubSeq(line, a + 1, f) \in Seq(Nat)
              /\ Len(SubSeq(line, a + 1, f)) = IF a + 1 <= f THEN f - (a + 1) + 1 ELSE 0
              /\ \A i \in 1 .. f - (a + 1) + 1 : SubSeq(line, a + 1, f)[i] = line[a + 1 + i - 1]
            BY <3>2, SubSeqProperties
        <3>4. f - (a + 1) + 1 = f - a /\ \A i \in 1 .. f - a : a + 1 + i - 1 = a + i
            BY <1>5
        <3>5. Len(SubSeq(line, a + 1, f)) = f - a
            BY <1>5, <3>3, <3>4
        <3>6. \A i \in 1 .. f - a : SubSeq(line, a + 1, f)[i] = [k \in 1 .. f - a |-> t[a + k]][i]
            BY <1>3, <2>3, <3>3, <3>4
        <3> QED BY <3>1, <3>3, <3>5, <3>6, SeqEqual, ZenonT(40)
    <2>5. Stretch(t, a, f) \in Seq(Nat) /\ Stretch(t, a, f) # <<>>
        <3>1. Stretch(t, a, f) \in Seq(Nat) /\ Len(Stretch(t, a, f)) = f - a
            BY <1>5, <2>1, <2>3 DEF Stretch
        <3>2. f - a # 0
            BY <1>5
        <3> QED BY <3>1, <3>2
    <2>7. Stretch(t, a, f) = SubSeq(line, a + 1, f)
        BY <2>4 DEF Stretch
    <2> QED BY <2>2, <2>5, <2>7
<1>8. t[e] = Space /\ e \in 1 .. b
    <2>1. e \in 1 .. b
        BY <1>4, <1>5
    <2>2. CASE e = n + 1
        BY <1>3, <2>1, <2>2
    <2>3. CASE e # n + 1
        <3>1. e <= n /\ e \in 1 .. n
            BY <1>4, <2>1, <2>3
        <3>2. line[e] = Space
            BY <1>1, <3>1 DEF FirstWordAt
        <3> QED BY <1>3, <2>1, <3>1, <3>2
    <2> QED BY <2>2, <2>3
<1>9. h[e] = FoundSoFar(<<w>>, <<>>)
    <2>1. h[e] = WordsStep(h[e - 1], t[e])
        BY <1>4, <1>8 DEF WordSteps
    <2>2. WordsStep(FoundSoFar(<<>>, w), Space) = FoundSoFar(Append(<<>>, w), <<>>)
        BY <1>7 DEF WordsStep, FoundSoFar
    <2>3. Append(<<>>, w) = <<w>>
        OBVIOUS
    <2> QED BY <1>5, <1>7, <1>8, <2>1, <2>2, <2>3
<1>10. PICK j \in Nat : j = Skip(line, f) /\ SkipsTo(line, f, j) /\ j \in f .. n
    <2>1. f \in 0 .. Len(line)
        BY <1>1, <1>5
    <2>2. SkipsTo(line, f, Skip(line, f))
        BY <2>1, SkipIs
    <2>3. Skip(line, f) \in f .. n
        BY <1>1, <2>2 DEF SkipsTo
    <2>4. Skip(line, f) \in Nat
        BY <1>5, <2>3
    <2> QED BY <2>2, <2>3, <2>4
<1>11. PICK rest \in Typed : rest = SubSeq(line, j + 1, n) /\ rest = RestOf(line, e) /\ Len(rest) = n - j
                             /\ \A i \in 1 .. n - j : rest[i] = line[j + i]
    <2>1. j \in 0 .. n
        BY <1>10
    <2>2. SubSeq(line, j + 1, n) = RestOf(line, e)
        BY <1>1, <1>5, <1>10 DEF RestOf
    <2> QED BY <1>1, <2>1, <2>2, RestIsLine
<1>12. CASE e = n + 1
    <2>1. j = n /\ Len(rest) = 0
        BY <1>5, <1>10, <1>11, <1>12
    <2>2. Words(rest) = <<>>
        BY <2>1, NoWordsInSpaces
    <2>3. h[n + 1].done = <<w>>
        BY <1>9, <1>12 DEF FoundSoFar
    <2>4. <<w>> \o <<>> = <<w>>
        OBVIOUS
    <2> QED BY <1>2, <1>5, <1>7, <1>11, <2>2, <2>3, <2>4
<1>13. CASE e # n + 1
    <2>1. j \in e .. b /\ e \in Nat
        <3>1. e <= n
            BY <1>4, <1>8, <1>13
        <3>2. line[e] = Space
            BY <1>1, <3>1 DEF FirstWordAt
        <3>3. CharAt(line, f + 1) = Space
            BY <1>1, <1>5, <3>1, <3>2 DEF CharAt
        <3>4. j # f
            BY <1>10, <3>3 DEF SkipsTo
        <3> QED BY <1>4, <1>5, <1>10, <3>1, <3>4
    <2>2. OnlySpaces(t, e, j)
        <3>1. \A i \in f + 1 .. j : line[i] = Space
            BY <1>10 DEF SkipsTo
        <3>2. ASSUME NEW i \in e + 1 .. j PROVE i \in f + 1 .. j /\ i \in 1 .. n
            BY <1>4, <1>5, <1>10, <2>1
        <3>3. ASSUME NEW i \in e + 1 .. j PROVE t[i] = Space
            <4>1. i \in f + 1 .. j /\ i \in 1 .. n
                BY <3>2
            <4> QED BY <1>3, <3>1, <4>1
        <3> QED BY <3>3 DEF OnlySpaces
    <2>3. h[j] = FoundSoFar(<<w>>, <<>>)
        BY <1>4, <1>9, <2>1, <2>2, SpacesStay
    <2>4. PICK g : /\ g[0] = NoWords /\ g[Len(rest) + 1].done = Words(rest)
                   /\ WordSteps(g, Append(rest, Space), Len(rest) + 1)
        BY WordsRead
    <2>10. Len(rest) = n - j /\ j <= n /\ b = n + 1
        BY <1>4, <1>10, <1>11
    <2>9. PICK m \in Nat : m = n - j + 1 /\ m = Len(rest) + 1 /\ b = j + m
        <3>1. n - j + 1 \in Nat /\ n - j + 1 = Len(rest) + 1 /\ b = j + (n - j + 1)
            BY <2>10
        <3> QED BY <3>1
    <2>5. PICK u : u = Append(rest, Space) /\ WordSteps(g, u, m)
        <3>1. WordSteps(g, Append(rest, Space), m)
            BY <2>4, <2>9
        <3> QED BY <3>1
    <2>6. ASSUME NEW i \in 1 .. m PROVE t[j + i] = u[i] /\ u[i] \in Nat
        <3>0. PICK l \in Nat : l = Len(rest) /\ m = l + 1 /\ l = n - j
            BY <2>9, <2>10
        <3>1. (\A k \in 1 .. l : u[k] = rest[k] /\ rest[k] \in Nat) /\ u[l + 1] = Space
            BY <2>5, <3>0, LineAndSpace
        <3>2. CASE i = l + 1
            <4>1. j + i = n + 1
                BY <1>10, <3>0, <3>2, SMTT(30)
            <4> QED BY <1>3, <3>1, <3>2, <4>1 DEF Space
        <3>3. CASE i # l + 1
            <4>1. i \in 1 .. l /\ i \in 1 .. n - j /\ j + i \in 1 .. n
                BY <1>10, <3>0, <3>3, SMTT(30)
            <4> QED BY <1>3, <1>11, <3>1, <4>1
        <3> QED BY <3>2, <3>3
    <2>7. <<w>> \in Seq(Seq(Nat))
        OBVIOUS
    <2>11. Continues(t, u, j, m, b)
        BY <2>9, <2>6 DEF Continues
    <2>8. h[b] = FoundSoFar(<<w>> \o g[m].done, g[m].piece)
        <3>1. WordSteps(g, u, m) /\ g[0] = NoWords
            BY <2>4, <2>5
        <3>2. PICK v \in Seq(Seq(Nat)) : v = <<w>> /\ BehindWord(h, j, v)
            BY <2>3, <2>7 DEF BehindWord
        <3>4. BehindWord(h, j, v) /\ WordSteps(h, t, b)
            BY <1>4, <3>2
        <3>3. g[m] \in WordStates /\ h[b] = FoundSoFar(v \o g[m].done, g[m].piece)
            BY <2>11, <3>1, <3>4, SameWords
        <3> QED BY <3>2, <3>3
    <2>12. h[b].done = <<w>> \o Words(rest)
        BY <2>4, <2>9, <2>8 DEF FoundSoFar
    <2> QED BY <1>2, <1>4, <1>5, <1>7, <1>11, <2>12
<1> QED BY <1>12, <1>13

-----------------------------------------------------------------------------
\* The line that is executed.

\* Words are sequences of characters.
LEMMA WordsAre ==
    ASSUME NEW line \in Typed
    PROVE  Words(line) \in Seq(Seq(Nat))
<1>1. PICK n \in Nat : n = Len(line)
    BY DEF Typed
<1>2. PICK h, t : /\ h[0] = NoWords /\ h[n + 1].done = Words(line) /\ WordSteps(h, t, n + 1)
                  /\ t = Append(line, Space)
    BY <1>1, WordsRead
<1>3. (\A i \in 1 .. n : t[i] = line[i] /\ line[i] \in Nat) /\ t[n + 1] = Space
    BY <1>1, <1>2, LineAndSpace
<1>4. PICK m \in Nat : m = n + 1
    OBVIOUS
<1>5. \A i \in 1 .. m : t[i] \in Nat
    <2>1. \A i \in 1 .. m : i \in 1 .. n \/ i = n + 1
        BY <1>4
    <2> QED BY <1>3, <2>1 DEF Space
<1>6. Continues(t, t, 0, m, m)
    <2>1. m = 0 + m
        OBVIOUS
    <2>2. ASSUME NEW i \in 1 .. m PROVE t[0 + i] = t[i] /\ t[i] \in Nat
        <3>1. 0 + i = i
            OBVIOUS
        <3> QED BY <1>5, <3>1
    <2> QED BY <2>1, <2>2, Zenon DEF Continues
<1>7. PICK v \in Seq(Seq(Nat)) : v = <<>>
    <2>1. <<>> \in Seq(Seq(Nat))
        OBVIOUS
    <2> QED BY <2>1
<1>8. BehindWord(h, 0, v)
    BY <1>2, <1>7 DEF BehindWord, NoWords, FoundSoFar
<1>9. WordSteps(h, t, m) /\ h[0] = NoWords /\ 0 \in Nat
    BY <1>2, <1>4
<1>10. h[m] \in WordStates
    BY <1>6, <1>8, <1>9, SameWords
<1> QED BY <1>2, <1>4, <1>10 DEF WordStates

\* What execute makes of a line: its first word is the name of the file, if it
\* is not longer than one, and the arguments are the words that follow.
Taken(command, w, r) ==
    /\ Words(command) = <<w>> \o r
    /\ Len(w) <= NameLen =>
          /\ ParseArgs(command).real_command = w
          /\ Words(ParseArgumentsOfProgram(command, ParseArgs(command).index)) = r

\* A line is spaces, or a first word, which is what execute looks for, and
\* others, which it copies to the arguments.
LEMMA CommandTaken ==
    ASSUME NEW command \in Typed
    PROVE  \/ Words(command) = <<>> /\ ParseArgs(command).real_command = <<>>
           \/ \E w \in CStrings, r \in Seq(Seq(Nat)) : w # <<>> /\ Taken(command, w, r)
<1>1. PICK a \in Nat, e \in Nat : Parsed(command, a, e)
    BY ParseArgsIs
<1>2. FirstWordAt(command, a, e)
    BY <1>1 DEF Parsed
<1>3. PICK n \in Nat : n = Len(command) /\ \A i \in 1 .. n : command[i] \in Nat \ {0, Newline}
    BY DEF Typed
<1>4. PICK l \in Int : l = e - 1 - a /\ e \in a + 1 .. n + 1
    BY <1>2, <1>3 DEF FirstWordAt
<1>5. PICK s : /\ s = Shorter(l)
               /\ ParseArgs(command) = [real_command |-> SubSeq(command, a + 1, a + s), index |-> a + s]
    BY <1>1, <1>4 DEF Parsed
<1>6. l \in Nat /\ NameLen \in Nat \ {0}
    BY <1>4, FileSystemAssumption
<1>7. CASE l = 0
    <2>1. e = a + 1 /\ s = 0
        BY <1>4, <1>5, <1>6, <1>7 DEF Shorter
    <2>2. ~(e <= n)
        <3>1. ASSUME e <= n PROVE FALSE
            <4>1. command[a + 1] = Space /\ a + 1 <= n
                BY <1>2, <1>3, <2>1, <3>1 DEF FirstWordAt
            <4>2. CharAt(command, a + 1) = Space
                BY <1>3, <4>1 DEF CharAt
            <4> QED BY <1>2, <4>2 DEF FirstWordAt, SkipsTo
        <3> QED BY <3>1
    <2>3. a = n
        BY <1>4, <2>1, <2>2
    <2>4. \A i \in 1 .. Len(command) : command[i] = Space
        <3>1. \A i \in 0 + 1 .. a : command[i] = Space
            BY <1>2 DEF FirstWordAt, SkipsTo
        <3> QED BY <1>3, <2>3, <3>1
    <2>5. Words(command) = <<>>
        BY <2>4, NoWordsInSpaces
    <2>6. SubSeq(command, a + 1, a + s) = <<>>
        <3>1. a + s = a /\ a < a + 1 /\ a + 1 \in Int /\ a \in Int
            BY <2>1
        <3> QED BY <3>1, SubSeqEmpty
    <2> QED BY <1>5, <2>5, <2>6
<1>8. CASE l # 0
    <2>1. PICK f \in Nat : f = e - 1 /\ f \in 0 .. n /\ l = f - a /\ f = a + l /\ f > a /\ e # a + 1
        <3>1. e - 1 \in Nat /\ e - 1 \in 0 .. n /\ l = e - 1 - a /\ e - 1 = a + l /\ e - 1 > a /\ e # a + 1
            BY <1>4, <1>6, <1>8
        <3> QED BY <3>1
    <2>2. PICK w : w = SubSeq(command, a + 1, f)
        OBVIOUS
    <2>3. w \in CStrings /\ Len(w) = l /\ w # <<>>
        <3>1. /\ a + 1 \in Int /\ f \in Int
              /\ \A i \in a + 1 .. f : command[i] \in Nat \ {0}
            BY <1>3, <2>1
        <3>2. /\ w \in Seq(Nat \ {0})
              /\ Len(w) = IF a + 1 <= f THEN f - (a + 1) + 1 ELSE 0
            BY <2>2, <3>1, SubSeqProperties
        <3>3. Len(w) = l
            BY <2>1, <3>2
        <3> QED BY <1>8, <3>2, <3>3 DEF CStrings
    <2>4. PICK rest : rest = RestOf(command, e) /\ rest = SubSeq(command, Skip(command, f) + 1, Len(command))
        BY <2>1 DEF RestOf
    <2>5. rest \in Typed
        <3>1. SkipsTo(command, f, Skip(command, f))
            BY <1>3, <2>1, SkipIs
        <3>2. PICK j \in 0 .. n : j = Skip(command, f)
            BY <1>3, <2>1, <3>1 DEF SkipsTo
        <3>3. SubSeq(command, j + 1, n) \in Typed
            BY <1>3, RestIsLine
        <3> QED BY <1>3, <2>4, <3>2, <3>3
    <2>6. PICK r \in Seq(Seq(Nat)) : r = Words(rest)
        BY <2>5, WordsAre
    <2>7. Words(command) = <<w>> \o r
        <3>1. Words(command) = <<SubSeq(command, a + 1, e - 1)>> \o Words(RestOf(command, e))
            BY <1>2, <2>1, FirstWordAndRest
        <3> QED BY <2>1, <2>2, <2>4, <2>6, <3>1
    <2>8. ASSUME Len(w) <= NameLen
          PROVE  /\ ParseArgs(command).real_command = w
                 /\ Words(ParseArgumentsOfProgram(command, ParseArgs(command).index)) = r
        <3>1. s = l
            BY <1>5, <1>6, <2>3, <2>8 DEF Shorter
        <3>2. ParseArgs(command) = [real_command |-> SubSeq(command, a + 1, f), index |-> f]
            BY <1>5, <2>1, <3>1
        <3>3. ParseArgumentsOfProgram(command, f) = rest
            BY <1>3, <2>1, <2>4, ArgumentsAre
        <3> QED BY <2>2, <2>6, <3>2, <3>3
    <2>9. Taken(command, w, r)
        BY <2>7, <2>8 DEF Taken
    <2> QED BY <2>3, <2>9
<1> QED BY <1>7, <1>8

\* The program that runs was started by the line in ended.
StartedBy(command, f, arguments) ==
    Len(Words(command)[1]) <= NameLen =>
        dir_entries[f].name = Words(command)[1] /\ Words(arguments) = Tail(Words(command))

\* The file that is started has the first word as its name, and the arguments
\* the other words.
LEMMA StartsWhatIsTyped ==
    ASSUME NEW command \in Typed, NEW f \in 1 .. Len(dir_entries), dir_entries \in Images,
           ExecuteStarts(command, f)
    PROVE  StartedBy(command, f, args')
<1>1. PICK name : /\ name = ParseArgs(command).real_command /\ name # <<>> /\ Found(name, f)
    BY DEF ExecuteStarts, CheckFileValidity
<1>2. args' = ParseArgumentsOfProgram(command, ParseArgs(command).index)
    BY DEF ExecuteStarts
<1>3. PICK w \in CStrings, r \in Seq(Seq(Nat)) : w # <<>> /\ Taken(command, w, r)
    BY <1>1, CommandTaken
<1>4. Words(command) = <<w>> \o r
    BY <1>3 DEF Taken
<1>5. Words(command)[1] = w /\ Tail(Words(command)) = r
    <2>1. <<w>> \o r \in Seq(Seq(Nat)) /\ (<<w>> \o r)[1] = w /\ Tail(<<w>> \o r) = r
        <3>1. w \in Seq(Nat)
            BY DEF CStrings
        <3> QED BY <3>1
    <2> QED BY <1>4, <2>1
<1>6. ASSUME Len(w) <= NameLen
      PROVE  dir_entries[f].name = w /\ Words(args') = r
    <2>1. name = w /\ Words(args') = r
        BY <1>1, <1>2, <1>3, <1>6 DEF Taken
    <2>2. dir_entries[f].name \in CStrings /\ Len(dir_entries[f].name) <= NameLen
        BY FileSystemAssumption
    <2>3. Matches(w, dir_entries[f].name)
        BY <1>1, <2>1 DEF Found
    <2>4. w = dir_entries[f].name
        BY <1>6, <2>2, <2>3, MatchesIsEqual
    <2> QED BY <2>1, <2>4
<1> QED BY <1>5, <1>6 DEF StartedBy

\* A first word with a file is refused only for what is in the file.
LEMMA RefusesWhatIsNoProgram ==
    ASSUME NEW command \in Typed, dir_entries \in Images, Distinct(dir_entries),
           ExecuteRefused(command), Words(command) # <<>>,
           NEW f \in FileNamed(dir_entries, Words(command)[1])
    PROVE  FALSE \in Magic(dir_entries[f])
<1>1. PICK w \in CStrings, r \in Seq(Seq(Nat)) : w # <<>> /\ Taken(command, w, r)
    BY CommandTaken
<1>2. Words(command) = <<w>> \o r
    BY <1>1 DEF Taken
<1>3. Words(command)[1] = w
    <2>1. (<<w>> \o r)[1] = w
        <3>1. w \in Seq(Nat)
            BY DEF CStrings
        <3> QED BY <3>1
    <2> QED BY <1>2, <2>1
<1>4. f \in 1 .. Len(dir_entries) /\ dir_entries[f].name = w
    BY <1>3 DEF FileNamed
<1>5. Len(dir_entries) \in Nat /\ \A g \in 1 .. Len(dir_entries) : dir_entries[g].name \in CStrings /\ Len(dir_entries[g].name) <= NameLen
    BY FileSystemAssumption
<1>6. Len(w) <= NameLen
    BY <1>4, <1>5
<1>7. ParseArgs(command).real_command = w
    BY <1>1, <1>6 DEF Taken
<1>8. Found(w, f)
    <2>1. Matches(w, dir_entries[f].name)
        BY <1>4, <1>5, <1>6, MatchesIsEqual
    <2>2. ASSUME NEW g \in 1 .. f - 1, Matches(w, dir_entries[g].name) PROVE FALSE
        <3>1. g \in 1 .. Len(dir_entries) /\ g # f
            BY <1>4, <1>5
        <3>2. dir_entries[g].name = w
            BY <1>5, <1>6, <2>2, <3>1, MatchesIsEqual
        <3> QED BY <1>4, <3>1, <3>2 DEF Distinct
    <2> QED BY <2>1, <2>2 DEF Found
<1> QED BY <1>1, <1>4, <1>7, <1>8 DEF ExecuteRefused

-----------------------------------------------------------------------------
\* Every step keeps the line a program was started by.

\* No call changes the directory, and those of files keep the arguments.
Keeps == UNCHANGED <<args, dir_entries>>

\* This holds of each call that programs make.
LEMMA CallsKeep ==
    /\ \A name : Open(name) /\ OnlyFiles => Keeps
    /\ \A fd : Close(fd) /\ OnlyFiles => Keeps
    /\ \A fd, n : Read(fd, n) /\ OnlyFiles => Keeps
    /\ ReadRefused /\ OnlyFiles => Keeps
    /\ \A screen_start : Vidmap(screen_start) => Keeps
    /\ NoCall => Keeps
    /\ Fails => Keeps
BY DEF Keeps, Open, Close, Read, FileRead, Delivers, DirRead, ReadRefused, Vidmap, NoCall, Fails, OnlyFiles,
       kernel, vars, files

\* A program goes on, on its own line, arguments and directory.
Goes == Keeps /\ UNCHANGED <<program, disk, ended>>

\* It exits with a number.
ExitsWithNumber == pc' = "exit" => local'.status \in Nat

\* A program that returns a number exits with it, and one that goes on does not
\* exit.
LEMMA ReturnsNumber ==
    ASSUME NEW status \in Nat, Return(status)
    PROVE  ExitsWithNumber
BY DEF Return, Go, ExitsWithNumber

LEMMA GoesOn ==
    ASSUME NEW label, label # "exit", NEW variables, Go(label, variables)
    PROVE  ExitsWithNumber
BY DEF Go, ExitsWithNumber

\* Each program calls nothing but files, takes lines from the first on, and
\* exits with a number.
LEMMA CatGoes ==
    ASSUME Cat
    PROVE  Goes /\ UNCHANGED typed /\ ExitsWithNumber
<1>1. CASE At("cat", "main")
    <2>1. Goes /\ UNCHANGED typed
        BY <1>1, CallsKeep DEF Cat, At, Goes, NoInput
    <2>2. ExitsWithNumber
        BY <1>1 DEF Cat, At, ExitsWithNumber, Return, Go
    <2> QED BY <2>1, <2>2
<1>2. CASE At("cat", "read")
    <2>1. Goes /\ UNCHANGED typed
        BY <1>2, CallsKeep DEF Cat, At, Goes, NoInput
    <2>2. ExitsWithNumber
        BY <1>2 DEF Cat, At, ExitsWithNumber, Return, Go, Stay
    <2> QED BY <2>1, <2>2
<1> QED BY <1>1, <1>2 DEF Cat

LEMMA LsGoes ==
    ASSUME Ls
    PROVE  Goes /\ UNCHANGED typed /\ ExitsWithNumber
<1>1. CASE At("ls", "main")
    <2>1. Goes /\ UNCHANGED typed
        BY <1>1, CallsKeep DEF Ls, At, Goes, NoInput
    <2>2. ExitsWithNumber
        BY <1>1 DEF Ls, At, ExitsWithNumber, Return, Go
    <2> QED BY <2>1, <2>2
<1>2. CASE At("ls", "read")
    <2>1. Goes /\ UNCHANGED typed
        BY <1>2, CallsKeep DEF Ls, At, Goes, NoInput
    <2>2. ExitsWithNumber
        BY <1>2 DEF Ls, At, ExitsWithNumber, Return, Go, Stay
    <2> QED BY <2>1, <2>2
<1> QED BY <1>1, <1>2 DEF Ls

LEMMA GrepGoes ==
    ASSUME Grep
    PROVE  Goes /\ UNCHANGED typed /\ ExitsWithNumber
<1>1. CASE GrepMain /\ At("grep", "main")
    <2>1. Goes /\ UNCHANGED typed
        BY <1>1, CallsKeep DEF GrepMain, At, Goes, NoInput
    <2>2. ExitsWithNumber
        BY <1>1 DEF GrepMain, At, ExitsWithNumber, Return, Go
    <2> QED BY <2>1, <2>2
<1>2. CASE GrepMain /\ At("grep", "next")
    <2>1. Goes /\ UNCHANGED typed
        BY <1>2, CallsKeep DEF GrepMain, At, Goes, NoInput
    <2>2. ExitsWithNumber
        BY <1>2 DEF GrepMain, At, ExitsWithNumber, Return, Go, Stay
    <2> QED BY <2>1, <2>2
<1>3. CASE GrepOpen \/ GrepRead \/ GrepClose
    <2>1. Goes /\ UNCHANGED typed
        BY <1>3, CallsKeep DEF GrepOpen, GrepRead, GrepClose, At, Goes, NoInput
    <2>2. ExitsWithNumber
        BY <1>3 DEF GrepOpen, GrepRead, GrepClose, At, ExitsWithNumber, Return, Go
    <2> QED BY <2>1, <2>2
<1>4. CASE GrepLine
    <2>1. Goes /\ UNCHANGED typed
        BY <1>4, CallsKeep DEF GrepLine, At, Goes, NoInput
    <2>2. ExitsWithNumber
        BY <1>4 DEF GrepLine, KeepPart, ExitsWithNumber, Go
    <2> QED BY <2>1, <2>2
<1> QED BY <1>1, <1>2, <1>3, <1>4 DEF Grep, GrepMain

\* The programs that read a line take it from what was typed.
TakesLines == typed' = typed \/ (typed # <<>> /\ typed' = Tail(typed))

LEMMA TalkersGo ==
    ASSUME HelloProgram \/ Testprint \/ Sigtest \/ Counter \/ Pingpong
    PROVE  Goes /\ TakesLines /\ ExitsWithNumber
<1>1. CASE HelloProgram \/ Testprint
    <2>1. Goes /\ TakesLines
        BY <1>1, CallsKeep DEF HelloProgram, Testprint, At, Goes, NoInput, ReadLine, TakesLines
    <2>2. ExitsWithNumber
        BY <1>1 DEF HelloProgram, Testprint, ExitsWithNumber, Return, Go
    <2> QED BY <2>1, <2>2
<1>2. CASE Sigtest
    <2>1. Goes /\ TakesLines
        BY <1>2, CallsKeep DEF Sigtest, At, Goes, NoInput, ReadLine, TakesLines
    <2>2. ExitsWithNumber
        BY <1>2 DEF Sigtest, ExitsWithNumber, Return, Go
    <2> QED BY <2>1, <2>2
<1>3. CASE Counter
    <2>1. Goes /\ TakesLines
        BY <1>3, CallsKeep DEF Counter, At, Goes, NoInput, ReadLine, TakesLines
    <2>2. ExitsWithNumber
        BY <1>3 DEF Counter, ExitsWithNumber, Return, Go
    <2> QED BY <2>1, <2>2
<1>4. CASE Pingpong
    <2>1. Goes /\ TakesLines
        BY <1>4, CallsKeep DEF Pingpong, At, Goes, NoInput, TakesLines
    <2>2. ExitsWithNumber
        BY <1>4 DEF Pingpong, At, ExitsWithNumber, Return, Go
    <2> QED BY <2>1, <2>2
<1> QED BY <1>1, <1>2, <1>3, <1>4

LEMMA FishGoes ==
    ASSUME Fish
    PROVE  Goes /\ UNCHANGED typed /\ ExitsWithNumber
<1>1. CASE FishMain
    <2>1. Goes /\ UNCHANGED typed
        BY <1>1, CallsKeep DEF FishMain, At, Goes, NoInput
    <2>2. ExitsWithNumber
        BY <1>1 DEF FishMain, ExitsWithNumber, Return, Go
    <2> QED BY <2>1, <2>2
<1>2. CASE FishOpen
    <2>1. Goes /\ UNCHANGED typed
        BY <1>2, CallsKeep DEF FishOpen, At, Goes, NoInput
    <2>2. ExitsWithNumber
        <3>1. Return(255) \/ \E v : Go("open 1", v) \/ Go("read", v)
            BY <1>2 DEF FishOpen
        <3>2. CASE Return(255)
            BY <3>2, ReturnsNumber
        <3>3. ASSUME NEW v, Go("open 1", v) PROVE ExitsWithNumber
            BY <3>3, GoesOn
        <3>4. ASSUME NEW v, Go("read", v) PROVE ExitsWithNumber
            BY <3>4, GoesOn
        <3> QED BY <3>1, <3>2, <3>3, <3>4
    <2> QED BY <2>1, <2>2
<1>3. CASE FishRead
    <2>1. Goes /\ UNCHANGED typed
        BY <1>3, CallsKeep DEF FishRead, At, Goes, NoInput
    <2>2. ASSUME NEW after, Paired(after) PROVE ExitsWithNumber
        BY <2>2 DEF Paired, ExitsWithNumber, Go
    <2>3. \E after : Paired(after)
        BY <1>3 DEF FishRead
    <2> QED BY <2>1, <2>2, <2>3
<1>4. CASE FishRow
    <2>1. Goes /\ UNCHANGED typed
        BY <1>4, CallsKeep DEF FishRow, At, Goes, NoInput
    <2>2. ExitsWithNumber
        <3>1. Return(0) \/ \E v : Go("row", v) \/ Go("read", v)
            BY <1>4 DEF FishRow
        <3> QED BY <3>1, ReturnsNumber, GoesOn
    <2> QED BY <2>1, <2>2
<1> QED BY <1>1, <1>2, <1>3, <1>4 DEF Fish

\* syserr counts the tests that failed.
Counting == pc = "test" => "fail" \in DOMAIN local /\ local.fail \in Nat

LEMMA SyserrCounts ==
    ASSUME Syserr, Counting
    PROVE  Goes /\ TakesLines /\ ExitsWithNumber /\ Counting'
<1>1. CASE At("syserr", "main") /\ ReadLine
    <2>1. Goes /\ TakesLines
        BY <1>1, CallsKeep DEF Syserr, At, Goes, NoInput, ReadLine, TakesLines
    <2>2. ExitsWithNumber /\ Counting'
        BY <1>1 DEF Syserr, At, ExitsWithNumber, Counting, Return, Go
    <2> QED BY <2>1, <2>2
<1>2. CASE /\ At("syserr", "test") /\ NoInput
           /\ Call(Tests[local.test][local.n])
           /\ Go("test", [local EXCEPT !.n = @ + 1,
                                       !.failed = IF result' = -1 THEN @ \cup {local.n} ELSE @])
    <2>1. Keeps
        <3>1. PICK c : Call(c)
            BY <1>2
        <3> QED BY <3>1, CallsKeep DEF Call
    <2>2. Goes /\ TakesLines
        BY <1>2, <2>1 DEF At, Goes, NoInput, TakesLines
    <2>3. ExitsWithNumber /\ Counting'
        BY <1>2 DEF At, ExitsWithNumber, Counting, Go
    <2> QED BY <2>2, <2>3
<1>3. CASE /\ At("syserr", "test") /\ NoInput /\ NoCall
           /\ \E fail \in {local.fail, local.fail + 2} :
                 \/ Go("test", [local EXCEPT !.test = @ + 1, !.n = 1, !.failed = {}, !.fail = fail])
                 \/ Return(fail)
    <2>1. Goes /\ TakesLines
        BY <1>3, CallsKeep DEF At, Goes, NoInput, TakesLines
    <2>2. pc = "test" /\ "fail" \in DOMAIN local /\ local.fail \in Nat
        BY <1>3 DEF At, Counting
    <2>3. PICK fail \in {local.fail, local.fail + 2} :
              \/ Go("test", [local EXCEPT !.test = @ + 1, !.n = 1, !.failed = {}, !.fail = fail])
              \/ Return(fail)
        BY <1>3
    <2>4. fail \in Nat
        BY <2>2, <2>3
    <2>5. CASE Return(fail)
        <3>1. pc' = "exit" /\ ExitsWithNumber
            BY <2>4, <2>5, ReturnsNumber DEF Return, Go
        <3>2. Counting'
            BY <3>1 DEF Counting
        <3> QED BY <2>1, <3>1, <3>2
    <2>6. CASE Go("test", [local EXCEPT !.test = @ + 1, !.n = 1, !.failed = {}, !.fail = fail])
        <3>1. pc' = "test" /\ local' = [local EXCEPT !.test = @ + 1, !.n = 1, !.failed = {}, !.fail = fail]
            BY <2>6 DEF Go
        <3>2. "fail" \in DOMAIN local' /\ local'.fail = fail
            BY <2>2, <3>1
        <3>3. ExitsWithNumber
            BY <3>1 DEF ExitsWithNumber
        <3>4. local'.fail \in Nat
            BY <2>4, <3>2
        <3>5. Counting'
            BY <3>2, <3>4 DEF Counting
        <3> QED BY <2>1, <3>3, <3>5
    <2> QED BY <2>1, <2>3, <2>5, <2>6
<1> QED BY <1>1, <1>2, <1>3 DEF Syserr

-----------------------------------------------------------------------------
\* What holds of lines, the programs started by them, and their ends.
LineInv ==
    /\ typed \in Seq(Typed)
    /\ dir_entries \in Images
    /\ program = "shell" \/ Running => Distinct(dir_entries)
    /\ pc = "exit" => local.status \in Nat
    /\ program = "syserr" => Counting
    /\ Running => /\ ended = [program |-> "none", line |-> ended.line, file |-> ended.file]
                  /\ StartedBy(ended.line, ended.file, args)
    /\ LineIsRun

\* The first shell has read nothing.
LEMMA InitLine == UserInit => LineInv
<1> SUFFICES ASSUME UserInit PROVE LineInv
    OBVIOUS
<1>1. typed \in Seq(Typed)
    <2>1. typed = <<>> \/ \E s \in Sessions : typed = s.lines
        BY DEF UserInit
    <2>2. <<>> \in Seq(Typed)
        OBVIOUS
    <2> QED BY <2>1, <2>2, SessionsAssumption
<1>2. dir_entries \in Images
    BY DEF UserInit, Init
<1>3. program \in {"any", "shell", "library"} /\ ~Running
    BY DEF UserInit, Running
<1>4. program = "shell" => Distinct(dir_entries)
    BY SessionsAssumption DEF UserInit, Distinct
<1>5. pc # "exit"
    BY DEF UserInit
<1>6. LineIsRun
    BY DEF UserInit, LineIsRun
<1> QED BY <1>1, <1>2, <1>3, <1>4, <1>5, <1>6 DEF LineInv

\* A program that goes on, or exits.
LEMMA ProgramKeepsLine ==
    ASSUME LineInv, Running, Goes, TakesLines, ExitsWithNumber, program = "syserr" => Counting'
    PROVE  LineInv'
<1>1. UNCHANGED <<program, ended, args, dir_entries>>
    BY DEF Goes, Keeps
<1>2. typed' \in Seq(Typed)
    BY DEF LineInv, TakesLines
<1>3. Running'
    BY <1>1 DEF Running
<1>4. StartedBy(ended.line, ended.file, args)'
    BY <1>1 DEF LineInv, StartedBy
<1>5. LineIsRun'
    BY <1>1 DEF LineInv, LineIsRun, FileNamed
<1>6. Distinct(dir_entries)'
    BY <1>1 DEF LineInv
<1> QED BY <1>1, <1>2, <1>3, <1>4, <1>5, <1>6 DEF LineInv, ExitsWithNumber

\* The shell hands the line it read to execute, which starts a program or
\* refuses.
LEMMA ShellKeepsLine ==
    ASSUME LineInv, Shell
    PROVE  LineInv'
<1>1. program = "shell" /\ pc = "read" /\ typed # <<>> /\ typed' = Tail(typed)
    BY DEF Shell
<1>2. PICK command \in Typed : command = Head(typed)
    <2>1. Head(typed) \in Typed
        BY <1>1 DEF LineInv
    <2> QED BY <2>1
<1>3. typed' \in Seq(Typed)
    BY <1>1 DEF LineInv
<1>4. CASE NoCall /\ UNCHANGED <<program, pc, local, out, ended>>
    <2>1. Keeps
        BY <1>4, CallsKeep
    <2>2. LineIsRun' /\ Running' = Running
        BY <1>4, <2>1 DEF LineInv, LineIsRun, FileNamed, Keeps, Running
    <2> QED BY <1>1, <1>3, <1>4, <2>1, <2>2 DEF LineInv, Keeps, Running
<1>5. CASE /\ ExecuteRefused(command)
           /\ ended' = [program |-> "none", line |-> command, status |-> -1]
           /\ UNCHANGED <<program, pc, local, out>>
    <2>1. Keeps
        BY <1>5 DEF ExecuteRefused, Keeps, files
    <2>2. ASSUME Words(command) # <<>>, NEW f \in FileNamed(dir_entries, Words(command)[1])
          PROVE  FALSE \in Magic(dir_entries[f])
        BY <1>1, <1>5, <2>2, RefusesWhatIsNoProgram DEF LineInv
    <2>3. LineIsRun'
        BY <1>5, <2>1, <2>2 DEF LineIsRun, FileNamed, Keeps
    <2>4. Distinct(dir_entries') /\ dir_entries' \in Images
        BY <1>1, <2>1 DEF LineInv, Keeps
    <2> QED BY <1>1, <1>3, <1>5, <2>3, <2>4 DEF LineInv, Running
<1>6. CASE \E f \in 1 .. Len(dir_entries) :
               /\ ExecuteStarts(command, f)
               /\ ended' = [program |-> "none", line |-> command, file |-> f]
               /\ pc' = "main"
    <2>1. PICK f \in 1 .. Len(dir_entries) :
               /\ ExecuteStarts(command, f)
               /\ ended' = [program |-> "none", line |-> command, file |-> f]
        BY <1>6
    <2>2. UNCHANGED dir_entries
        BY <2>1 DEF ExecuteStarts, ClearTable
    <2>3. StartedBy(command, f, args')
        BY <2>1, StartsWhatIsTyped DEF LineInv
    <2>4. StartedBy(ended'.line, ended'.file, args')
        BY <2>1, <2>3
    <2>5. LineIsRun'
        BY <2>1 DEF LineIsRun
    <2>6. StartedBy(ended.line, ended.file, args)'
        BY <2>2, <2>4 DEF StartedBy
    <2>7. pc' = "main" /\ Distinct(dir_entries') /\ dir_entries' \in Images
        BY <1>1, <1>6, <2>2 DEF LineInv
    <2>8. ended' = [program |-> "none", line |-> ended'.line, file |-> ended'.file]
        BY <2>1
    <2> QED BY <1>3, <2>5, <2>6, <2>7, <2>8 DEF LineInv, Counting
<1> QED BY <1>2, <1>4, <1>5, <1>6 DEF Shell

\* The shell that goes on is told how the program ended.
LEMMA HaltKeepsLine ==
    ASSUME LineInv, NEW status \in Nat, Halt(status)
    PROVE  LineInv'
<1>1. Running /\ program' = "shell" /\ pc' = "read" /\ UNCHANGED <<typed, args, dir_entries>>
    BY DEF Halt, HaltCloses, ClearTable
<1>2. ended' = [program |-> program, line |-> ended.line, args |-> args, file |-> ended.file,
                status |-> status, out |-> out, local |-> local]
    BY DEF Halt
<1>3. StartedBy(ended.line, ended.file, args) /\ Distinct(dir_entries)
    BY <1>1 DEF LineInv
<1>4. /\ ended'.program # "none" /\ Len(Words(ended'.line)[1]) <= NameLen =>
          dir_entries[ended'.file].name = Words(ended'.line)[1] /\ Words(ended'.args) = Tail(Words(ended'.line))
      /\ ended'.status # -1
    BY <1>2, <1>3 DEF StartedBy
<1>5. LineIsRun'
    BY <1>1, <1>4 DEF LineIsRun
<1> QED BY <1>1, <1>3, <1>5 DEF LineInv, Running

\* Every step of the programs.
LEMMA NextLineInv == LineInv /\ [UserNext]_uvars => LineInv'
<1> SUFFICES ASSUME LineInv, [UserNext]_uvars PROVE LineInv'
    OBVIOUS
<1>1. CASE UNCHANGED uvars
    <2>1. UNCHANGED <<typed, dir_entries, program, pc, local, ended, args>>
        BY <1>1 DEF uvars, user, kernel, vars
    <2>2. LineIsRun'
        BY <2>1 DEF LineInv, LineIsRun, FileNamed
    <2>3. Running' = Running
        BY <2>1 DEF Running
    <2> QED BY <2>1, <2>2, <2>3 DEF LineInv, Counting, StartedBy
<1>2. CASE Shell
    BY <1>2, ShellKeepsLine
<1>3. CASE Ends \/ Faults \/ Wild
    <2>1. \E status \in Nat : Halt(status)
        BY <1>3 DEF Ends, Faults, Wild, LineInv
    <2> QED BY <2>1, HaltKeepsLine
<1>4. CASE Cat \/ Ls \/ Grep \/ Fish \/ HelloProgram \/ Testprint \/ Sigtest \/ Counter \/ Pingpong
    <2>1. Goes /\ TakesLines /\ ExitsWithNumber
        BY <1>4, CatGoes, LsGoes, GrepGoes, FishGoes, TalkersGo DEF TakesLines
    <2>2. Running /\ program # "syserr"
        BY <1>4 DEF Cat, Ls, Grep, GrepMain, GrepOpen, GrepRead, GrepLine, GrepClose,
                    Fish, FishMain, FishOpen, FishRead, FishRow,
                    HelloProgram, Testprint, Sigtest, Counter, Pingpong, At, Running
    <2> QED BY <2>1, <2>2, ProgramKeepsLine
<1>5. CASE Syserr
    <2>1. Running /\ program = "syserr"
        BY <1>5 DEF Syserr, At, Running
    <2>2. Goes /\ TakesLines /\ ExitsWithNumber /\ Counting'
        BY <1>5, <2>1, SyserrCounts DEF LineInv
    <2> QED BY <2>1, <2>2, ProgramKeepsLine
<1>6. CASE LibraryCall \/ AnyClient
    <2>1. UNCHANGED <<typed, program, local, ended, args, dir_entries>> /\ pc' \in {"returned", pc}
        BY <1>6
        DEF LibraryCall, AnyClient, NoCall, kernel, vars, user, OnlyFiles, Next, Open, Close,
            FileRead, Delivers, ReadBack, ReadFaults, ClearTable, DirRead, ReadRefused
    <2>2. program \in {"library", "any"}
        BY <1>6 DEF LibraryCall, AnyClient
    <2>3. LineIsRun'
        BY <2>1 DEF LineInv, LineIsRun, FileNamed
    <2> QED BY <2>1, <2>2, <2>3 DEF LineInv, Running
<1> QED BY <1>1, <1>2, <1>3, <1>4, <1>5, <1>6 DEF UserNext

\* execute starts the file that the first word of a line names, with the other
\* words in the arguments that getargs copies, and refuses a first word that is
\* no file with code in it: for all lines, of any words and spaces.
THEOREM LinesAreRun == UserSpec => []LineIsRun
<1>1. LineInv => LineIsRun
    BY DEF LineInv
<1> QED BY <1>1, InitLine, NextLineInv, PTL DEF UserSpec

-----------------------------------------------------------------------------
\* Sequences in a row, and the lines of a text.

\* The values of a function up to n, one after the other.
Flat(F, n) == FlattenSeq([k \in 1 .. n |-> F[k]])

\* The recursion in FlattenSeq.
Glued(f, F, n) == f = [i \in 1 .. n |-> IF i = 1 THEN F[i] ELSE f[i - 1] \o F[i]]

\* The recursion of FlattenSeq exists and its values do not depend on the end.
LEMMA GluedExists ==
    ASSUME NEW F, NEW n \in Nat
    PROVE  \E f : Glued(f, F, n)
<1> DEFINE H == {m \in Nat : \E f : Glued(f, F, m)}
<1>1. 0 \in H
    <2>1. Glued([i \in 1 .. 0 |-> F[i]], F, 0)
        BY DEF Glued
    <2> QED BY <2>1
<1>2. ASSUME NEW m \in Nat, m \in H PROVE m + 1 \in H
    <2>1. PICK f : Glued(f, F, m)
        BY <1>2
    <2> DEFINE g == [i \in 1 .. m + 1 |-> IF i = 1 THEN F[i] ELSE f[i - 1] \o F[i]]
    <2>2. ASSUME NEW i \in 1 .. m PROVE g[i] = f[i]
        <3>1. i \in 1 .. m + 1
            OBVIOUS
        <3>2. f[i] = IF i = 1 THEN F[i] ELSE f[i - 1] \o F[i]
            BY <2>1 DEF Glued
        <3> QED BY <3>1, <3>2
    <2>3. \A i \in 1 .. m + 1 : i # 1 => i - 1 \in 1 .. m
        OBVIOUS
    <2>4. \A i \in 1 .. m + 1 : i # 1 => g[i - 1] = f[i - 1]
        <3> HIDE DEF g
        <3> QED BY <2>2, <2>3
    <2>5. g = [i \in 1 .. m + 1 |-> IF i = 1 THEN F[i] ELSE g[i - 1] \o F[i]]
        <3>1. \A i \in 1 .. m + 1 : (IF i = 1 THEN F[i] ELSE f[i - 1] \o F[i])
                                      = IF i = 1 THEN F[i] ELSE g[i - 1] \o F[i]
            <4> HIDE DEF g
            <4> QED BY <2>4
        <3> QED BY <3>1
    <2>6. Glued(g, F, m + 1)
        BY <2>5 DEF Glued
    <2> QED BY <2>6
<1> HIDE DEF H
<1>3. Nat \subseteq H
    BY <1>1, <1>2, Induction
<1> QED BY <1>3 DEF H

\* Its values are those of its recursion at every other end.
LEMMA GluedSame ==
    ASSUME NEW F, NEW n \in Nat, NEW m \in Nat, NEW f, NEW g, Glued(f, F, n), Glued(g, F, m)
    PROVE  \A k \in 1 .. n : k <= m => f[k] = g[k]
<1> DEFINE H == {i \in Nat : i + 1 <= n /\ i + 1 <= m => f[i + 1] = g[i + 1]}
<1>1. 0 \in H
    BY DEF Glued
<1>2. ASSUME NEW i \in Nat, i \in H PROVE i + 1 \in H
    <2> SUFFICES ASSUME i + 1 + 1 <= n, i + 1 + 1 <= m PROVE f[i + 1 + 1] = g[i + 1 + 1]
        OBVIOUS
    <2>1. PICK k \in 1 .. n : k = i + 1 + 1 /\ k \in 1 .. m /\ k # 1 /\ k - 1 = i + 1
        OBVIOUS
    <2>2. f[k] = f[k - 1] \o F[k] /\ g[k] = g[k - 1] \o F[k]
        BY <2>1 DEF Glued
    <2>3. f[k - 1] = g[k - 1]
        BY <1>2, <2>1
    <2> QED BY <2>1, <2>2, <2>3
<1> HIDE DEF H
<1>3. Nat \subseteq H
    BY <1>1, <1>2, Induction
<1>4. ASSUME NEW k \in 1 .. n, k <= m PROVE f[k] = g[k]
    <2>1. k - 1 \in H /\ k - 1 + 1 = k
        BY <1>3
    <2> QED BY <1>4, <2>1 DEF H
<1> QED BY <1>4

\* Flat is the last of them.
LEMMA FlatIs ==
    ASSUME NEW F, NEW n \in Nat \ {0}, NEW f, Glued(f, F, n)
    PROVE  Flat(F, n) = f[n]
<1> DEFINE s == [k \in 1 .. n |-> F[k]]
           body(h) == [i \in 1 .. n |-> IF i = 1 THEN s[i] ELSE h[i - 1] \o s[i]]
           flatten == CHOOSE h : h = body(h)
<1>1. Len(s) = n
    OBVIOUS
<1>2. \A h : body(h) = [i \in 1 .. n |-> IF i = 1 THEN F[i] ELSE h[i - 1] \o F[i]]
    OBVIOUS
<1>3. Flat(F, n) = IF Len(s) = 0 THEN s
                   ELSE (CHOOSE h : h = [i \in 1 .. Len(s) |-> IF i = 1 THEN s[i] ELSE h[i - 1] \o s[i]])[Len(s)]
    BY DEF Flat, FlattenSeq
<1> HIDE DEF s
<1>4. Flat(F, n) = flatten[n]
    BY <1>1, <1>3
<1> HIDE DEF body
<1>5. f = body(f)
    BY <1>2 DEF Glued
<1>6. flatten = body(flatten)
    BY <1>5
<1> HIDE DEF flatten
<1>7. Glued(flatten, F, n)
    BY <1>2, <1>6 DEF Glued
<1>8. flatten[n] = f[n]
    <2>1. n \in 1 .. n /\ n <= n
        OBVIOUS
    <2> QED BY <1>7, <2>1, GluedSame
<1> QED BY <1>4, <1>8

\* Nothing in a row is nothing.
LEMMA FlatNone ==
    ASSUME NEW F
    PROVE  Flat(F, 0) = <<>>
<1>1. [k \in 1 .. 0 |-> F[k]] = <<>>
    OBVIOUS
<1> QED BY <1>1 DEF Flat, FlattenSeq

\* One sequence more is appended.
LEMMA FlatMore ==
    ASSUME NEW F, NEW n \in Nat, NEW D, F[n + 1] \in Seq(D)
    PROVE  Flat(F, n + 1) = Flat(F, n) \o F[n + 1]
<1>1. PICK m \in Nat \ {0} : m = n + 1 /\ m - 1 = n /\ F[m] \in Seq(D)
    OBVIOUS
<1>2. PICK f : Glued(f, F, m)
    BY <1>1, GluedExists
<1>3. Flat(F, m) = f[m]
    BY <1>2, FlatIs
<1>4. f[m] = IF m = 1 THEN F[m] ELSE f[m - 1] \o F[m]
    <2>1. m \in 1 .. m
        OBVIOUS
    <2> QED BY <1>2, <2>1 DEF Glued
<1>5. CASE n = 0
    <2>1. <<>> \o F[m] = F[m]
        BY <1>1, ConcatEmptySeq
    <2>2. Flat(F, n) = <<>>
        BY <1>5, FlatNone
    <2> QED BY <1>1, <1>3, <1>4, <1>5, <2>1, <2>2
<1>6. CASE n # 0
    <2>1. PICK l \in Nat \ {0} : l = n
        BY <1>6
    <2>2. PICK g : Glued(g, F, l)
        BY GluedExists
    <2>3. Flat(F, l) = g[l]
        BY <2>2, FlatIs
    <2>4. g[l] = f[l]
        <3>1. l \in 1 .. l /\ l <= m
            BY <1>1, <2>1
        <3> QED BY <1>2, <2>2, <3>1, GluedSame
    <2>5. f[m] = f[m - 1] \o F[m] /\ f[m - 1] = Flat(F, n)
        <3>1. m # 1
            BY <1>1, <1>6
        <3> QED BY <1>1, <1>4, <2>1, <2>3, <2>4, <3>1
    <2> QED BY <1>1, <1>3, <2>5
<1> QED BY <1>5, <1>6

\* Sequences of elements of D in a row are one.
LEMMA FlatIsSeq ==
    ASSUME NEW F, NEW n \in Nat, NEW D, \A k \in 1 .. n : F[k] \in Seq(D)
    PROVE  Flat(F, n) \in Seq(D)
<1> DEFINE H == {i \in Nat : i <= n => Flat(F, i) \in Seq(D)}
<1>1. 0 \in H
    <2>1. Flat(F, 0) = <<>> /\ <<>> \in Seq(D)
        BY FlatNone
    <2> QED BY <2>1
<1>2. ASSUME NEW i \in Nat, i \in H PROVE i + 1 \in H
    <2> SUFFICES ASSUME i + 1 <= n PROVE Flat(F, i + 1) \in Seq(D)
        OBVIOUS
    <2>1. F[i + 1] \in Seq(D) /\ Flat(F, i) \in Seq(D)
        BY <1>2
    <2>2. Flat(F, i + 1) = Flat(F, i) \o F[i + 1]
        BY <2>1, FlatMore
    <2>3. Flat(F, i) \o F[i + 1] \in Seq(D)
        BY <2>1, ConcatProperties
    <2> QED BY <2>2, <2>3
<1> HIDE DEF H
<1>3. Nat \subseteq H
    BY <1>1, <1>2, Induction
<1> QED BY <1>3 DEF H

\* Adding nothing changes nothing.
LEMMA FlatOfNothing ==
    ASSUME NEW F, NEW n \in Nat, NEW m \in Nat, n <= m, NEW D,
           \A k \in 1 .. n : F[k] \in Seq(D), \A k \in n + 1 .. m : F[k] = <<>>
    PROVE  Flat(F, m) = Flat(F, n)
<1> DEFINE H == {i \in Nat : n + i <= m => Flat(F, n + i) = Flat(F, n)}
<1>0. Flat(F, n) \in Seq(D)
    BY FlatIsSeq
<1>1. 0 \in H
    OBVIOUS
<1>2. ASSUME NEW i \in Nat, i \in H PROVE i + 1 \in H
    <2> SUFFICES ASSUME n + (i + 1) <= m PROVE Flat(F, n + (i + 1)) = Flat(F, n)
        OBVIOUS
    <2>1. PICK k \in Nat : k = n + i /\ k + 1 = n + (i + 1) /\ F[k + 1] = <<>> /\ Flat(F, k) = Flat(F, n)
        BY <1>2
    <2>2. F[k + 1] \in Seq(D)
        BY <2>1
    <2>3. Flat(F, k + 1) = Flat(F, k) \o F[k + 1]
        BY <2>2, FlatMore
    <2>4. Flat(F, n) \o <<>> = Flat(F, n)
        BY <1>0, ConcatEmptySeq
    <2> QED BY <2>1, <2>3, <2>4
<1> HIDE DEF H
<1>3. Nat \subseteq H
    BY <1>1, <1>2, Induction
<1>4. m - n \in H /\ n + (m - n) = m
    BY <1>3
<1> QED BY <1>4 DEF H

\* The lines of a text: what was found after each character.
CutRun(h, text, n) ==
    /\ h[0] = NoLines /\ h[n] = CutUp(text)
    /\ \A k \in 1 .. n : h[k] = LinesStep(h[k - 1], text[k])

\* The fold of CutUp exists.
LEMMA CutRuns ==
    ASSUME NEW text, NEW n \in Nat, DOMAIN text = 1 .. n,
           NEW D, NoLines \in D, \A m \in D, k \in 1 .. n : LinesStep(m, text[k]) \in D
    PROVE  \E h : CutRun(h, text, n)
<1> DEFINE body(m, x) == LinesStep(m, x)
           F(f) == [S \in SUBSET (DOMAIN text) |->
                      IF S = {} THEN NoLines ELSE body(f[S \ {Max(S)}], text[Max(S)])]
           step == [p \in (1 .. n) \X D |-> body(p[2], text[p[1]])]
           iter == CHOOSE f : f = F(f)
           h == [k \in 0 .. n |-> iter[1 .. k]]
<1>1. step \in [(1 .. n) \X D -> D]
    OBVIOUS
<1>2. CutUp(text) = iter[DOMAIN text]
    BY DEF CutUp, FoldLeft, MapThenFoldSet
<1> HIDE DEF body
<1>3. PICK g \in [SUBSET (1 .. n) -> D] : Folds(g, n, NoLines, step)
    <2> HIDE DEF step
    <2> QED BY <1>1, FoldExists
<1>4. g = F(g)
    <2>1. ASSUME NEW S \in SUBSET (1 .. n), S # {}
          PROVE  step[<<Max(S), g[S \ {Max(S)}]>>] = body(g[S \ {Max(S)}], text[Max(S)])
        <3>1. Max(S) \in 1 .. n
            BY <2>1, LastOf
        <3> QED BY <3>1
    <2> HIDE DEF step
    <2> QED BY <1>3, <2>1 DEF Folds
<1>5. iter = F(iter)
    <2> HIDE DEF F
    <2> QED BY <1>4
<1> HIDE DEF iter
<1>6. h[0] = NoLines
    BY <1>5
<1>7. ASSUME NEW k \in 1 .. n PROVE h[k] = body(h[k - 1], text[k])
    <2>1. h[k] = iter[1 .. k] /\ h[k - 1] = iter[1 .. k - 1]
        OBVIOUS
    <2>2. iter[1 .. k] = body(iter[(1 .. k) \ {Max(1 .. k)}], text[Max(1 .. k)])
        BY <1>5, Intervals, ZenonT(40)
    <2> QED BY <2>1, <2>2, Intervals
<1>8. h[n] = iter[1 .. n]
    OBVIOUS
<1> HIDE DEF h
<1> QED BY <1>2, <1>6, <1>7, <1>8 DEF body, CutRun

\* The lines found so far, and the beginning of the next one.
CutStates == [done : Seq(Seq(Int)), piece : Seq(Int)]

\* A character keeps them so.
LEMMA LinesStepStays ==
    ASSUME NEW s \in CutStates, NEW c \in Int
    PROVE  LinesStep(s, c) \in CutStates
<1>1. s.done \in Seq(Seq(Int)) /\ s.piece \in Seq(Int)
    BY DEF CutStates
<1>2. CASE c # Newline
    <2>1. LinesStep(s, c) = [done |-> s.done, piece |-> Append(s.piece, c)]
        BY <1>2 DEF LinesStep, CutStates
    <2> QED BY <1>1, <2>1 DEF CutStates
<1>3. CASE c = Newline
    <2>1. LinesStep(s, c) = [done |-> Append(s.done, s.piece), piece |-> <<>>]
        BY <1>3, Zenon DEF LinesStep
    <2> QED BY <1>1, <2>1 DEF CutStates
<1> QED BY <1>2, <1>3

\* What a text is cut into up to a character.
Cuts(T, n) == CutUp([k \in 1 .. n |-> T[k]])

\* What is found after each character of the first n of T.
CutsRun(h, T, n) ==
    /\ h[0] = NoLines /\ h[n] = Cuts(T, n)
    /\ \A k \in 1 .. n : h[k] = LinesStep(h[k - 1], T[k])

\* It exists.
LEMMA CutsRuns ==
    ASSUME NEW T, NEW n \in Nat, \A k \in 1 .. n : T[k] \in Int
    PROVE  \E h : CutsRun(h, T, n)
<1> DEFINE text == [k \in 1 .. n |-> T[k]]
<1>1. DOMAIN text = 1 .. n /\ \A k \in 1 .. n : text[k] = T[k] /\ text[k] \in Int
    OBVIOUS
<1>2. NoLines \in CutStates
    BY DEF NoLines, CutStates
<1>3. Cuts(T, n) = CutUp(text)
    BY DEF Cuts
<1> HIDE DEF text
<1>4. \A m \in CutStates, k \in 1 .. n : LinesStep(m, text[k]) \in CutStates
    BY <1>1, LinesStepStays
<1>5. PICK h : CutRun(h, text, n)
    BY <1>1, <1>2, <1>4, CutRuns
<1>6. CutsRun(h, T, n)
    BY <1>1, <1>3, <1>5 DEF CutRun, CutsRun
<1> QED BY <1>6

\* All of it are lines and the beginning of one.
LEMMA CutsRunStays ==
    ASSUME NEW T, NEW n \in Nat, \A k \in 1 .. n : T[k] \in Int, NEW h, CutsRun(h, T, n)
    PROVE  \A k \in 0 .. n : h[k] \in CutStates
<1> DEFINE H == {i \in Nat : i <= n => h[i] \in CutStates}
<1>1. 0 \in H
    <2>1. NoLines \in CutStates
        BY DEF NoLines, CutStates
    <2>2. h[0] = NoLines
        BY DEF CutsRun
    <2> QED BY <2>1, <2>2
<1>2. ASSUME NEW i \in Nat, i \in H PROVE i + 1 \in H
    <2> SUFFICES ASSUME i + 1 <= n PROVE h[i + 1] \in CutStates
        OBVIOUS
    <2>1. i + 1 \in 1 .. n /\ i + 1 - 1 = i /\ h[i] \in CutStates /\ T[i + 1] \in Int
        BY <1>2
    <2>2. h[i + 1] = LinesStep(h[i], T[i + 1])
        BY <2>1 DEF CutsRun
    <2> QED BY <2>1, <2>2, LinesStepStays
<1> HIDE DEF H
<1>3. Nat \subseteq H
    BY <1>1, <1>2, Induction
<1> QED BY <1>3 DEF H

\* What was found after m characters is not changed by those that follow.
LEMMA CutsRunSame ==
    ASSUME NEW T, NEW n \in Nat, NEW m \in Nat, m <= n, NEW h, NEW g, CutsRun(h, T, n), CutsRun(g, T, m)
    PROVE  h[m] = Cuts(T, m)
<1> DEFINE H == {i \in Nat : i <= m => h[i] = g[i]}
<1>1. 0 \in H
    BY DEF CutsRun
<1>2. ASSUME NEW i \in Nat, i \in H PROVE i + 1 \in H
    <2> SUFFICES ASSUME i + 1 <= m PROVE h[i + 1] = g[i + 1]
        OBVIOUS
    <2>1. i + 1 \in 1 .. n /\ i + 1 \in 1 .. m /\ i + 1 - 1 = i /\ h[i] = g[i]
        BY <1>2
    <2> QED BY <2>1 DEF CutsRun
<1> HIDE DEF H
<1>3. Nat \subseteq H
    BY <1>1, <1>2, Induction
<1>4. h[m] = g[m]
    BY <1>3 DEF H
<1> QED BY <1>4 DEF CutsRun

\* One character more.
LEMMA CutsNone ==
    ASSUME NEW T
    PROVE  Cuts(T, 0) = NoLines
<1>1. \A k \in 1 .. 0 : T[k] \in Int
    OBVIOUS
<1>2. 0 \in Nat
    OBVIOUS
<1>3. PICK h : CutsRun(h, T, 0)
    BY <1>1, <1>2, CutsRuns
<1> QED BY <1>3 DEF CutsRun

\* What one character more does is LinesStep.
LEMMA CutsMore ==
    ASSUME NEW T, NEW n \in Nat, \A k \in 1 .. n + 1 : T[k] \in Int
    PROVE  Cuts(T, n + 1) = LinesStep(Cuts(T, n), T[n + 1])
<1>1. PICK m \in Nat : m = n + 1 /\ m \in 1 .. m /\ m - 1 = n /\ n <= m
    OBVIOUS
<1>2. (\A k \in 1 .. m : T[k] \in Int) /\ \A k \in 1 .. n : T[k] \in Int
    BY <1>1
<1>3. PICK h : CutsRun(h, T, m)
    BY <1>2, CutsRuns
<1>4. PICK g : CutsRun(g, T, n)
    BY <1>2, CutsRuns
<1>5. h[n] = Cuts(T, n)
    BY <1>1, <1>3, <1>4, CutsRunSame
<1>6. h[m] = Cuts(T, m) /\ h[m] = LinesStep(h[m - 1], T[m])
    BY <1>1, <1>3 DEF CutsRun
<1> QED BY <1>1, <1>5, <1>6

\* After every beginning of a text there are lines and the beginning of one.
LEMMA CutsAreStates ==
    ASSUME NEW T, NEW n \in Nat, \A k \in 1 .. n : T[k] \in Int
    PROVE  Cuts(T, n) \in CutStates
<1>1. PICK h : CutsRun(h, T, n)
    BY CutsRuns
<1>2. h[n] \in CutStates
    BY <1>1, CutsRunStays
<1> QED BY <1>1, <1>2 DEF CutsRun

\* CutUp is what was found after the whole text.
LEMMA CutUpIsCuts ==
    ASSUME NEW T \in Seq(Int)
    PROVE  CutUp(T) = Cuts(T, Len(T))
<1>1. T = [k \in 1 .. Len(T) |-> T[k]]
    OBVIOUS
<1> QED BY <1>1 DEF Cuts

\* Cuts looks at its function only up to n.
LEMMA CutsSame ==
    ASSUME NEW T, NEW U, NEW n \in Nat, \A k \in 1 .. n : T[k] = U[k]
    PROVE  Cuts(T, n) = Cuts(U, n)
<1>1. [k \in 1 .. n |-> T[k]] = [k \in 1 .. n |-> U[k]]
    OBVIOUS
<1> QED BY <1>1 DEF Cuts

\* What was cut so far begins the lines.
Begins(s, L) ==
    /\ Len(s.done) <= Len(L) /\ \A i \in 1 .. Len(s.done) : L[i] = s.done[i]
    /\ s.piece # <<>> =>
          /\ Len(s.done) + 1 <= Len(L) /\ Len(s.piece) <= Len(L[Len(s.done) + 1])
          /\ \A j \in 1 .. Len(s.piece) : L[Len(s.done) + 1][j] = s.piece[j]

\* What begins the lines after a character began them before it, and a
\* newline completes the line that was begun.
LEMMA BeginsBefore ==
    ASSUME NEW s \in CutStates, NEW c \in Int, NEW L \in Seq(Seq(Int)), Begins(LinesStep(s, c), L)
    PROVE  /\ Begins(s, L)
           /\ c = Newline => Len(s.done) + 1 <= Len(L) /\ L[Len(s.done) + 1] = s.piece
<1>1. PICK d \in Seq(Seq(Int)), p \in Seq(Int) : s = [done |-> d, piece |-> p]
    BY DEF CutStates
<1>2. PICK n \in Nat : n = Len(d)
    BY <1>1
<1>3. CASE c # Newline
    <2>1. LinesStep(s, c) = [done |-> d, piece |-> Append(p, c)]
        BY <1>1, <1>3 DEF LinesStep
    <2>2. /\ Append(p, c) # <<>> /\ Len(Append(p, c)) = Len(p) + 1 /\ Len(p) \in Nat
          /\ \A j \in 1 .. Len(p) : Append(p, c)[j] = p[j]
        BY <1>1, AppendProperties
    <2>3. PICK q : q = Append(p, c)
        OBVIOUS
    <2>4. /\ n <= Len(L) /\ \A i \in 1 .. n : L[i] = d[i]
          /\ n + 1 <= Len(L) /\ Len(q) <= Len(L[n + 1])
          /\ \A j \in 1 .. Len(q) : L[n + 1][j] = q[j]
        <3>1. PICK t : t = LinesStep(s, c)
            OBVIOUS
        <3>2. t.done = d /\ t.piece = q /\ q # <<>>
            BY <2>1, <2>2, <2>3, <3>1
        <3>3. Begins(t, L)
            BY <3>1
        <3>4. /\ Len(t.done) <= Len(L) /\ \A i \in 1 .. Len(t.done) : L[i] = t.done[i]
              /\ t.piece # <<>> =>
                    /\ Len(t.done) + 1 <= Len(L) /\ Len(t.piece) <= Len(L[Len(t.done) + 1])
                    /\ \A j \in 1 .. Len(t.piece) : L[Len(t.done) + 1][j] = t.piece[j]
            BY <3>3 DEF Begins
        <3> QED BY <1>2, <3>2, <3>4
    <2>5. PICK l \in Seq(Int) : l = L[n + 1]
        BY <2>4
    <2>6. Len(p) <= Len(l) /\ \A j \in 1 .. Len(p) : l[j] = p[j]
        <3>1. Len(q) = Len(p) + 1 /\ Len(l) \in Nat /\ Len(p) \in Nat
            BY <2>2, <2>3
        <3>2. Len(q) <= Len(l) /\ \A j \in 1 .. Len(q) : l[j] = q[j]
            BY <2>4, <2>5
        <3>3. \A j \in 1 .. Len(p) : j \in 1 .. Len(q) /\ q[j] = p[j]
            BY <2>2, <2>3, <3>1
        <3> QED BY <3>1, <3>2, <3>3
    <2>7. Len(p) <= Len(L[n + 1]) /\ \A j \in 1 .. Len(p) : L[n + 1][j] = p[j]
        BY <2>5, <2>6
    <2> QED BY <1>1, <1>2, <1>3, <2>4, <2>7 DEF Begins
<1>4. CASE c = Newline
    <2>1. LinesStep(s, c) = [done |-> Append(d, p), piece |-> <<>>]
        BY <1>1, <1>4 DEF LinesStep
    <2>2. /\ Len(Append(d, p)) = n + 1
          /\ \A i \in 1 .. n : Append(d, p)[i] = d[i]
          /\ Append(d, p)[n + 1] = p
        BY <1>2, AppendProperties
    <2>3. PICK e : e = Append(d, p)
        OBVIOUS
    <2>4. n + 1 <= Len(L) /\ \A i \in 1 .. n + 1 : L[i] = e[i]
        <3>1. Len(e) <= Len(L) /\ \A i \in 1 .. Len(e) : L[i] = e[i]
            BY <2>1, <2>3 DEF Begins
        <3>2. Len(e) = n + 1
            BY <2>2, <2>3
        <3> QED BY <3>1, <3>2
    <2>5. n <= Len(L) /\ L[n + 1] = p /\ \A i \in 1 .. n : L[i] = d[i]
        <3>1. n + 1 \in 1 .. n + 1 /\ (\A i \in 1 .. n : i \in 1 .. n + 1) /\ Len(L) \in Nat
            BY <1>2
        <3>2. L[n + 1] = e[n + 1] /\ \A i \in 1 .. n : L[i] = e[i]
            BY <2>4, <3>1
        <3>3. e[n + 1] = p /\ \A i \in 1 .. n : e[i] = d[i]
            BY <2>2, <2>3
        <3>4. n <= Len(L)
            BY <2>4, <3>1
        <3> QED BY <3>2, <3>3, <3>4
    <2> QED BY <1>1, <1>2, <2>4, <2>5 DEF Begins
<1> QED BY <1>3, <1>4

\* The lines of a text, with what is behind the last newline.
EndsLines(s) == IF s.piece = <<>> THEN s.done ELSE Append(s.done, s.piece)

\* The lines of a text begin with what was found at its end.
LEMMA EndBegins ==
    ASSUME NEW s \in CutStates
    PROVE  /\ EndsLines(s) \in Seq(Seq(Int)) /\ Begins(s, EndsLines(s))
           /\ Len(EndsLines(s)) = IF s.piece = <<>> THEN Len(s.done) ELSE Len(s.done) + 1
           /\ s.piece # <<>> => EndsLines(s)[Len(s.done) + 1] = s.piece
<1>1. PICK d \in Seq(Seq(Int)), p \in Seq(Int) : s = [done |-> d, piece |-> p]
    BY DEF CutStates
<1>2. CASE p = <<>>
    <2>1. EndsLines(s) = d
        BY <1>1, <1>2 DEF EndsLines
    <2> QED BY <1>1, <1>2, <2>1 DEF Begins
<1>3. CASE p # <<>>
    <2>1. EndsLines(s) = Append(d, p)
        BY <1>1, <1>3 DEF EndsLines
    <2>2. PICK e : e = Append(d, p)
        OBVIOUS
    <2>3. /\ e \in Seq(Seq(Int)) /\ Len(e) = Len(d) + 1
          /\ \A i \in 1 .. Len(d) : e[i] = d[i]
          /\ e[Len(d) + 1] = p
        BY <2>2, AppendProperties
    <2>4. PICK n \in Nat : n = Len(d) /\ n + 1 = Len(e)
        BY <2>3
    <2>5. \A j \in 1 .. Len(p) : e[n + 1][j] = p[j]
        BY <2>3, <2>4
    <2>6. Len(p) <= Len(e[n + 1]) /\ n <= n + 1 /\ n + 1 <= n + 1
        BY <2>3, <2>4
    <2>7. Begins([done |-> d, piece |-> p], e)
        BY <2>3, <2>4, <2>5, <2>6 DEF Begins
    <2> QED BY <1>1, <1>3, <2>1, <2>2, <2>3, <2>7
<1> QED BY <1>2, <1>3

\* The lines of a text are what was found at its end.
LEMMA LinesOfIs ==
    ASSUME NEW T \in Seq(Int)
    PROVE  LinesOf(T) = EndsLines(Cuts(T, Len(T))) /\ LinesOf(T) \in Seq(Seq(Int))
<1>1. LinesOf(T) = EndsLines(Cuts(T, Len(T)))
    BY CutUpIsCuts DEF LinesOf, EndsLines
<1>2. Cuts(T, Len(T)) \in CutStates
    BY CutsAreStates
<1> QED BY <1>1, <1>2, EndBegins

\* What is found on the way are the first of the lines, and a beginning of
\* the next.
LEMMA CutsBegin ==
    ASSUME NEW T \in Seq(Int), NEW k \in 0 .. Len(T)
    PROVE  Begins(Cuts(T, k), LinesOf(T))
<1>1. PICK n \in Nat : n = Len(T)
    OBVIOUS
<1> DEFINE L == LinesOf(T)
           H == {i \in Nat : i <= n => Begins(Cuts(T, n - i), L)}
<1>2. L = EndsLines(Cuts(T, n)) /\ L \in Seq(Seq(Int))
    BY <1>1, LinesOfIs
<1>3. \A i \in 1 .. n : T[i] \in Int
    BY <1>1
<1>4. Begins(Cuts(T, n), L)
    <2>1. Cuts(T, n) \in CutStates
        BY <1>3, CutsAreStates
    <2> QED BY <1>2, <2>1, EndBegins
<1> HIDE DEF L
<1>5. 0 \in H
    BY <1>4
<1>6. ASSUME NEW i \in Nat, i \in H PROVE i + 1 \in H
    <2> SUFFICES ASSUME i + 1 <= n PROVE Begins(Cuts(T, n - (i + 1)), L)
        OBVIOUS
    <2>1. PICK m \in Nat : m = n - (i + 1) /\ m + 1 = n - i /\ \A j \in 1 .. m + 1 : j \in 1 .. n
        <3>1. n - (i + 1) \in Nat /\ n - (i + 1) + 1 = n - i /\ \A j \in 1 .. n - (i + 1) + 1 : j \in 1 .. n
            OBVIOUS
        <3> QED BY <3>1
    <2>2. Begins(Cuts(T, m + 1), L)
        BY <1>6, <2>1
    <2>3. \A j \in 1 .. m + 1 : T[j] \in Int
        BY <1>3, <2>1
    <2>4. Cuts(T, m + 1) = LinesStep(Cuts(T, m), T[m + 1])
        BY <2>3, CutsMore
    <2>5. PICK s \in CutStates : s = Cuts(T, m)
        <3>1. \A j \in 1 .. m : T[j] \in Int
            BY <2>3
        <3> QED BY <3>1, CutsAreStates
    <2>6. PICK c \in Int : c = T[m + 1]
        BY <2>3
    <2>7. Begins(LinesStep(s, c), L)
        BY <2>2, <2>4, <2>5, <2>6
    <2>8. Begins(s, L)
        BY <1>2, <2>7, BeginsBefore
    <2> QED BY <2>1, <2>5, <2>8
<1> HIDE DEF H
<1>7. Nat \subseteq H
    BY <1>5, <1>6, Induction
<1>8. n - k \in H /\ n - (n - k) = k /\ n - k <= n
    BY <1>1, <1>7
<1> QED BY <1>8 DEF H, L

\* A line ends at its newline.
LEMMA LineEnds ==
    ASSUME NEW T \in Seq(Int), NEW k \in Nat, k + 1 <= Len(T), T[k + 1] = Newline
    PROVE  /\ Len(Cuts(T, k).done) + 1 <= Len(LinesOf(T))
           /\ LinesOf(T)[Len(Cuts(T, k).done) + 1] = Cuts(T, k).piece
<1>1. \A j \in 1 .. k + 1 : T[j] \in Int
    OBVIOUS
<1>2. Cuts(T, k + 1) = LinesStep(Cuts(T, k), T[k + 1])
    BY <1>1, CutsMore
<1>3. PICK s \in CutStates : s = Cuts(T, k)
    <2>1. \A j \in 1 .. k : T[j] \in Int
        BY <1>1
    <2> QED BY <2>1, CutsAreStates
<1>4. Begins(Cuts(T, k + 1), LinesOf(T))
    <2>1. k + 1 \in 0 .. Len(T)
        OBVIOUS
    <2> QED BY <2>1, CutsBegin
<1>5. LinesOf(T) \in Seq(Seq(Int))
    BY LinesOfIs
<1>6. Newline \in Int
    BY DEF Newline
<1>7. Begins(LinesStep(s, Newline), LinesOf(T))
    BY <1>2, <1>3, <1>4
<1> QED BY <1>3, <1>5, <1>6, <1>7, BeginsBefore

-----------------------------------------------------------------------------
\* What the calls give to a program.

\* A descriptor that is not one of the table changes nothing.
LEMMA NoSuchDescriptor ==
    ASSUME ReadInv, NEW fd, fd \notin Fds, NEW e, NEW p, NEW g
    PROVE  /\ [inode EXCEPT ![fd] = e] = inode /\ [file_position EXCEPT ![fd] = p] = file_position
           /\ [got EXCEPT ![fd] = g] = got
<1>1. inode = [x \in Fds |-> inode[x]] /\ file_position = [x \in Fds |-> file_position[x]]
    BY DEF ReadInv, PositionInFile
<1>2. got = [x \in Fds |-> got[x]]
    BY DEF ReadInv
<1> QED BY <1>1, <1>2

\* A step that leaves the files alone keeps what is known of reads.
LEMMA StillReads ==
    ASSUME ReadInv, UNCHANGED <<dir_entries, inode, file_position, got>>
    PROVE  ReadInv'
BY DEF ReadInv, PositionInFile, EndPosition, Directory, Beginning, Names

\* open keeps it.
LEMMA OpenKeepsReads ==
    ASSUME ReadInv, NEW name, Open(name)
    PROVE  ReadInv'
<1>1. PositionInFile'
    BY OpenPosition DEF ReadInv
<1> QED BY <1>1, OpenReads

\* close keeps it.
LEMMA CloseKeepsReads ==
    ASSUME ReadInv, NEW fd, Close(fd)
    PROVE  ReadInv'
<1>1. CASE fd \in Fds
    <2>1. PositionInFile'
        BY <1>1, ClosePosition DEF ReadInv
    <2> QED BY <1>1, <2>1, CloseReads
<1>2. CASE fd \notin Fds
    <2>1. UNCHANGED <<dir_entries, inode, file_position, got>>
        BY <1>2, NoSuchDescriptor DEF Close
    <2> QED BY <2>1, StillReads
<1> QED BY <1>1, <1>2

\* read keeps it.
LEMMA ReadKeepsReads ==
    ASSUME ReadInv, NEW fd, NEW n \in Nat, Read(fd, n)
    PROVE  ReadInv'
<1>1. CASE fd \in Fds /\ FileRead(fd, n)
    <2>1. PositionInFile'
        BY <1>1, FileReadPosition DEF ReadInv
    <2> QED BY <1>1, <2>1, FileReadReads
<1>2. CASE fd \in Fds /\ DirRead(fd)
    <2>1. PositionInFile'
        BY <1>2, DirReadPosition DEF ReadInv
    <2> QED BY <1>2, <2>1, DirReadReads
<1>3. CASE fd \notin Fds
    <2>1. /\ UNCHANGED <<dir_entries, inode>>
          /\ \E p : file_position' = [file_position EXCEPT ![fd] = p]
             \/ UNCHANGED file_position
          /\ \E g : got' = [got EXCEPT ![fd] = g]
             \/ UNCHANGED got
        BY DEF Read, FileRead, Delivers, DirRead, Listed
    <2>2. UNCHANGED <<dir_entries, inode, file_position, got>>
        BY <1>3, <2>1, NoSuchDescriptor
    <2> QED BY <2>2, StillReads
<1> QED BY <1>1, <1>2, <1>3 DEF Read

\* What the files promise of the image.
Sound == Distinct(dir_entries) /\ FlatImage(dir_entries) /\ OnDisk(Volume)

\* The entries of the image.
LEMMA EntriesAre ==
    ASSUME ReadInv
    PROVE  /\ Len(dir_entries) \in Nat
           /\ \A f \in 1 .. Len(dir_entries) :
                /\ dir_entries[f].length_in_bytes \in Nat
                /\ dir_entries[f].name \in CStrings /\ Len(dir_entries[f].name) \in 1 .. NameLen
BY FileSystemAssumption DEF ReadInv, PositionInFile

\* The text of a file.
LEMMA TextIs ==
    ASSUME ReadInv, Sound, NEW f \in 1 .. Len(dir_entries)
    PROVE  /\ Text(Volume, f) \in Seq(Int) /\ Len(Text(Volume, f)) = dir_entries[f].length_in_bytes
           /\ \A k \in 1 .. dir_entries[f].length_in_bytes :
                Text(Volume, f)[k] = disk[Content(dir_entries[f])[k]] /\ Text(Volume, f)[k] \in Nat
<1>1. PICK l \in Nat : l = dir_entries[f].length_in_bytes
    BY EntriesAre
<1>2. DOMAIN Content(dir_entries[f]) = 1 .. l
    BY <1>1 DEF Content
<1>3. \A k \in 1 .. l : disk[Content(dir_entries[f])[k]] \in Nat
    BY <1>2 DEF Sound, OnDisk, Volume
<1>4. Text(Volume, f) = [k \in 1 .. l |-> disk[Content(dir_entries[f])[k]]]
    BY <1>2 DEF Text, Volume
<1> QED BY <1>1, <1>3, <1>4

\* open found entry f, and it can be read from its first byte through fd.
OpensAt(name, f, fd) ==
    /\ f \in FileNamed(dir_entries, name) /\ fd \in Fds /\ inode[fd] = 0 /\ LowestFree(fd)
    /\ result' = fd /\ inode' = [inode EXCEPT ![fd] = f]
    /\ file_position' = [file_position EXCEPT ![fd] = 0]

\* open fails: there is no such file or no descriptor for it.
OpenFails(name) ==
    /\ FileNamed(dir_entries, name) = {} \/ \A fd \in Fds : inode[fd] # 0
    /\ result' = -1 /\ UNCHANGED <<inode, file_position>>

\* open finds the file of a name, or there is none or no descriptor for it.
LEMMA OpenGives ==
    ASSUME ReadInv, NEW name \in CStrings, Open(name)
    PROVE  /\ UNCHANGED dir_entries
           /\ OpenFails(name) \/ \E f \in FileNamed(dir_entries, name), fd \in Fds : OpensAt(name, f, fd)
<1>1. UNCHANGED dir_entries /\ PositionInFile
    BY DEF Open, ReadInv
<1>2. ASSUME NEW f \in 1 .. Len(dir_entries), NEW fd \in Fds, Opens(name, f, fd),
             /\ inode' = [inode EXCEPT ![fd] = f]
             /\ file_position' = [file_position EXCEPT ![fd] = 0]
             /\ result' = fd
      PROVE  \E g \in FileNamed(dir_entries, name), h \in Fds : OpensAt(name, g, h)
    <2>1. Names[f] = name /\ inode[fd] = 0
        BY <1>1, <1>2, OpensNamed
    <2>2. dir_entries[f].name = name
        BY <2>1, EntriesAre DEF Names
    <2>3. f \in FileNamed(dir_entries, name)
        BY <2>2 DEF FileNamed
    <2>4. OpensAt(name, f, fd)
        <3>1. LowestFree(fd)
            BY <1>2 DEF Opens
        <3> QED BY <1>2, <2>1, <2>3, <3>1 DEF OpensAt
    <2> QED BY <2>3, <2>4
<1>3. ASSUME ~ \E f \in 1 .. Len(dir_entries), fd \in Fds : Opens(name, f, fd),
             result' = -1, UNCHANGED <<inode, file_position, got>>
      PROVE  OpenFails(name)
    <2>1. ~There(name)
        <3>1. ASSUME There(name) PROVE FALSE
            <4>1. result' \in Fds
                BY <1>1, <3>1, OpensWhatIsThere DEF Opened
            <4> QED BY <1>3, <4>1, FileSystemAssumption DEF Fds
        <3> QED BY <3>1
    <2>2. FileNamed(dir_entries, name) = {} \/ \A fd \in Fds : inode[fd] # 0
        <3>1. ASSUME NEW f \in FileNamed(dir_entries, name) PROVE \E g \in 1 .. Len(dir_entries) : Names[g] = name
            BY EntriesAre DEF FileNamed, Names
        <3> QED BY <2>1, <3>1 DEF There
    <2> QED BY <1>3, <2>2 DEF OpenFails
<1> QED BY <1>1, <1>2, <1>3 DEF Open

\* The file of a name is the only one.
LEMMA TheFileIs ==
    ASSUME Sound, NEW name, NEW f \in FileNamed(dir_entries, name)
    PROVE  TheFile(Volume, name) = f
<1>1. \A g \in FileNamed(dir_entries, name) : g = f
    BY DEF Sound, Distinct, FileNamed
<1>2. TheFile(Volume, name) \in FileNamed(dir_entries, name)
    BY DEF TheFile, Volume
<1> QED BY <1>1, <1>2

\* read returned r: the next bytes of the text T from p, as many as were
\* asked for or are left.
ReadsText(fd, n, T, p, r) ==
    /\ p = file_position[fd] /\ result' = r /\ p + r <= Len(T) /\ r <= n
    /\ r = n \/ p + r = Len(T)
    /\ Fresh(fd) = SubSeq(T, p + 1, p + r)
    /\ file_position' = [file_position EXCEPT ![fd] = p + r]
    /\ UNCHANGED <<dir_entries, inode>>

\* read of a file.
LEMMA ReadGivesText ==
    ASSUME ReadInv, Sound, NEW fd \in Fds, NEW n \in Nat, Read(fd, n), Regular(fd)
    PROVE  \E p \in Nat, r \in Nat : ReadsText(fd, n, Text(Volume, inode[fd]), p, r)
<1>0. Delivers(fd, n)
    BY DEF Read, FileRead, Unsigned, DirRead, Regular, Directory
<1>1. PICK e \in 1 .. Len(dir_entries) :
        e = inode[fd] /\ e # 0 /\ dir_entries[e].file_type = "file"
    <2>1. inode[fd] \in 1 .. Len(dir_entries)
        BY FileSystemAssumption DEF Regular, ReadInv, PositionInFile
    <2> QED BY <2>1 DEF Regular
<1>2. PICK l \in Nat : l = dir_entries[e].length_in_bytes
    BY EntriesAre
<1>3. PICK p \in 0 .. l : p = file_position[fd]
    BY <1>1, <1>2 DEF ReadInv, PositionInFile, EndPosition, Directory
<1>4. PICK r \in Nat : /\ r = LengthCopied(dir_entries[e], p, n)
                       /\ p + r <= l /\ r <= n /\ (r = n \/ p + r = l)
    BY <1>2, <1>3, SMTT(30) DEF LengthCopied
<1>5. /\ result' = r
      /\ file_position' = [file_position EXCEPT ![fd] = p + r]
      /\ UNCHANGED <<inode, dir_entries>>
    BY <1>0, <1>1, <1>3, <1>4 DEF Delivers, ReadInv, PositionInFile
<1>6. PICK T \in Seq(Int) : /\ T = Text(Volume, e) /\ Len(T) = l
                            /\ \A k \in 1 .. l : T[k] = disk[Content(dir_entries[e])[k]]
    BY <1>2, TextIs
<1>7. got[fd] = SubSeq(Content(dir_entries[e]), 1, p)
    BY <1>1, <1>3 DEF ReadInv, Beginning
<1>8. got'[fd] = SubSeq(Content(dir_entries[e]), 1, p + r)
    <2>1. ReadInv'
        BY ReadKeepsReads
    <2>2. file_position'[fd] = p + r
        BY <1>5 DEF ReadInv, PositionInFile
    <2>3. got'[fd] = Beginning(inode[fd], file_position[fd])'
        BY <2>1 DEF ReadInv
    <2> QED BY <1>1, <1>5, <2>2, <2>3 DEF Beginning
<1>9. PICK c : c = Content(dir_entries[e]) /\ c = [k \in 1 .. l |-> c[k]]
    BY <1>2 DEF Content
<1>10. \A m \in 0 .. l : SubSeq(c, 1, m) = [k \in 1 .. m |-> c[k]]
    <2>1. c \in Seq({c[k] : k \in 1 .. l}) /\ Len(c) = l
        BY <1>9
    <2> QED BY <2>1
<1>11. Fresh(fd) = SubSeq(T, p + 1, p + r)
    <2>1. ~Directory(fd)
        BY <1>1 DEF Directory
    <2>2. CASE r = 0
        <3>1. Fresh(fd) = <<>>
            BY <1>5, <2>2 DEF Fresh
        <3>2. SubSeq(T, p + 1, p + r) = <<>>
            BY <2>2
        <3> QED BY <3>1, <3>2
    <2>3. CASE r # 0
        <3>1. Fresh(fd) = [k \in 1 .. r |-> disk[got'[fd][Len(got[fd]) + k]]]
            BY <1>5, <2>1, <2>3 DEF Fresh
        <3>2. p + r \in 0 .. l
            BY <1>3, <1>4
        <3>3. got[fd] = [k \in 1 .. p |-> c[k]] /\ got'[fd] = [k \in 1 .. p + r |-> c[k]]
            BY <1>7, <1>8, <1>9, <1>10, <3>2
        <3>4. Len(got[fd]) = p
            BY <3>3
        <3>5. \A k \in 1 .. r : got'[fd][p + k] = c[p + k] /\ p + k \in 1 .. l
            BY <1>3, <1>4, <3>3
        <3>6. Fresh(fd) = [k \in 1 .. r |-> T[p + k]]
            <4>1. \A k \in 1 .. r : disk[got'[fd][Len(got[fd]) + k]] = T[p + k]
                <5>1. \A k \in 1 .. r : T[p + k] = disk[c[p + k]]
                    BY <1>6, <1>9, <3>5
                <5> QED BY <3>4, <3>5, <5>1
            <4> QED BY <3>1, <4>1
        <3>7. SubSeq(T, p + 1, p + r) = [k \in 1 .. r |-> T[p + k]]
            <4>1. /\ SubSeq(T, p + 1, p + r) \in Seq(Int) /\ Len(SubSeq(T, p + 1, p + r)) = r
                  /\ \A k \in 1 .. r : SubSeq(T, p + 1, p + r)[k] = T[p + k]
                <5>1. \A k \in p + 1 .. p + r : T[k] \in Int
                    BY <1>3, <1>4, <1>6
                <5>2. p + 1 \in Int /\ p + r \in Int
                    BY <1>3
                <5>3. /\ SubSeq(T, p + 1, p + r) \in Seq(Int)
                      /\ Len(SubSeq(T, p + 1, p + r)) = IF p + 1 <= p + r THEN p + r - (p + 1) + 1 ELSE 0
                      /\ \A k \in 1 .. p + r - (p + 1) + 1 : SubSeq(T, p + 1, p + r)[k] = T[p + 1 + k - 1]
                    BY <5>1, <5>2, SubSeqProperties, SMTT(30)
                <5>4. p + r - (p + 1) + 1 = r /\ \A k \in 1 .. r : p + 1 + k - 1 = p + k
                    BY <1>3
                <5> QED BY <2>3, <5>3, <5>4
            <4> QED BY <4>1
        <3> QED BY <3>6, <3>7
    <2> QED BY <2>2, <2>3
<1>12. ReadsText(fd, n, Text(Volume, inode[fd]), p, r) /\ p \in Nat
    BY <1>1, <1>3, <1>4, <1>5, <1>6, <1>11 DEF ReadsText
<1> QED BY <1>12

\* read returned the name of the entry after the first p, or nothing behind
\* the last.
ReadsName(fd, p) ==
    /\ p = file_position[fd] /\ UNCHANGED <<dir_entries, inode>>
    /\ \/ /\ p + 1 \in 1 .. Len(dir_entries) /\ result' # 0
          /\ Fresh(fd) = dir_entries[p + 1].name
          /\ file_position' = [file_position EXCEPT ![fd] = p + 1]
       \/ /\ p = Len(dir_entries) /\ result' = 0 /\ Fresh(fd) = <<>>
          /\ file_position' = [file_position EXCEPT ![fd] = 0]

\* read of a directory.
LEMMA ReadGivesName ==
    ASSUME ReadInv, NEW fd \in Fds, NEW n \in Nat, Read(fd, n), Directory(fd)
    PROVE  \E p \in Nat : ReadsName(fd, p)
<1>0. DirRead(fd)
    BY DEF Read, FileRead, Delivers, Regular, Directory
<1>1. PICK e \in 0 .. Len(dir_entries) :
        e = inode[fd] /\ e # 0 /\ dir_entries[e].file_type = "directory"
    BY DEF Directory, ReadInv, PositionInFile
<1>2. PICK l \in Nat : l = Len(dir_entries)
    BY EntriesAre
<1>3. PICK p \in 0 .. l : p = file_position[fd]
    BY <1>1, <1>2 DEF ReadInv, PositionInFile, EndPosition, Directory
<1>4. UNCHANGED <<dir_entries, inode>>
    BY <1>0 DEF DirRead
<1>5. CASE Listed(fd)
    <2>1. /\ p < l /\ result' = Len(dir_entries[p + 1].name)
          /\ got' = [got EXCEPT ![fd] = Append(got[fd], dir_entries[p + 1].name)]
          /\ file_position' = [file_position EXCEPT ![fd] = p + 1]
        BY <1>2, <1>3, <1>5 DEF Listed, ReadInv, PositionInFile
    <2>2. p + 1 \in 1 .. l
        BY <2>1
    <2>3. result' # 0
        BY <1>2, <2>1, <2>2, EntriesAre
    <2>4. got'[fd] = Append(got[fd], dir_entries[p + 1].name)
        BY <2>1 DEF ReadInv
    <2>5. Fresh(fd) = got'[fd][Len(got'[fd])]
        <3>1. Directory(fd)
            OBVIOUS
        <3> QED BY <2>3, <3>1 DEF Fresh
    <2>6. got[fd] \in Seq(CStrings)
        <3>1. got[fd] = SubSeq(Names, 1, p)
            BY <1>1, <1>3 DEF ReadInv, Beginning
        <3>2. Names \in Seq(CStrings) /\ Len(Names) = l
            BY <1>2, NamesInOrder DEF ReadInv
        <3> QED BY <3>1, <3>2
    <2>7. dir_entries[p + 1].name \in CStrings
        BY <1>2, <2>2, EntriesAre
    <2>8. Fresh(fd) = dir_entries[p + 1].name
        <3>1. PICK s \in Seq(CStrings), x \in CStrings : s = got[fd] /\ x = dir_entries[p + 1].name
            BY <2>6, <2>7
        <3>2. Append(s, x)[Len(Append(s, x))] = x
            <4>1. Len(Append(s, x)) = Len(s) + 1 /\ Append(s, x)[Len(s) + 1] = x
                BY <3>1, AppendProperties
            <4> QED BY <4>1
        <3>3. got'[fd] = Append(s, x)
            BY <2>4, <3>1
        <3> QED BY <2>5, <3>1, <3>2, <3>3
    <2>9. p + 1 \in 1 .. Len(dir_entries) /\ p \in Nat
        BY <1>2, <1>3, <2>2
    <2>10. ReadsName(fd, p)
        BY <1>3, <1>4, <2>1, <2>3, <2>8, <2>9, Zenon DEF ReadsName
    <2> QED BY <2>9, <2>10
<1>6. CASE ~Listed(fd)
    <2>1. p >= l /\ file_position' = [file_position EXCEPT ![fd] = 0] /\ result' = 0
        BY <1>0, <1>2, <1>3, <1>6 DEF DirRead
    <2>2. Fresh(fd) = <<>>
        BY <2>1 DEF Fresh
    <2> QED BY <1>2, <1>3, <1>4, <2>1, <2>2 DEF ReadsName
<1> QED BY <1>5, <1>6

\* What a read is of.
LEMMA ReadOfWhat ==
    ASSUME ReadInv, NEW fd \in Fds, NEW n, Read(fd, n)
    PROVE  /\ inode[fd] \in 1 .. Len(dir_entries)
           /\ \/ Regular(fd) /\ inode[fd] \in TextFiles(Volume)
              \/ Directory(fd) /\ inode[fd] \notin TextFiles(Volume)
<1>1. Regular(fd) \/ Directory(fd)
    BY DEF Read, FileRead, Delivers, DirRead
<1>2. inode[fd] \in 1 .. Len(dir_entries)
    BY <1>1, EntriesAre DEF Regular, Directory, ReadInv, PositionInFile
<1> QED BY <1>1, <1>2 DEF Regular, Directory, TextFiles, Volume

-----------------------------------------------------------------------------
\* cat and ls.

\* A program at its start.
Started == pc = "main" /\ out = <<>> /\ inode = [fd \in Fds |-> 0] /\ args \in CStrings

\* What every program leaves alone.
LEMMA KeepsVolume ==
    ASSUME Keeps, UNCHANGED disk
    PROVE  UNCHANGED <<Volume, args, dir_entries>>
BY DEF Keeps, Volume

\* The names of the image, in its order.
NamesOf(v) == [f \in 1 .. Len(v.image) |-> v.image[f].name]

\* They are those of the entries.
LEMMA NamesOfIs ==
    ASSUME ReadInv
    PROVE  /\ Len(Volume.image) = Len(dir_entries)
           /\ \A f \in 1 .. Len(dir_entries) :
                /\ NamesOf(Volume)[f] = dir_entries[f].name /\ NamesOf(Volume)[f] \in Seq(Nat)
                /\ NamesOf(Volume)[f] # <<>>
<1>1. \A f \in 1 .. Len(dir_entries) : NamesOf(Volume)[f] = dir_entries[f].name
    BY DEF NamesOf, Volume
<1>2. \A f \in 1 .. Len(dir_entries) : dir_entries[f].name \in Seq(Nat) /\ dir_entries[f].name # <<>>
    BY EntriesAre DEF CStrings
<1> QED BY <1>1, <1>2 DEF Volume

\* What cat printed of an entry.
CatOut(v, e, p) == IF e \in TextFiles(v) THEN SubSeq(Text(v, e), 1, p) ELSE Flat(NamesOf(v), p)

\* cat has printed its file as far as it has read it.
CatInv ==
    \/ Started
    \/ /\ pc = "read" /\ local.fd \in Fds
       /\ args # <<>> /\ ~(Len(args) > BufSize)
       /\ inode[local.fd] \in FileNamed(dir_entries, args)
       /\ out = CatOut(Volume, inode[local.fd], file_position[local.fd])
    \/ pc = "exit" /\ out = CatPrints(Volume, args)

\* There is a descriptor.
LEMMA SomeDescriptor == Fds # {} /\ \A fd \in Fds : fd \in Nat
<1>1. LastFd \in Nat /\ LastFd >= 3
    BY FileSystemAssumption, UserProgramsAssumption
<1> QED BY <1>1 DEF Fds

\* The beginning of nothing.
LEMMA CatOutNone ==
    ASSUME NEW v, NEW e
    PROVE  CatOut(v, e, 0) = <<>>
<1>1. Flat(NamesOf(v), 0) = <<>>
    BY FlatNone
<1>2. SubSeq(Text(v, e), 1, 0) = <<>>
    BY SubSeqEmpty
<1> QED BY <1>1, <1>2 DEF CatOut

\* It opens the file and has printed nothing, or fails.
LEMMA CatMain ==
    ASSUME ReadInv, Sound, Started, Cat, At("cat", "main")
    PROVE  CatInv'
<1>1. UNCHANGED <<Volume, args, dir_entries>>
    BY CatGoes, KeepsVolume DEF Goes
<1>2. out = <<>> /\ inode = [fd \in Fds |-> 0] /\ args \in CStrings
    BY DEF Started
<1>3. CASE GetargsFails(BufSize) /\ Say(<<CouldNotReadArguments>>) /\ Return(3)
    <2>1. pc' = "exit" /\ out' = <<CouldNotReadArguments>>
        BY <1>2, <1>3 DEF Say, Return, Go
    <2>2. CatPrints(Volume, args) = <<CouldNotReadArguments>>
        BY <1>3 DEF CatPrints, GetargsFails
    <2>3. CatPrints(Volume, args)' = CatPrints(Volume, args)
        BY <1>1
    <2> QED BY <2>1, <2>2, <2>3 DEF CatInv
<1>4. CASE ~GetargsFails(BufSize) /\ Open(args) /\ IF result' = -1 THEN Say(<<FileNotFound>>) /\ Return(2)
                                    ELSE Say(<<>>) /\ Go("read", [fd |-> result'])
    <2>1. args # <<>> /\ ~(Len(args) > BufSize)
        BY <1>4 DEF GetargsFails
    <2>2. OpenFails(args) \/ \E f \in FileNamed(dir_entries, args), fd \in Fds : OpensAt(args, f, fd)
        BY <1>2, <1>4, OpenGives
    <2>3. CASE OpenFails(args)
        <3>1. FileNamed(dir_entries, args) = {}
            BY <1>2, <2>3, SomeDescriptor DEF OpenFails
        <3>2. pc' = "exit" /\ out' = <<FileNotFound>>
            BY <1>2, <1>4, <2>3 DEF OpenFails, Say, Return, Go
        <3>3. CatPrints(Volume, args) = <<FileNotFound>>
            BY <2>1, <3>1 DEF CatPrints, Volume
        <3>4. CatPrints(Volume, args)' = CatPrints(Volume, args)
            BY <1>1
        <3> QED BY <3>2, <3>3, <3>4 DEF CatInv
    <2>4. ASSUME NEW f \in FileNamed(dir_entries, args), NEW fd \in Fds, OpensAt(args, f, fd) PROVE CatInv'
        <3>1. result' = fd /\ fd # -1
            BY <2>4, SomeDescriptor DEF OpensAt
        <3>2. pc' = "read" /\ local' = [fd |-> fd] /\ out' = <<>>
            BY <1>2, <1>4, <3>1 DEF Say, Go
        <3>3. inode'[fd] = f /\ file_position'[fd] = 0
            BY <2>4 DEF OpensAt, ReadInv, PositionInFile
        <3>4. CatOut(Volume', f, 0) = <<>>
            BY CatOutNone
        <3>5. local'.fd = fd
            BY <3>2
        <3> QED BY <1>1, <2>1, <3>2, <3>3, <3>4, <3>5 DEF CatInv
    <2> QED BY <2>2, <2>3, <2>4
<1> QED BY <1>3, <1>4 DEF Cat, At

\* It prints what it reads, and ends where the file ends.
LEMMA CatRead ==
    ASSUME ReadInv, Sound, CatInv, Cat, At("cat", "read")
    PROVE  CatInv'
<1>1. UNCHANGED <<Volume, args, dir_entries>>
    BY CatGoes, KeepsVolume DEF Goes
<1>2. PICK fd \in Fds : /\ fd = local.fd
                        /\ args # <<>> /\ ~(Len(args) > BufSize)
                        /\ inode[fd] \in FileNamed(dir_entries, args)
                        /\ out = CatOut(Volume, inode[fd], file_position[fd])
    BY DEF CatInv, Started, At
<1>3. /\ Read(fd, BufSize) /\ out' = out \o Fresh(fd)
      /\ IF result' = 0 THEN Return(0) ELSE Stay
    BY <1>2 DEF Cat, At, Say
<1>4. BufSize \in Nat \ {0}
    BY UserProgramsAssumption
<1>5. PICK e : e = inode[fd]
    OBVIOUS
<1>6. TheFile(Volume, args) = e /\ FileNamed(Volume.image, args) # {}
    BY <1>2, <1>5, TheFileIs DEF Volume
<1>7. CatPrints(Volume, args) = IF e \in TextFiles(Volume) THEN Text(Volume, e)
                                ELSE Flat(NamesOf(Volume), Len(Volume.image))
    <2>1. CatPrints(Volume, args) = IF e \in TextFiles(Volume) THEN Text(Volume, e)
              ELSE FlattenSeq([f \in 1 .. Len(Volume.image) |-> Volume.image[f].name])
        BY <1>2, <1>6 DEF CatPrints
    <2>2. Flat(NamesOf(Volume), Len(Volume.image)) = FlattenSeq([f \in 1 .. Len(Volume.image) |-> Volume.image[f].name])
        BY DEF Flat, NamesOf
    <2> QED BY <2>1, <2>2
<1>8. e \in 1 .. Len(dir_entries)
    BY <1>3, <1>4, <1>5, ReadOfWhat
<1>9. ASSUME result' # 0, inode'[fd] = e, out' = CatOut(Volume, e, file_position'[fd]) PROVE CatInv'
    <2>1. pc' = "read" /\ local'.fd = fd
        BY <1>2, <1>3, <1>9 DEF Stay, At
    <2>2. CatOut(Volume, inode[local.fd], file_position[local.fd])' = CatOut(Volume, e, file_position'[fd])
        BY <1>1, <1>9, <2>1
    <2> QED BY <1>1, <1>2, <1>5, <1>9, <2>1, <2>2 DEF CatInv
<1>10. ASSUME result' = 0, out' = CatPrints(Volume, args) PROVE CatInv'
    <2>1. pc' = "exit"
        BY <1>3, <1>10 DEF Return, Go
    <2>2. CatPrints(Volume, args)' = CatPrints(Volume, args)
        BY <1>1
    <2> QED BY <1>10, <2>1, <2>2 DEF CatInv
<1>11. CASE Regular(fd) /\ e \in TextFiles(Volume)
    <2>1. PICK T \in Seq(Int) : T = Text(Volume, e)
        BY <1>8, TextIs
    <2>2. PICK p \in Nat, r \in Nat : ReadsText(fd, BufSize, T, p, r)
        <3>1. \E p \in Nat, r \in Nat : ReadsText(fd, BufSize, Text(Volume, inode[fd]), p, r)
            BY <1>3, <1>4, <1>11, ReadGivesText
        <3> QED BY <1>5, <2>1, <3>1
    <2>3. out = SubSeq(T, 1, p)
        BY <1>2, <1>5, <1>11, <2>1, <2>2 DEF CatOut, ReadsText
    <2>4. /\ result' = r /\ p + r <= Len(T) /\ (r = BufSize \/ p + r = Len(T))
          /\ out' = SubSeq(T, 1, p) \o SubSeq(T, p + 1, p + r)
        BY <1>3, <2>2, <2>3 DEF ReadsText
    <2>5. inode'[fd] = e /\ file_position'[fd] = p + r
        BY <1>5, <2>2 DEF ReadsText, ReadInv, PositionInFile
    <2>6. out' = SubSeq(T, 1, p + r)
        <3>1. 1 \in 1 .. Len(T) + 1 /\ p \in 1 - 1 .. Len(T) /\ p + r \in p .. Len(T)
            BY <2>1, <2>4
        <3>2. SubSeq(T, 1, p) \o SubSeq(T, p + 1, p + r) = SubSeq(T, 1, p + r)
            BY <2>1, <3>1, ConcatAdjacentSubSeq
        <3> QED BY <2>4, <3>2
    <2>7. CASE r # 0
        BY <1>9, <1>11, <2>1, <2>4, <2>5, <2>6, <2>7 DEF CatOut
    <2>8. CASE r = 0
        <3>1. p + r = Len(T)
            BY <1>4, <2>4, <2>8
        <3>2. SubSeq(T, 1, Len(T)) = T
            BY <2>1, SubSeqFull
        <3>3. out' = CatPrints(Volume, args)
            BY <1>7, <1>11, <2>1, <2>6, <3>1, <3>2
        <3> QED BY <1>10, <2>4, <2>8, <3>3
    <2> QED BY <2>7, <2>8
<1>12. CASE Directory(fd) /\ e \notin TextFiles(Volume)
    <2>1. PICK p \in Nat : ReadsName(fd, p)
        BY <1>3, <1>4, <1>12, ReadGivesName
    <2>2. out = Flat(NamesOf(Volume), p) /\ p \in 0 .. Len(dir_entries)
        <3>1. p = file_position[fd]
            BY <2>1 DEF ReadsName
        <3>2. out = Flat(NamesOf(Volume), p)
            BY <1>2, <1>5, <1>12, <3>1 DEF CatOut
        <3>3. p + 1 \in 1 .. Len(dir_entries) \/ p = Len(dir_entries)
            BY <2>1 DEF ReadsName
        <3> QED BY <3>2, <3>3, EntriesAre
    <2>3. inode'[fd] = e
        BY <1>5, <2>1 DEF ReadsName
    <2>4. CASE result' # 0
        <3>1. /\ p + 1 \in 1 .. Len(dir_entries) /\ Fresh(fd) = dir_entries[p + 1].name
              /\ file_position' = [file_position EXCEPT ![fd] = p + 1]
            BY <2>1, <2>4 DEF ReadsName
        <3>2. file_position'[fd] = p + 1
            BY <3>1 DEF ReadInv, PositionInFile
        <3>3. NamesOf(Volume)[p + 1] \in Seq(Nat) /\ NamesOf(Volume)[p + 1] = Fresh(fd)
            BY <3>1, NamesOfIs
        <3>4. Flat(NamesOf(Volume), p + 1) = Flat(NamesOf(Volume), p) \o NamesOf(Volume)[p + 1]
            BY <3>3, FlatMore
        <3>5. out' = CatOut(Volume, e, p + 1)
            BY <1>3, <1>12, <2>2, <3>3, <3>4 DEF CatOut
        <3> QED BY <1>9, <2>3, <2>4, <3>2, <3>5
    <2>5. CASE result' = 0
        <3>1. p = Len(dir_entries) /\ Fresh(fd) = <<>>
            BY <2>1, <2>5 DEF ReadsName
        <3>2. Flat(NamesOf(Volume), p) \in Seq(Nat)
            BY <3>1, NamesOfIs, FlatIsSeq
        <3>3. out' = out \o <<>>
            BY <1>3, <3>1
        <3>4. out' = Flat(NamesOf(Volume), Len(Volume.image))
            BY <2>2, <3>1, <3>2, <3>3, NamesOfIs, ConcatEmptySeq
        <3> QED BY <1>7, <1>10, <1>12, <2>5, <3>4
    <2> QED BY <2>4, <2>5
<1> QED BY <1>3, <1>4, <1>5, <1>11, <1>12, ReadOfWhat

\* Every step of cat.
LEMMA CatStep ==
    ASSUME ReadInv, Sound, CatInv, Cat
    PROVE  CatInv'
<1>1. At("cat", "main") \/ At("cat", "read")
    BY DEF Cat
<1>2. CASE At("cat", "main")
    <2>1. Started
        BY <1>2 DEF At, CatInv
    <2> QED BY <1>2, <2>1, CatMain
<1> QED BY <1>1, <1>2, CatRead

\* When cat exits it has printed its file.
LEMMA CatEnds ==
    ASSUME CatInv
    PROVE  pc # "fault" /\ (pc = "exit" => out = CatPrints(Volume, args))
BY DEF CatInv, Started

-----------------------------------------------------------------------------

\* The lines that ls prints.
LsLines(v) == [f \in 1 .. Len(v.image) |-> Append(v.image[f].name, Newline)]

\* ls has printed the names that it has read, each on a line.
LsInv ==
    \/ Started
    \/ /\ pc = "read" /\ local.fd \in Fds
       /\ inode[local.fd] \in FileNamed(dir_entries, Dot)
       /\ out = Flat(LsLines(Volume), file_position[local.fd])
    \/ pc = "exit" /\ out = LsPrints(Volume)

\* Each is a name and a newline.
LEMMA LsLinesAre ==
    ASSUME ReadInv
    PROVE  \A f \in 1 .. Len(dir_entries) :
              /\ LsLines(Volume)[f] = Append(dir_entries[f].name, Newline)
              /\ LsLines(Volume)[f] \in Seq(Nat)
<1>1. \A f \in 1 .. Len(dir_entries) : LsLines(Volume)[f] = Append(dir_entries[f].name, Newline)
    BY DEF LsLines, Volume
<1>2. \A f \in 1 .. Len(dir_entries) : dir_entries[f].name \in Seq(Nat)
    BY EntriesAre DEF CStrings
<1>3. \A f \in 1 .. Len(dir_entries) : Append(dir_entries[f].name, Newline) \in Seq(Nat)
    BY <1>2 DEF Newline
<1> QED BY <1>1, <1>3

\* It opens the directory and has printed nothing.
LEMMA LsMain ==
    ASSUME ReadInv, Sound, Started, Ls, At("ls", "main")
    PROVE  LsInv'
<1>1. UNCHANGED <<Volume, args, dir_entries>>
    BY LsGoes, KeepsVolume DEF Goes
<1>2. out = <<>> /\ inode = [fd \in Fds |-> 0]
    BY DEF Started
<1>3. Open(Dot) /\ IF result' = -1 THEN Say(<<DirectoryOpenFailed>>) /\ Return(2)
                          ELSE UNCHANGED out /\ Go("read", [fd |-> result'])
    BY DEF Ls, At
<1>4. OpenFails(Dot) \/ \E f \in FileNamed(dir_entries, Dot), fd \in Fds : OpensAt(Dot, f, fd)
    <2>1. Dot \in CStrings
        BY DEF Dot, CStrings
    <2> QED BY <1>3, <2>1, OpenGives
<1>5. CASE OpenFails(Dot)
    <2>1. FileNamed(dir_entries, Dot) = {}
        BY <1>2, <1>5, SomeDescriptor DEF OpenFails
    <2>2. pc' = "exit" /\ out' = <<DirectoryOpenFailed>>
        BY <1>2, <1>3, <1>5 DEF OpenFails, Say, Return, Go
    <2>3. LsPrints(Volume) = <<DirectoryOpenFailed>>
        BY <2>1 DEF LsPrints, Volume
    <2>4. LsPrints(Volume)' = LsPrints(Volume)
        BY <1>1
    <2> QED BY <2>2, <2>3, <2>4 DEF LsInv
<1>6. ASSUME NEW f \in FileNamed(dir_entries, Dot), NEW fd \in Fds, OpensAt(Dot, f, fd) PROVE LsInv'
    <2>1. result' = fd /\ fd # -1
        BY <1>6, SomeDescriptor DEF OpensAt
    <2>2. pc' = "read" /\ local' = [fd |-> fd] /\ out' = <<>>
        BY <1>2, <1>3, <2>1 DEF Say, Go
    <2>3. inode'[fd] = f /\ file_position'[fd] = 0
        BY <1>6 DEF OpensAt, ReadInv, PositionInFile
    <2>4. Flat(LsLines(Volume'), 0) = <<>>
        BY FlatNone
    <2>5. local'.fd = fd
        BY <2>2
    <2> QED BY <1>1, <2>2, <2>3, <2>4, <2>5 DEF LsInv
<1> QED BY <1>4, <1>5, <1>6

\* It prints the name it reads, and ends behind the last.
LEMMA LsRead ==
    ASSUME ReadInv, Sound, LsInv, Ls, At("ls", "read")
    PROVE  LsInv'
<1>1. UNCHANGED <<Volume, args, dir_entries>>
    BY LsGoes, KeepsVolume DEF Goes
<1>2. PICK fd \in Fds : /\ fd = local.fd
                        /\ inode[fd] \in FileNamed(dir_entries, Dot)
                        /\ out = Flat(LsLines(Volume), file_position[fd])
    BY DEF LsInv, Started, At
<1>3. /\ Read(fd, NameLen)
      /\ IF result' = 0 THEN UNCHANGED out /\ Return(0)
                        ELSE out' = out \o Append(Fresh(fd), Newline) /\ Stay
    BY <1>2 DEF Ls, At, Say
<1>4. NameLen \in Nat
    BY FileSystemAssumption
<1>5. Directory(fd)
    <2>1. inode[fd] \in 1 .. Len(dir_entries)
        BY <1>3, <1>4, ReadOfWhat
    <2>2. dir_entries[inode[fd]].file_type = "directory"
        BY <1>2, <2>1 DEF FileNamed, Sound, FlatImage
    <2> QED BY <2>1, <2>2, EntriesAre DEF Directory
<1>6. PICK p \in Nat : ReadsName(fd, p)
    BY <1>3, <1>4, <1>5, ReadGivesName
<1>7. p = file_position[fd] /\ inode' = inode
    BY <1>6 DEF ReadsName
<1>8. CASE result' # 0
    <2>1. /\ p + 1 \in 1 .. Len(dir_entries) /\ Fresh(fd) = dir_entries[p + 1].name
          /\ file_position' = [file_position EXCEPT ![fd] = p + 1]
        BY <1>6, <1>8 DEF ReadsName
    <2>2. file_position'[fd] = p + 1
        BY <2>1 DEF ReadInv, PositionInFile
    <2>3. LsLines(Volume)[p + 1] \in Seq(Nat) /\ LsLines(Volume)[p + 1] = Append(Fresh(fd), Newline)
        BY <2>1, LsLinesAre
    <2>4. Flat(LsLines(Volume), p + 1) = Flat(LsLines(Volume), p) \o LsLines(Volume)[p + 1]
        BY <2>3, FlatMore
    <2>5. out' = Flat(LsLines(Volume), p + 1)
        BY <1>2, <1>3, <1>7, <1>8, <2>3, <2>4
    <2>6. pc' = "read" /\ local'.fd = fd
        BY <1>2, <1>3, <1>8 DEF Stay, At
    <2> QED BY <1>1, <1>2, <1>7, <2>2, <2>5, <2>6 DEF LsInv
<1>9. CASE result' = 0
    <2>1. p = Len(dir_entries)
        BY <1>6, <1>9 DEF ReadsName
    <2>2. pc' = "exit" /\ out' = out
        BY <1>3, <1>9 DEF Return, Go
    <2>3. LsPrints(Volume) = Flat(LsLines(Volume), Len(Volume.image))
        <3>1. FileNamed(Volume.image, Dot) # {}
            BY <1>2 DEF Volume
        <3> QED BY <3>1 DEF LsPrints, Flat, LsLines
    <2>4. LsPrints(Volume)' = LsPrints(Volume) /\ Len(Volume.image) = p
        BY <1>1, <2>1 DEF Volume
    <2> QED BY <1>2, <1>7, <2>2, <2>3, <2>4 DEF LsInv
<1> QED BY <1>8, <1>9

\* Every step of ls.
LEMMA LsStep ==
    ASSUME ReadInv, Sound, LsInv, Ls
    PROVE  LsInv'
<1>1. At("ls", "main") \/ At("ls", "read")
    BY DEF Ls
<1>2. CASE At("ls", "main")
    <2>1. Started
        BY <1>2 DEF At, LsInv
    <2> QED BY <1>2, <2>1, LsMain
<1> QED BY <1>1, <1>2, LsRead

\* When ls exits it has printed every name.
LEMMA LsEnds ==
    ASSUME LsInv
    PROVE  pc # "fault" /\ (pc = "exit" => out = LsPrints(Volume))
BY DEF LsInv, Started

-----------------------------------------------------------------------------
\* pingpong, counter and syserr.

\* A number, its place in a round of 152 frames, and the letter of the round.
Round(n, p, l) ==
    \E q \in Nat : n = 152 * q + p /\ p \in 0 .. 151 /\ \E d \in Nat : q = 26 * d + l /\ l \in 0 .. 25

\* The place and the letter are what the frame divides into.
LEMMA RoundIs ==
    ASSUME NEW n \in Nat, NEW p, NEW l, Round(n, p, l)
    PROVE  p = n % 152 /\ l = (n \div 152) % 26
<1>1. PICK q \in Nat : n = 152 * q + p /\ p \in 0 .. 151 /\ \E d \in Nat : q = 26 * d + l /\ l \in 0 .. 25
    BY DEF Round
<1>2. n \div 152 = q /\ n % 152 = p
    BY <1>1
<1>3. q % 26 = l
    BY <1>1
<1> QED BY <1>2, <1>3

\* The place and the letter of the next frame.
NextPlace(p) == IF p = 151 THEN 0 ELSE p + 1
NextLetter(p, l) == IF p = 151 THEN (IF l = 25 THEN 0 ELSE l + 1) ELSE l

\* The next frame has the next place, and a letter more when the round is
\* complete.
LEMMA RoundGoesOn ==
    ASSUME NEW n \in Nat, NEW p \in Nat, NEW l \in Nat, Round(n, p, l)
    PROVE  Round(n + 1, NextPlace(p), NextLetter(p, l))
<1>1. PICK q \in Nat, d \in Nat : n = 152 * q + p /\ p \in 0 .. 151 /\ q = 26 * d + l /\ l \in 0 .. 25
    BY DEF Round
<1>2. CASE p # 151
    BY <1>1, <1>2 DEF Round, NextPlace, NextLetter
<1>3. CASE p = 151 /\ l # 25
    <2>1. q + 1 \in Nat /\ n + 1 = 152 * (q + 1) /\ q + 1 = 26 * d + (l + 1) /\ l + 1 \in 0 .. 25
        BY <1>1, <1>3
    <2>2. NextPlace(p) = 0 /\ NextLetter(p, l) = l + 1
        BY <1>3 DEF NextPlace, NextLetter
    <2>3. PICK q2 \in Nat : q2 = q + 1
        BY <1>1
    <2>6. PICK l2 \in Nat : l2 = l + 1
        BY <1>1
    <2>7. n + 1 = 152 * q2 + 0 /\ q2 = 26 * d + l2 /\ l2 \in 0 .. 25
        BY <2>1, <2>3, <2>6
    <2>4. 0 \in 0 .. 151 /\ d \in Nat
        BY <1>1
    <2>8. \E d2 \in Nat : q2 = 26 * d2 + l2 /\ l2 \in 0 .. 25
        BY <2>4, <2>7, Zenon
    <2>5. Round(n + 1, 0, l2)
        BY <2>3, <2>4, <2>7, <2>8, Zenon DEF Round
    <2> QED BY <2>2, <2>6, <2>5
<1>4. CASE p = 151 /\ l = 25
    <2>1. q + 1 \in Nat /\ d + 1 \in Nat /\ n + 1 = 152 * (q + 1) /\ q + 1 = 26 * (d + 1)
        BY <1>1, <1>4
    <2>2. NextPlace(p) = 0 /\ NextLetter(p, l) = 0
        BY <1>4 DEF NextPlace, NextLetter
    <2>3. PICK q2 \in Nat, d2 \in Nat, n2 \in Nat : /\ q2 = q + 1 /\ d2 = d + 1 /\ n2 = n + 1
                                               /\ n2 = 152 * q2 + 0 /\ q2 = 26 * d2 + 0
        BY <1>1, <2>1
    <2>4. 0 \in 0 .. 151 /\ 0 \in 0 .. 25
        OBVIOUS
    <2>5. Round(n2, 0, 0)
        BY <2>3, <2>4, ZenonT(40) DEF Round
    <2> QED BY <2>2, <2>3, <2>5
<1> QED BY <1>2, <1>3, <1>4

\* The frame of a number from 1 on, and the variables before the frame that
\* follows it.
PongFrame(k) ==
    LET p == (k - 1) % 152 IN
    [column |-> IF p < 76 THEN LoopStart + p ELSE LoopMax + 75 - p,
     char |-> 65 + (((k - 1) \div 152) % 26)]

\* The variables of pingpong.
PongLocal(p, l) ==
    [j |-> IF p < 76 THEN 2 + p ELSE 153 - p, back |-> IF p < 76 THEN FALSE ELSE TRUE, curchar |-> 65 + l]

\* pingpong has printed its frames so far.
PongInv ==
    \/ Started
    \/ /\ pc = "frame" /\ Len(out) \in 0 .. Frames /\ out = [k \in 1 .. Len(out) |-> PongFrame(k)]
       /\ \E p \in Nat, l \in Nat : Round(Len(out), p, l) /\ local = PongLocal(p, l)
    \/ pc = "exit" /\ out = PingpongPrints

\* It begins at the first place with the first letter.
LEMMA PongMain ==
    ASSUME Started, Pingpong, At("pingpong", "main")
    PROVE  PongInv'
<1>1. out' = <<>> /\ pc' = "frame" /\ local' = [j |-> LoopStart, back |-> FALSE, curchar |-> 65]
    BY DEF Started, Pingpong, At, Go
<1>2. Len(out') = 0 /\ Frames \in Nat
    BY <1>1, UserProgramsAssumption
<1>3. Round(0, 0, 0)
    BY DEF Round
<1>4. local' = PongLocal(0, 0)
    BY <1>1 DEF PongLocal, LoopStart
<1>5. out' = [k \in 1 .. 0 |-> PongFrame(k)]
    BY <1>1
<1>6. \E p \in Nat, l \in Nat : Round(Len(out'), p, l) /\ local' = PongLocal(p, l)
    BY <1>2, <1>3, <1>4
<1>7. Len(out') \in 0 .. Frames
    BY <1>2
<1>8. out' = [k \in 1 .. Len(out') |-> PongFrame(k)]
    BY <1>2, <1>5
<1> QED BY <1>1, <1>6, <1>7, <1>8 DEF PongInv

\* How a frame changes them.
PongNext(v) ==
    CASE ~v.back /\ v.j + 1 < LoopMax -> [v EXCEPT !.j = @ + 1]
      [] ~v.back /\ v.j + 1 >= LoopMax -> [v EXCEPT !.back = TRUE]
      [] v.back /\ v.j > LoopStart -> [v EXCEPT !.j = @ - 1]
      [] OTHER -> [v EXCEPT !.back = FALSE, !.curchar = IF @ = 90 THEN 65 ELSE @ + 1]

\* To those of the next place.
LEMMA PongLocalNext ==
    ASSUME NEW p \in 0 .. 151, NEW l \in 0 .. 25
    PROVE  PongNext(PongLocal(p, l)) = PongLocal(NextPlace(p), NextLetter(p, l))
<1>1. PICK v : v = PongLocal(p, l)
    OBVIOUS
<1>2. /\ v = [j |-> v.j, back |-> v.back, curchar |-> v.curchar] /\ v.curchar = 65 + l
      /\ v.j = IF p < 76 THEN 2 + p ELSE 153 - p
      /\ v.back = IF p < 76 THEN FALSE ELSE TRUE
    BY <1>1 DEF PongLocal
<1>3. CASE p < 75
    <2>1. v.back = FALSE /\ v.j + 1 < LoopMax /\ v.j = 2 + p
        BY <1>2, <1>3 DEF LoopMax
    <2>2. PongNext(v) = [v EXCEPT !.j = @ + 1]
        <3>1. ~v.back /\ (v.j + 1 < LoopMax) = TRUE
            BY <2>1
        <3>2. ~(v.j + 1 >= LoopMax)
            BY <2>1 DEF LoopMax
        <3> QED BY <3>1, <3>2 DEF PongNext
    <2>3. PongNext(v) = [j |-> 2 + (p + 1), back |-> v.back, curchar |-> v.curchar]
        <3>1. v.j + 1 = 2 + (p + 1)
            BY <2>1
        <3> QED BY <1>2, <2>2, <3>1
    <2>4. NextPlace(p) = p + 1 /\ NextLetter(p, l) = l /\ v.back = FALSE /\ p + 1 < 76
        BY <1>2, <1>3 DEF NextPlace, NextLetter
    <2> QED BY <1>1, <1>2, <2>3, <2>4 DEF PongLocal
<1>4. CASE p = 75
    <2>1. v.back = FALSE /\ v.j + 1 >= LoopMax /\ v.j = 77
        BY <1>2, <1>4 DEF LoopMax
    <2>2. PongNext(v) = [v EXCEPT !.back = TRUE]
        BY <2>1 DEF PongNext, LoopMax
    <2>3. PongNext(v) = [j |-> 77, back |-> TRUE, curchar |-> 65 + l]
        BY <1>2, <2>1, <2>2
    <2>4. NextPlace(p) = 76 /\ NextLetter(p, l) = l
        BY <1>4 DEF NextPlace, NextLetter
    <2>5. PongLocal(76, l) = [j |-> 77, back |-> TRUE, curchar |-> 65 + l]
        BY DEF PongLocal
    <2> QED BY <1>1, <2>3, <2>4, <2>5
<1>5. CASE p \in 76 .. 150
    <2>1. v.back = TRUE /\ v.j > LoopStart /\ v.j = 153 - p
        BY <1>2, <1>5 DEF LoopStart
    <2>2. PongNext(v) = [v EXCEPT !.j = @ - 1]
        BY <2>1 DEF PongNext
    <2>3. PongNext(v) = [j |-> 153 - (p + 1), back |-> v.back, curchar |-> v.curchar]
        <3>1. v.j - 1 = 153 - (p + 1)
            BY <2>1
        <3> QED BY <1>2, <2>2, <3>1, ZenonT(40)
    <2>4. NextPlace(p) = p + 1 /\ NextLetter(p, l) = l /\ v.back = TRUE /\ ~(p + 1 < 76)
        BY <1>2, <1>5 DEF NextPlace, NextLetter
    <2> QED BY <1>1, <1>2, <2>3, <2>4, ZenonT(40) DEF PongLocal
<1>6. CASE p = 151
    <2>1. v.back = TRUE /\ ~(v.j > LoopStart) /\ v.j = 2
        BY <1>2, <1>6 DEF LoopStart
    <2>2. PongNext(v) = [v EXCEPT !.back = FALSE, !.curchar = IF @ = 90 THEN 65 ELSE @ + 1]
        BY <2>1 DEF PongNext
    <2>3. PongNext(v) = [j |-> 2, back |-> FALSE, curchar |-> IF v.curchar = 90 THEN 65 ELSE v.curchar + 1]
        BY <1>2, <2>1, <2>2
    <2>4. NextPlace(p) = 0 /\ (IF v.curchar = 90 THEN 65 ELSE v.curchar + 1) = 65 + NextLetter(p, l)
        BY <1>2, <1>6 DEF NextPlace, NextLetter
    <2>5. PongLocal(0, NextLetter(p, l)) = [j |-> 2, back |-> FALSE, curchar |-> 65 + NextLetter(p, l)]
        BY DEF PongLocal
    <2> QED BY <1>1, <2>3, <2>4, <2>5
<1> QED BY <1>3, <1>4, <1>5, <1>6

\* It prints the frame of its place and letter.
LEMMA PongFrames ==
    ASSUME PongInv, Pingpong, At("pingpong", "frame")
    PROVE  PongInv'
<1>1. /\ pc = "frame" /\ Len(out) \in 0 .. Frames /\ out = [k \in 1 .. Len(out) |-> PongFrame(k)]
      /\ \E p \in Nat, l \in Nat : Round(Len(out), p, l) /\ local = PongLocal(p, l)
    BY DEF PongInv, Started, At
<1>2. PICK p \in Nat, l \in Nat : Round(Len(out), p, l) /\ local = PongLocal(p, l)
    BY <1>1
<1>3. Frames \in Nat
    BY UserProgramsAssumption
<1>4. PICK n \in Nat : n = Len(out) /\ n <= Frames
    <2>1. Len(out) \in Nat /\ Len(out) <= Frames
        BY <1>1, <1>3
    <2> QED BY <2>1
<1>5. CASE Len(out) = Frames /\ UNCHANGED out /\ Return(0)
    <2>1. pc' = "exit" /\ out' = [k \in 1 .. Frames |-> PongFrame(k)]
        BY <1>1, <1>5 DEF Return, Go
    <2> QED BY <2>1 DEF PongInv, PingpongPrints, PongFrame
<1>6. CASE /\ Len(out) < Frames /\ Say(<<[column |-> local.j, char |-> local.curchar]>>)
           /\ pc' = pc /\ local' = PongNext(local)
    <2>1. p \in 0 .. 151 /\ l \in 0 .. 25
        BY <1>2 DEF Round
    <2>2. p = n % 152 /\ l = (n \div 152) % 26
        BY <1>2, <1>4, RoundIs
    <2>3. PongFrame(n + 1) = [column |-> local.j, char |-> local.curchar]
        <3>1. (n + 1) - 1 = n
            OBVIOUS
        <3>2. PongFrame(n + 1) = [column |-> IF p < 76 THEN LoopStart + p ELSE LoopMax + 75 - p, char |-> 65 + l]
            BY <2>2, <3>1 DEF PongFrame
        <3>3. local.j = (IF p < 76 THEN LoopStart + p ELSE LoopMax + 75 - p) /\ local.curchar = 65 + l
            BY <1>2, <2>1 DEF PongLocal, LoopStart, LoopMax
        <3> QED BY <3>2, <3>3
    <2>4. PICK x : x = [column |-> local.j, char |-> local.curchar]
        OBVIOUS
    <2>5. PICK f : f = [k \in 1 .. n + 1 |-> PongFrame(k)]
        OBVIOUS
    <2>6. out' = f
        <3>1. \A k \in 1 .. n + 1 : f[k] = PongFrame(k)
            BY <2>5
        <3>2. f \in Seq({f[k] : k \in 1 .. n + 1}) /\ Len(f) = n + 1
            BY <2>5
        <3>3. out \in Seq({f[k] : k \in 1 .. n + 1}) /\ \A k \in 1 .. n : out[k] = f[k]
            <4>1. out = [k \in 1 .. n |-> PongFrame(k)]
                BY <1>1, <1>4
            <4>2. \A k \in 1 .. n : out[k] = f[k]
                BY <3>1, <4>1
            <4> QED BY <4>1, <4>2
        <3>4. out' = out \o <<x>> /\ f[n + 1] = x
            BY <1>6, <2>3, <2>4, <3>1 DEF Say
        <3>5. Len(out') = n + 1 /\ \A k \in 1 .. n + 1 : out'[k] = f[k]
            <4>1. Len(out') = n + 1 /\ out'[n + 1] = x /\ \A k \in 1 .. n : out'[k] = out[k]
                BY <1>4, <3>3, <3>4
            <4> QED BY <3>3, <3>4, <4>1
        <3>6. out' \in Seq({f[k] : k \in 1 .. n + 1})
            <4>1. x \in {f[k] : k \in 1 .. n + 1}
                BY <3>4
            <4> QED BY <3>3, <3>4, <4>1
        <3> QED BY <3>2, <3>5, <3>6, SeqEqual
    <2>7. Len(out') = n + 1 /\ n + 1 \in 0 .. Frames
        BY <1>3, <1>4, <1>6, <2>5, <2>6
    <2>8. Round(n + 1, NextPlace(p), NextLetter(p, l))
        BY <1>2, <1>4, RoundGoesOn
    <2>9. local' = PongLocal(NextPlace(p), NextLetter(p, l))
        BY <1>2, <1>6, <2>1, PongLocalNext
    <2>10. NextPlace(p) \in Nat /\ NextLetter(p, l) \in Nat
        BY DEF NextPlace, NextLetter
    <2>11. out' = [k \in 1 .. Len(out') |-> PongFrame(k)]
        BY <2>5, <2>6, <2>7
    <2>12. \E p2 \in Nat, l2 \in Nat : Round(Len(out'), p2, l2) /\ local' = PongLocal(p2, l2)
        BY <2>7, <2>8, <2>9, <2>10
    <2>13. pc' = "frame" /\ Len(out') \in 0 .. Frames
        BY <1>1, <1>6, <2>7
    <2> QED BY <2>11, <2>12, <2>13 DEF PongInv
<1>7. \/ Len(out) = Frames /\ UNCHANGED out /\ Return(0)
      \/ /\ Len(out) < Frames /\ Say(<<[column |-> local.j, char |-> local.curchar]>>)
         /\ pc' = pc /\ local' = PongNext(local)
    BY <1>1, Zenon DEF Pingpong, PongNext, At
<1> QED BY <1>5, <1>6, <1>7

\* Every step of pingpong.
LEMMA PongStep ==
    ASSUME PongInv, Pingpong
    PROVE  PongInv'
<1>1. At("pingpong", "main") \/ At("pingpong", "frame")
    BY DEF Pingpong
<1>2. CASE At("pingpong", "main")
    <2>1. Started
        BY <1>2 DEF At, PongInv
    <2> QED BY <1>2, <2>1, PongMain
<1> QED BY <1>1, <1>2, PongFrames

\* pingpong does not exit before its frames are printed.
LEMMA PongEnds ==
    ASSUME PongInv
    PROVE  pc # "fault" /\ (pc = "exit" => out = PingpongPrints)
BY DEF PongInv, Started

-----------------------------------------------------------------------------
\* counter.

\* A line with its newline is a sequence of numbers.
LEMMA LineOfNumbers ==
    ASSUME NEW w \in Seq(Int)
    PROVE  Append(w, Newline) \in Seq(Int)
<1>1. Newline \in Int
    BY DEF Newline
<1> QED BY <1>1

\* A text that ends with a newline, and one more line.
LEMMA CutMore ==
    ASSUME NEW text \in Seq(Int), NEW w \in Seq(Int), \A k \in 1 .. Len(w) : w[k] # Newline,
           NEW d \in Seq(Seq(Int)), CutUp(text) = [done |-> d, piece |-> <<>>]
    PROVE  CutUp(text \o Append(w, Newline)) = [done |-> Append(d, w), piece |-> <<>>]
<1>1. PICK n \in Nat, m \in Nat : n = Len(text) /\ m = Len(w)
    OBVIOUS
<1>2. PICK T \in Seq(Int) : T = text \o Append(w, Newline)
    <2>1. PICK y \in Seq(Int) : y = Append(w, Newline)
        BY LineOfNumbers
    <2>2. text \o y \in Seq(Int)
        OBVIOUS
    <2> QED BY <2>1, <2>2
<1>3. /\ Len(T) = n + m + 1 /\ \A k \in 1 .. n : T[k] = text[k]
      /\ \A k \in 1 .. m : T[n + k] = w[k]
      /\ T[n + m + 1] = Newline
    BY <1>1, <1>2 DEF Newline
<1>4. \A k \in 1 .. n + m + 1 : T[k] \in Int
    BY <1>3
<1>5. Cuts(T, n) = [done |-> d, piece |-> <<>>]
    <2>1. Cuts(T, n) = Cuts(text, n)
        BY <1>3, CutsSame
    <2> QED BY <1>1, <2>1, CutUpIsCuts
<1> DEFINE H == {k \in Nat : k <= m => Cuts(T, n + k) = [done |-> d, piece |-> SubSeq(w, 1, k)]}
<1>6. 0 \in H
    <2>1. SubSeq(w, 1, 0) = <<>> /\ n + 0 = n
        BY SubSeqEmpty
    <2> QED BY <1>5, <2>1
<1>7. ASSUME NEW k \in Nat, k \in H PROVE k + 1 \in H
    <2>1. SUFFICES ASSUME k + 1 <= m PROVE Cuts(T, n + (k + 1)) = [done |-> d, piece |-> SubSeq(w, 1, k + 1)]
        OBVIOUS
    <2>2. PICK e \in Nat : e = n + k
        OBVIOUS
    <2>3. Cuts(T, e) = [done |-> d, piece |-> SubSeq(w, 1, k)]
        BY <1>7, <2>1, <2>2
    <2>4. \A i \in 1 .. e + 1 : T[i] \in Int
        BY <1>4, <2>1, <2>2
    <2>5. Cuts(T, e + 1) = LinesStep(Cuts(T, e), T[e + 1])
        BY <2>4, CutsMore
    <2>6. T[e + 1] = w[k + 1] /\ w[k + 1] # Newline
        <3>1. k + 1 \in 1 .. m /\ e + 1 = n + (k + 1)
            BY <2>1, <2>2
        <3> QED BY <1>1, <1>3, <3>1
    <2>7. LinesStep(Cuts(T, e), T[e + 1]) = [done |-> d, piece |-> Append(SubSeq(w, 1, k), w[k + 1])]
        <3>1. PICK c, v : c = T[e + 1] /\ v = SubSeq(w, 1, k)
            OBVIOUS
        <3>2. LinesStep([done |-> d, piece |-> v], c) = [[done |-> d, piece |-> v] EXCEPT !.piece = Append(@, c)]
            BY <2>6, <3>1 DEF LinesStep
        <3>3. [[done |-> d, piece |-> v] EXCEPT !.piece = Append(@, c)] = [done |-> d, piece |-> Append(v, c)]
            <4>1. PICK y : y = Append(v, c)
                OBVIOUS
            <4>2. [[done |-> d, piece |-> v] EXCEPT !.piece = y] = [done |-> d, piece |-> y]
                OBVIOUS
            <4>3. [[done |-> d, piece |-> v] EXCEPT !.piece = Append(@, c)] = [[done |-> d, piece |-> v] EXCEPT !.piece = y]
                BY <4>1
            <4> QED BY <4>1, <4>2, <4>3
        <3> QED BY <2>3, <2>6, <3>1, <3>2, <3>3
    <2>8. Append(SubSeq(w, 1, k), w[k + 1]) = SubSeq(w, 1, k + 1)
        BY <1>1, <2>1
    <2>9. e + 1 = n + (k + 1)
        BY <2>2
    <2> QED BY <2>5, <2>7, <2>8, <2>9
<1>8. Cuts(T, n + m) = [done |-> d, piece |-> w]
    <2> HIDE DEF H
    <2>1. Nat \subseteq H
        BY <1>6, <1>7, Induction DEF H
    <2>2. m \in H
        BY <2>1
    <2>3. SubSeq(w, 1, m) = w
        BY <1>1, SubSeqFull
    <2> QED BY <2>2, <2>3 DEF H
<1>9. Cuts(T, (n + m) + 1) = LinesStep(Cuts(T, n + m), T[(n + m) + 1])
    <2>1. PICK e \in Nat : e = n + m
        OBVIOUS
    <2>2. \A i \in 1 .. e + 1 : T[i] \in Int
        BY <1>4, <2>1
    <2>3. Cuts(T, e + 1) = LinesStep(Cuts(T, e), T[e + 1])
        BY <2>2, CutsMore
    <2> QED BY <2>1, <2>3
<1>10. LinesStep(Cuts(T, n + m), T[(n + m) + 1]) = [done |-> Append(d, w), piece |-> <<>>]
    <2>1. T[(n + m) + 1] = Newline
        BY <1>3
    <2>2. LinesStep([done |-> d, piece |-> w], Newline) = [done |-> Append(d, w), piece |-> <<>>]
        BY DEF LinesStep
    <2> QED BY <1>8, <2>1, <2>2
<1>11. CutUp(T) = Cuts(T, Len(T))
    BY CutUpIsCuts
<1> QED BY <1>2, <1>3, <1>9, <1>10, <1>11

\* No digit is a newline.
LEMMA DigitsOnOneLine ==
    ASSUME NEW v \in Nat
    PROVE  /\ Itoa(v, 10) \in Seq(Int) /\ IsNumeral(Itoa(v, 10), v, 10)
           /\ \A k \in 1 .. Len(Itoa(v, 10)) : Itoa(v, 10)[k] # Newline /\ Itoa(v, 10)[k] < 1000
<1>1. PICK r \in Nat : r = 10 /\ Radix(r)
    BY DEF Radix
<1>2. Itoa(v, r) \in Seq(Int) /\ IsNumeral(Itoa(v, r), v, r)
    BY <1>1, ItoaIsText
<1>3. PICK p \in Nat : p = Places(v, r)
    BY <1>1, PlacesAre
<1>4. Itoa(v, r) = DigitsOf(v, r, p)
    BY <1>1, <1>3, ItoaIs
<1>5. ASSUME NEW k \in 1 .. p PROVE DigitsOf(v, r, p)[k] # Newline /\ DigitsOf(v, r, p)[k] < 1000
    <2>1. p - k \in Nat
        OBVIOUS
    <2>2. PICK x \in Int : x = Left(v, r)[p - k]
        <3>1. Left(v, r) \in [Nat -> Nat]
            BY <1>1, LeftIs
        <3> QED BY <2>1, <3>1
    <2>3. PICK y \in Nat : y = x % r /\ y < 10
        BY <1>1, <2>2
    <2>4. DigitsOf(v, r, p)[k] = Lookup(y)
        BY <2>2, <2>3 DEF DigitsOf
    <2> QED BY <2>3, <2>4 DEF Lookup, Newline
<1>6. Len(DigitsOf(v, r, p)) = p
    BY <1>1, DigitsAreNumbers
<1> QED BY <1>1, <1>2, <1>4, <1>5, <1>6

\* Counting on.
LEMMA CountedMore ==
    ASSUME NEW text \in Seq(Int), NEW i \in Nat, Counted(text, i), NEW w \in Seq(Int),
           \A k \in 1 .. Len(w) : w[k] # Newline, IsNumeral(w, i + 1, 10)
    PROVE  Counted(text \o Append(w, Newline), i + 1)
<1>1. PICK s \in CutStates : s = CutUp(text)
    <2>1. CutUp(text) = Cuts(text, Len(text))
        BY CutUpIsCuts
    <2>2. \A k \in 1 .. Len(text) : text[k] \in Int
        OBVIOUS
    <2>3. Cuts(text, Len(text)) \in CutStates
        BY <2>2, CutsAreStates
    <2> QED BY <2>1, <2>3
<1>2. PICK d \in Seq(Seq(Int)) : d = s.done
    BY DEF CutStates
<1>3. CutUp(text) = [done |-> d, piece |-> <<>>] /\ Len(d) = i /\ \A n \in 1 .. i : IsNumeral(d[n], n, 10)
    BY <1>1, <1>2 DEF Counted, CutStates
<1>4. PICK T : T = text \o Append(w, Newline)
    OBVIOUS
<1>5. CutUp(T) = [done |-> Append(d, w), piece |-> <<>>]
    BY <1>3, <1>4, CutMore
<1>6. Len(Append(d, w)) = i + 1 /\ Append(d, w)[i + 1] = w /\ \A n \in 1 .. i : Append(d, w)[n] = d[n]
    BY <1>3
<1>7. ASSUME NEW n \in 1 .. i + 1 PROVE IsNumeral(Append(d, w)[n], n, 10)
    <2>1. CASE n = i + 1
        BY <1>6, <2>1
    <2>2. CASE n \in 1 .. i
        BY <1>3, <1>6, <2>2
    <2>3. n = i + 1 \/ n \in 1 .. i
        OBVIOUS
    <2> QED BY <2>1, <2>2, <2>3
<1> QED BY <1>4, <1>5, <1>6, <1>7 DEF Counted

\* Nothing was counted in no text.
LEMMA CountedNone == Counted(<<>>, 0)
<1>1. PICK T \in Seq(Int) : T = <<>> /\ Len(T) = 0
    <2>1. <<>> \in Seq(Int) /\ Len(<<>>) = 0
        OBVIOUS
    <2> QED BY <2>1
<1>2. CutUp(T) = NoLines
    BY <1>1, CutUpIsCuts, CutsNone
<1>3. CutUp(<<>>).piece = <<>> /\ CutUp(<<>>).done = <<>>
    BY <1>1, <1>2 DEF NoLines
<1> QED BY <1>3 DEF Counted

\* What counter printed when it ends.
CounterSays(o) ==
    Len(o) > 1 /\ o[2] # WrongChoice => \E max \in ToSet(TestMax) : Counted(Tail(o), max)

\* What counter has printed before number i of max.
CountedSoFar(o, i, max) ==
    \E text \in Seq(Int) : /\ o = <<EnterNumber>> \o text /\ Counted(text, i)
                           /\ max \in ToSet(TestMax) \/ (max = 0 /\ text = <<>>)

\* counter has printed the numbers before the one it is at.
CounterInv ==
    \/ Started
    \/ /\ pc = "count" /\ local.i \in Nat /\ local.max \in Nat /\ local.i <= local.max
       /\ local = [i |-> local.i, max |-> local.max]
       /\ CountedSoFar(out, local.i, local.max)
    \/ pc = "exit" /\ CounterSays(out)

\* It begins with the first number.
LEMMA CounterMain ==
    ASSUME Started, Counter, At("counter", "main")
    PROVE  CounterInv'
<1>1. out = <<>>
    BY DEF Started
<1>2. CASE Say(<<EnterNumber, WrongChoice>>) /\ Return(0)
    <2>1. out' = <<EnterNumber, WrongChoice>> /\ pc' = "exit"
        BY <1>1, <1>2 DEF Say, Return, Go
    <2> QED BY <2>1 DEF CounterInv, CounterSays
<1>3. CASE /\ Say(<<EnterNumber>>)
           /\ Go("count", [i |-> 0, max |-> IF Line[1] \in 48 .. 50 THEN TestMax[Line[1] - 47] ELSE 0])
    <2>1. out' = <<EnterNumber>> /\ pc' = "count"
        BY <1>1, <1>3 DEF Say, Go
    <2>2. PICK m \in Nat : /\ local' = [i |-> 0, max |-> m]
                           /\ m \in ToSet(TestMax) \/ m = 0
        <3>1. ASSUME NEW c \in 48 .. 50 PROVE TestMax[c - 47] \in Nat /\ TestMax[c - 47] \in ToSet(TestMax)
            <4>1. TestMax \in Seq(Nat) /\ Len(TestMax) = 3
                BY UserProgramsAssumption
            <4>2. PICK n \in 1 .. 3 : n = c - 47
                OBVIOUS
            <4>3. n \in DOMAIN TestMax
                BY <4>1
            <4>4. TestMax[n] \in ToSet(TestMax)
                BY <4>3 DEF ToSet
            <4>5. TestMax[n] \in Nat
                <5>1. n \in 1 .. Len(TestMax)
                    BY <4>1, <4>2
                <5> QED BY <4>1, <5>1, ElementOfSeq
            <4> QED BY <4>2, <4>4, <4>5
        <3>2. CASE Line[1] \in 48 .. 50
            BY <1>3, <3>1, <3>2 DEF Go
        <3>3. CASE Line[1] \notin 48 .. 50
            <4>1. local' = [i |-> 0, max |-> 0]
                BY <1>3, <3>3 DEF Go
            <4> QED BY <4>1
        <3> QED BY <3>2, <3>3
    <2>3. CountedSoFar(out', 0, m)
        <3>1. PICK t \in Seq(Int) : t = <<>>
            <4>1. <<>> \in Seq(Int)
                OBVIOUS
            <4> QED BY <4>1
        <3>2. <<EnterNumber>> \o t = <<EnterNumber>>
            BY <3>1
        <3>3. Counted(t, 0)
            BY <3>1, CountedNone
        <3> QED BY <2>1, <2>2, <3>1, <3>2, <3>3 DEF CountedSoFar
    <2>4. local'.i = 0 /\ local'.max = m
        BY <2>2
    <2> QED BY <2>1, <2>2, <2>3, <2>4 DEF CounterInv
<1> QED BY <1>2, <1>3 DEF Counter, At

\* It prints a number in decimal, and goes on to the next.
LEMMA CounterCounts ==
    ASSUME CounterInv, Counter, At("counter", "count")
    PROVE  CounterInv'
<1>1. PICK i \in Nat, m \in Nat : /\ local = [i |-> i, max |-> m] /\ i <= m /\ CountedSoFar(out, i, m)
    BY DEF CounterInv, Started, At
<1>2. local.i = i /\ local.max = m
    BY <1>1
<1>3. PICK text \in Seq(Int) : /\ out = <<EnterNumber>> \o text /\ Counted(text, i)
                               /\ m \in ToSet(TestMax) \/ (m = 0 /\ text = <<>>)
    BY <1>1 DEF CountedSoFar
<1>4. CASE i < m
    <2>1. out' = out \o Append(ece391_itoa(i + 1), Newline) /\ Go("count", [local EXCEPT !.i = @ + 1])
        BY <1>2, <1>4 DEF Counter, At, Say
    <2>2. PICK n \in Nat : n = i + 1
        OBVIOUS
    <2>3. PICK w \in Seq(Int) : /\ w = Itoa(n, 10) /\ IsNumeral(w, n, 10)
                                /\ \A k \in 1 .. Len(w) : w[k] # Newline
        <3>1. PICK x : x = Itoa(n, 10)
            OBVIOUS
        <3>2. /\ Itoa(n, 10) \in Seq(Int) /\ IsNumeral(Itoa(n, 10), n, 10)
              /\ \A k \in 1 .. Len(Itoa(n, 10)) : Itoa(n, 10)[k] # Newline /\ Itoa(n, 10)[k] < 1000
            BY DigitsOnOneLine, ZenonT(40)
        <3>3. x \in Seq(Int) /\ IsNumeral(x, n, 10)
            BY <3>1, <3>2, ZenonT(40)
        <3>4. \A k \in 1 .. Len(x) : x[k] # Newline
            BY <3>1, <3>2, ZenonT(40)
        <3> QED BY <3>1, <3>3, <3>4
    <2>4. PICK u \in Seq(Int) : u = text \o Append(w, Newline)
        <3>1. PICK y \in Seq(Int) : y = Append(w, Newline)
            BY LineOfNumbers
        <3>2. text \o y \in Seq(Int)
            OBVIOUS
        <3> QED BY <3>1, <3>2
    <2>5. Counted(u, n)
        BY <1>3, <2>2, <2>3, <2>4, CountedMore
    <2>6. out' = <<EnterNumber>> \o u
        <3>1. out' = (<<EnterNumber>> \o text) \o Append(w, Newline)
            BY <1>3, <2>1, <2>2, <2>3 DEF ece391_itoa
        <3>4. <<EnterNumber>> \in Seq(Int)
            BY DEF EnterNumber
        <3>2. PICK x \in Seq(Int), y \in Seq(Int) : x = <<EnterNumber>> /\ y = Append(w, Newline)
            BY <3>4, LineOfNumbers, Zenon
        <3>3. (x \o text) \o y = x \o (text \o y)
            BY ConcatAssociative, SMTT(30)
        <3> QED BY <2>4, <3>1, <3>2, <3>3
    <2>7. m \in ToSet(TestMax)
        BY <1>3, <1>4
    <2>8. CountedSoFar(out', n, m)
        BY <2>5, <2>6, <2>7 DEF CountedSoFar
    <2>9. pc' = "count" /\ local' = [i |-> n, max |-> m] /\ n <= m
        BY <1>1, <1>4, <2>1, <2>2 DEF Go
    <2>10. local'.i = n /\ local'.max = m
        BY <2>9
    <2> QED BY <2>8, <2>9, <2>10 DEF CounterInv
<1>5. CASE ~(i < m)
    <2>1. pc' = "exit" /\ out' = out
        BY <1>2, <1>5 DEF Counter, At, Return, Go
    <2>2. i = m
        BY <1>1, <1>5
    <2>3. CounterSays(out)
        <3>1. Tail(out) = text
            BY <1>3 DEF EnterNumber
        <3>2. CASE m \in ToSet(TestMax)
            BY <1>3, <2>2, <3>1, <3>2 DEF CounterSays
        <3>3. CASE text = <<>>
            BY <1>3, <3>3 DEF CounterSays
        <3> QED BY <1>3, <3>2, <3>3
    <2> QED BY <2>1, <2>3 DEF CounterInv
<1> QED BY <1>4, <1>5

\* Every step of counter.
LEMMA CounterStep ==
    ASSUME CounterInv, Counter
    PROVE  CounterInv'
<1>1. At("counter", "main") \/ At("counter", "count")
    BY DEF Counter
<1>2. CASE At("counter", "main")
    <2>1. Started
        BY <1>2 DEF At, CounterInv
    <2> QED BY <1>2, <2>1, CounterMain
<1> QED BY <1>1, <1>2, CounterCounts

\* When counter exits it has counted.
LEMMA CounterEnds ==
    ASSUME CounterInv
    PROVE  pc # "fault" /\ (pc = "exit" => CounterSays(out))
BY DEF CounterInv, Started

-----------------------------------------------------------------------------
\* syserr.

\* Calls that fail for a program without open files.
MustFail(c) ==
    \/ /\ c.call \in {"read", "write", "close"}
       /\ \/ c.arg \notin AllFds \/ c.arg \in Fds
          \/ c.arg = 0 /\ c.call # "read"
          \/ c.arg = 1 /\ c.call # "write"
    \/ c.call = "open" /\ c.arg \in {<<7, 7>>, <<8>>, <<>>}
    \/ c.call = "vidmap" /\ ~VidmapAccepts(c.arg)
    \/ c.call = "number" /\ ~ValidNumber(c.arg)

\* A sequence of calls, or two.
LEMMA CallsAre ==
    ASSUME NEW call, NEW numbers, NEW m \in Nat, Len(numbers) = m
    PROVE  /\ Calls(call, numbers) = [n \in 1 .. m |-> [call |-> call, arg |-> numbers[n]]]
           /\ Len(Calls(call, numbers)) = m
           /\ \A n \in 1 .. m : Calls(call, numbers)[n].call = call /\ Calls(call, numbers)[n].arg = numbers[n]
<1>1. Calls(call, numbers) = [n \in 1 .. m |-> [call |-> call, arg |-> numbers[n]]]
    BY DEF Calls
<1> QED BY <1>1

\* The descriptors from one on, in their order.
LEMMA FdsFromAre ==
    ASSUME NEW first \in 0 .. LastFd
    PROVE  /\ FdsFrom(first) \in Seq(Nat) /\ Len(FdsFrom(first)) = LastFd + 1 - first
           /\ \A n \in 1 .. LastFd + 1 - first : FdsFrom(first)[n] = first + n - 1
<1>1. LastFd \in Nat /\ LastFd >= 3
    BY FileSystemAssumption, UserProgramsAssumption
<1>2. PICK m \in Nat : m = LastFd + 1 - first
    BY <1>1
<1>3. FdsFrom(first) = [n \in 1 .. m |-> first + n - 1]
    BY <1>2 DEF FdsFrom
<1>4. \A n \in 1 .. m : first + n - 1 \in Nat
    BY <1>1
<1> QED BY <1>2, <1>3, <1>4

\* The calls of two sequences.
Both(v, s, t, i, j) ==
    /\ Len(v) = i + j
    /\ \A n \in 1 .. i : v[n] = s[n]
    /\ \A n \in 1 .. j : v[i + n] = t[n]
    /\ \A n \in 1 .. i + j : n \in 1 .. i \/ \E k \in 1 .. j : n = i + k

\* Two sequences of calls, one after the other.
LEMMA OneOfBoth ==
    ASSUME NEW D, NEW s \in Seq(D), NEW t \in Seq(D), NEW i \in Nat, NEW j \in Nat, Len(s) = i, Len(t) = j
    PROVE  s \o t \in Seq(D) /\ Both(s \o t, s, t, i, j)
<1>1. \A n \in 1 .. i + j : n \in 1 .. i \/ (n - i \in 1 .. j /\ n = i + (n - i))
    OBVIOUS
<1>2. \A n \in 1 .. i + j : n \in 1 .. i \/ \E k \in 1 .. j : n = i + k
    BY <1>1
<1> QED BY <1>2 DEF Both

\* Calls on a descriptor.
FdCalls == [call : {"read", "write", "close"}, arg : Nat]

\* The fifth test.
LEMMA UnopenedFails ==
    /\ err_unopened \in Seq(FdCalls)
    /\ \A n \in 1 .. Len(err_unopened) : MustFail(err_unopened[n])
<1>1. PICK L \in Nat : L = LastFd /\ L >= 3
    BY FileSystemAssumption, UserProgramsAssumption
<1>2. PICK s : s = Calls("close", FdsFrom(0))
    OBVIOUS
<1>3. PICK t : t = Calls("read", FdsFrom(2))
    OBVIOUS
<1>4. PICK u : u = Calls("write", FdsFrom(2))
    OBVIOUS
<1>5. /\ Len(FdsFrom(0)) = L + 1 /\ \A n \in 1 .. L + 1 : FdsFrom(0)[n] = 0 + n - 1
      /\ Len(FdsFrom(2)) = L - 1 /\ \A n \in 1 .. L - 1 : FdsFrom(2)[n] = 2 + n - 1
    <2>1. 0 \in 0 .. LastFd /\ 2 \in 0 .. LastFd /\ L + 1 - 0 = L + 1 /\ L + 1 - 2 = L - 1
        BY <1>1
    <2> QED BY <1>1, <2>1, FdsFromAre
<1>6. PICK a \in Nat, b \in Nat : a = L + 1 /\ b = L - 1
    BY <1>1
<1>7. /\ s = [n \in 1 .. a |-> s[n]] /\ Len(s) = a
      /\ \A n \in 1 .. a : s[n].call = "close" /\ s[n].arg = n - 1 /\ s[n] = [call |-> "close", arg |-> n - 1]
    <2>1. Len(FdsFrom(0)) = a
        BY <1>5, <1>6
    <2>2. s = [n \in 1 .. a |-> [call |-> "close", arg |-> FdsFrom(0)[n]]]
        BY <1>2, <2>1, <1>6, CallsAre
    <2>3. \A n \in 1 .. a : FdsFrom(0)[n] = n - 1
        BY <1>5, <1>6
    <2> QED BY <2>2, <2>3, <1>6
<1>8. /\ t = [n \in 1 .. b |-> t[n]] /\ Len(t) = b
      /\ \A n \in 1 .. b : t[n].call = "read" /\ t[n].arg = n + 1 /\ t[n] = [call |-> "read", arg |-> n + 1]
    <2>1. Len(FdsFrom(2)) = b
        BY <1>5, <1>6
    <2>2. t = [n \in 1 .. b |-> [call |-> "read", arg |-> FdsFrom(2)[n]]]
        BY <1>3, <2>1, <1>6, CallsAre
    <2>3. \A n \in 1 .. b : FdsFrom(2)[n] = n + 1
        BY <1>5, <1>6
    <2> QED BY <2>2, <2>3, <1>6
<1>9. /\ u = [n \in 1 .. b |-> u[n]] /\ Len(u) = b
      /\ \A n \in 1 .. b : u[n].call = "write" /\ u[n].arg = n + 1 /\ u[n] = [call |-> "write", arg |-> n + 1]
    <2>1. Len(FdsFrom(2)) = b
        BY <1>5, <1>6
    <2>2. u = [n \in 1 .. b |-> [call |-> "write", arg |-> FdsFrom(2)[n]]]
        BY <1>4, <2>1, <1>6, CallsAre
    <2>3. \A n \in 1 .. b : FdsFrom(2)[n] = n + 1
        BY <1>5, <1>6
    <2> QED BY <2>2, <2>3, <1>6
<1>10. s \in Seq(FdCalls) /\ t \in Seq(FdCalls) /\ u \in Seq(FdCalls)
    <2>1. \A n \in 1 .. a : s[n] \in FdCalls
        <3>1. \A n \in 1 .. a : n - 1 \in Nat
            OBVIOUS
        <3> QED BY <1>7, <3>1 DEF FdCalls
    <2>2. \A n \in 1 .. b : t[n] \in FdCalls /\ u[n] \in FdCalls
        <3>1. \A n \in 1 .. b : n + 1 \in Nat
            OBVIOUS
        <3> QED BY <1>8, <1>9, <3>1 DEF FdCalls
    <2>3. \A f : f = [n \in 1 .. a |-> f[n]] /\ (\A n \in 1 .. a : f[n] \in FdCalls) => f \in Seq(FdCalls)
        BY <1>6
    <2>4. \A f : f = [n \in 1 .. b |-> f[n]] /\ (\A n \in 1 .. b : f[n] \in FdCalls) => f \in Seq(FdCalls)
        BY <1>6
    <2>5. s \in Seq(FdCalls)
        BY <1>7, <2>1, <2>3
    <2>6. t \in Seq(FdCalls)
        BY <1>8, <2>2, <2>4
    <2>7. u \in Seq(FdCalls)
        BY <1>9, <2>2, <2>4
    <2> QED BY <2>5, <2>6, <2>7
<1>11. PICK v \in Seq(FdCalls) : v = s \o t /\ Both(v, s, t, a, b)
    <2>1. Len(s) = a /\ Len(t) = b
        BY <1>7, <1>8
    <2>2. s \o t \in Seq(FdCalls) /\ Both(s \o t, s, t, a, b)
        BY <1>10, <2>1, OneOfBoth
    <2> QED BY <2>2
<1>12. PICK c \in Nat : c = a + b
    OBVIOUS
<1>13. PICK w \in Seq(FdCalls) : w = v \o u /\ Both(w, v, u, c, b)
    <2>1. Len(v) = c /\ Len(u) = b
        BY <1>9, <1>11, <1>12 DEF Both
    <2>2. v \o u \in Seq(FdCalls) /\ Both(v \o u, v, u, c, b)
        BY <1>10, <2>1, OneOfBoth
    <2> QED BY <2>2
<1>14. err_unopened = w
    BY <1>2, <1>3, <1>4, <1>11, <1>13 DEF err_unopened
<1>15. ASSUME NEW n \in 1 .. a PROVE MustFail(s[n])
    <2>1. n - 1 \in 2 .. L \/ n - 1 = 0 \/ n - 1 = 1
        BY <1>6
    <2>2. s[n].call = "close" /\ (s[n].arg \in Fds \/ s[n].arg = 0 \/ s[n].arg = 1)
        BY <1>1, <1>7, <2>1 DEF Fds
    <2> QED BY <2>2 DEF MustFail
<1>16. ASSUME NEW n \in 1 .. b PROVE MustFail(t[n]) /\ MustFail(u[n])
    <2>1. n + 1 \in 2 .. L
        BY <1>6
    <2>2. t[n].call = "read" /\ t[n].arg \in Fds /\ u[n].call = "write" /\ u[n].arg \in Fds
        BY <1>1, <1>8, <1>9, <2>1 DEF Fds
    <2> QED BY <2>2 DEF MustFail
<1>17. ASSUME NEW n \in 1 .. c PROVE MustFail(v[n])
    BY <1>11, <1>12, <1>15, <1>16, Zenon DEF Both
<1>18. ASSUME NEW n \in 1 .. c + b PROVE MustFail(w[n])
    BY <1>13, <1>16, <1>17, Zenon DEF Both
<1>19. Len(w) = c + b
    BY <1>13 DEF Both
<1> QED BY <1>13, <1>14, <1>18, <1>19

\* The third test opens as many times as there are descriptors from 1 on, and
\* closes those from 2 on.
LEMMA OpenLotsIs ==
    ASSUME NEW L, L = LastFd
    PROVE  /\ Len(err_open_lots) = L + (L - 1)
           /\ \A n \in 1 .. L : err_open_lots[n].call = "open" /\ err_open_lots[n].arg = Dot
           /\ \A k \in 1 .. L - 1 : err_open_lots[L + k].call = "close" /\ err_open_lots[L + k].arg = k + 1
<1>1. L \in Nat /\ L >= 3
    BY FileSystemAssumption, UserProgramsAssumption
<1>2. PICK s : s = Calls("open", [n \in 1 .. L |-> Dot])
    OBVIOUS
<1>3. PICK t : t = Calls("close", FdsFrom(2))
    OBVIOUS
<1>4. PICK b \in Nat : b = L - 1
    BY <1>1
<1>5. /\ s = [n \in 1 .. L |-> s[n]] /\ Len(s) = L
      /\ \A n \in 1 .. L : s[n].call = "open" /\ s[n].arg = Dot
    <2>1. PICK d : d = [n \in 1 .. L |-> Dot]
        OBVIOUS
    <2>2. Len(d) = L
        BY <1>1, <2>1
    <2>3. s = [n \in 1 .. L |-> [call |-> "open", arg |-> d[n]]]
        BY <1>1, <1>2, <2>1, <2>2, CallsAre
    <2> QED BY <1>1, <2>1, <2>3
<1>6. /\ t = [n \in 1 .. b |-> t[n]] /\ Len(t) = b
      /\ \A n \in 1 .. b : t[n].call = "close" /\ t[n].arg = n + 1
    <2>0. PICK g : g = FdsFrom(2)
        OBVIOUS
    <2>1. Len(g) = b /\ \A n \in 1 .. b : g[n] = n + 1
        <3>1. 2 \in 0 .. LastFd /\ LastFd + 1 - 2 = b
            BY <1>1, <1>4
        <3>2. Len(FdsFrom(2)) = b /\ \A n \in 1 .. b : FdsFrom(2)[n] = 2 + n - 1
            BY <3>1, FdsFromAre
        <3> QED BY <2>0, <3>2
    <2>2. t = [n \in 1 .. b |-> [call |-> "close", arg |-> g[n]]]
        BY <1>3, <1>4, <2>0, <2>1, CallsAre
    <2> QED BY <1>4, <2>1, <2>2
<1>7. PICK D : \A n \in 1 .. L : s[n] \in D /\ (n \in 1 .. b => t[n] \in D)
    <2>1. PICK D : D = {s[n] : n \in 1 .. L} \cup {t[n] : n \in 1 .. b}
        OBVIOUS
    <2>2. \A n \in 1 .. L : s[n] \in D /\ (n \in 1 .. b => t[n] \in D)
        BY <2>1
    <2> QED BY <2>2
<1>8. s \in Seq(D) /\ t \in Seq(D)
    <2>1. \A n \in 1 .. L : s[n] \in D
        BY <1>7
    <2>2. \A n \in 1 .. b : t[n] \in D
        BY <1>1, <1>4, <1>7
    <2>3. s \in Seq(D)
        BY <1>1, <1>5, <2>1
    <2>4. t \in Seq(D)
        BY <1>4, <1>6, <2>2
    <2> QED BY <2>3, <2>4
<1>9. Both(s \o t, s, t, L, b)
    BY <1>1, <1>4, <1>5, <1>6, <1>8, OneOfBoth
<1>10. err_open_lots = s \o t
    BY <1>2, <1>3 DEF err_open_lots
<1>11. PICK w : w = s \o t
    OBVIOUS
<1>12. Both(w, s, t, L, b)
    BY <1>9, <1>11
<1>13. Len(w) = L + b /\ \A n \in 1 .. L : w[n].call = "open" /\ w[n].arg = Dot
    BY <1>5, <1>12 DEF Both
<1>14. \A k \in 1 .. b : w[L + k].call = "close" /\ w[L + k].arg = k + 1
    BY <1>6, <1>12 DEF Both
<1> QED BY <1>4, <1>10, <1>11, <1>13, <1>14

\* The other tests.
LEMMA OthersFail ==
    \A t \in {1, 2, 4, 6, 7, 8} :
        Len(Tests[t]) \in Nat /\ \A n \in 1 .. Len(Tests[t]) : MustFail(Tests[t][n])
<1>1. Big \notin AllFds /\ -Big \notin AllFds
    <2>1. LastFd \in 3 .. Big - 1
        BY UserProgramsAssumption
    <2>2. PICK B \in Nat : B = Big
        BY SMT DEF Big
    <2> QED BY <2>1, <2>2 DEF AllFds
<1>2. Tests[1] = err_neg_fd /\ Tests[2] = err_big_fd /\ Tests[4] = err_open /\ Tests[6] = err_vidmap
      /\ Tests[7] = err_stdin_out /\ Tests[8] = err_syscall_num
    BY DEF Tests
<1>3. Len(err_neg_fd) = 3 /\ Len(err_big_fd) = 3
      /\ \A n \in 1 .. 3 : /\ err_neg_fd[n].call \in {"read", "write", "close"} /\ err_neg_fd[n].arg = -Big
                          /\ err_big_fd[n].call \in {"read", "write", "close"} /\ err_big_fd[n].arg = Big
    BY DEF err_neg_fd, err_big_fd
<1>4. Len(err_stdin_out) = 2 /\ \A n \in 1 .. 2 : MustFail(err_stdin_out[n])
    BY DEF err_stdin_out, MustFail
<1>5. Len(err_open) = 3 /\ \A n \in 1 .. 3 : MustFail(err_open[n])
    <2>1. PICK s : s = << <<7, 7>>, <<8>>, <<>> >> 
        OBVIOUS
    <2>2. Len(s) = 3 /\ s[1] = <<7, 7>> /\ s[2] = <<8>> /\ s[3] = <<>>
        BY <2>1
    <2>3. err_open = Calls("open", s)
        BY <2>1 DEF err_open
    <2>4. Len(err_open) = 3 /\ \A n \in 1 .. 3 : err_open[n].call = "open" /\ err_open[n].arg = s[n]
        <3>1. PICK m \in Nat : m = 3
            OBVIOUS
        <3>2. Len(s) = m
            BY <2>2, <3>1
        <3>3. /\ Len(Calls("open", s)) = m
              /\ \A n \in 1 .. m : Calls("open", s)[n].call = "open" /\ Calls("open", s)[n].arg = s[n]
            BY <3>2, CallsAre
        <3> QED BY <2>3, <3>1, <3>3
    <2>5. MustFail(err_open[1]) /\ MustFail(err_open[2]) /\ MustFail(err_open[3])
        <3>1. 1 \in 1 .. 3 /\ 2 \in 1 .. 3 /\ 3 \in 1 .. 3
            OBVIOUS
        <3> QED BY <2>2, <2>4, <3>1, Zenon DEF MustFail
    <2>6. \A n \in 1 .. 3 : n = 1 \/ n = 2 \/ n = 3
        OBVIOUS
    <2> QED BY <2>4, <2>5, <2>6
<1>6. Len(err_vidmap) = 2 /\ \A n \in 1 .. 2 : MustFail(err_vidmap[n])
    <2>1. PICK s : s = <<0, 4 * MB>>
        OBVIOUS
    <2>2. Len(s) = 2 /\ s[1] = 0 /\ s[2] = 4 * MB
        BY <2>1
    <2>3. err_vidmap = Calls("vidmap", s)
        BY <2>1 DEF err_vidmap
    <2>4. Len(err_vidmap) = 2 /\ \A n \in 1 .. 2 : err_vidmap[n].call = "vidmap" /\ err_vidmap[n].arg = s[n]
        <3>1. PICK m \in Nat : m = 2
            OBVIOUS
        <3>2. Len(s) = m
            BY <2>2, <3>1
        <3>3. /\ Len(Calls("vidmap", s)) = m
              /\ \A n \in 1 .. m : Calls("vidmap", s)[n].call = "vidmap" /\ Calls("vidmap", s)[n].arg = s[n]
            BY <3>2, CallsAre
        <3> QED BY <2>3, <3>1, <3>3
    <2>5. ~VidmapAccepts(0) /\ ~VidmapAccepts(4 * MB)
        BY SMT DEF VidmapAccepts, MB
    <2>6. \A n \in 1 .. 2 : ~VidmapAccepts(s[n])
        BY <2>2, <2>5
    <2> QED BY <2>4, <2>6 DEF MustFail
<1>7. Len(err_syscall_num) = 3 /\ \A n \in 1 .. 3 : MustFail(err_syscall_num[n])
    <2>1. PICK s : s = <<Big, -Big, 0>>
        OBVIOUS
    <2>2. Len(s) = 3 /\ s[1] = Big /\ s[2] = -Big /\ s[3] = 0
        BY <2>1
    <2>3. err_syscall_num = Calls("number", s)
        BY <2>1 DEF err_syscall_num
    <2>4. Len(err_syscall_num) = 3
          /\ \A n \in 1 .. 3 : err_syscall_num[n].call = "number" /\ err_syscall_num[n].arg = s[n]
        <3>1. PICK m \in Nat : m = 3
            OBVIOUS
        <3>2. Len(s) = m
            BY <2>2, <3>1
        <3>3. /\ Len(Calls("number", s)) = m
              /\ \A n \in 1 .. m : Calls("number", s)[n].call = "number" /\ Calls("number", s)[n].arg = s[n]
            BY <3>2, CallsAre
        <3> QED BY <2>3, <3>1, <3>3
    <2>5. ~ValidNumber(Big) /\ ~ValidNumber(-Big) /\ ~ValidNumber(0)
        BY SMT DEF ValidNumber, Big
    <2>6. \A n \in 1 .. 3 : ~ValidNumber(s[n])
        BY <2>2, <2>5
    <2> QED BY <2>4, <2>6 DEF MustFail
<1>8. \A n \in 1 .. 3 : MustFail(err_neg_fd[n]) /\ MustFail(err_big_fd[n])
    BY <1>1, <1>3, Zenon DEF MustFail
<1>9. \A t \in {1, 2, 4, 6, 7, 8} : \E test : /\ test = Tests[t] /\ Len(test) \in Nat
                                          /\ \A n \in 1 .. Len(test) : MustFail(test[n])
    <2>1. Len(err_neg_fd) \in Nat /\ \A n \in 1 .. Len(err_neg_fd) : MustFail(err_neg_fd[n])
        BY <1>3, <1>8
    <2>2. Len(err_big_fd) \in Nat /\ \A n \in 1 .. Len(err_big_fd) : MustFail(err_big_fd[n])
        BY <1>3, <1>8
    <2>3. Len(err_open) \in Nat /\ \A n \in 1 .. Len(err_open) : MustFail(err_open[n])
        BY <1>5
    <2>4. Len(err_vidmap) \in Nat /\ \A n \in 1 .. Len(err_vidmap) : MustFail(err_vidmap[n])
        BY <1>6
    <2>5. Len(err_stdin_out) \in Nat /\ \A n \in 1 .. Len(err_stdin_out) : MustFail(err_stdin_out[n])
        BY <1>4
    <2>6. Len(err_syscall_num) \in Nat /\ \A n \in 1 .. Len(err_syscall_num) : MustFail(err_syscall_num[n])
        BY <1>7
    <2> QED BY <1>2, <2>1, <2>2, <2>3, <2>4, <2>5, <2>6, Zenon
<1> QED BY <1>9

\* No descriptor is open.
Empty == inode = [fd \in Fds |-> 0]

\* A call that must fail, on an empty table, fails and leaves it empty.
LEMMA MustFailFails ==
    ASSUME ReadInv, Empty, SyserrCan(Volume), NEW c, MustFail(c), Call(c)
    PROVE  result' = -1 /\ Empty'
<1>1. CASE c.call = "open" /\ c.arg \in {<<7, 7>>, <<8>>, <<>>}
    <2>1. Open(c.arg)
        BY <1>1 DEF Call
    <2>2. PICK name : name = c.arg
        OBVIOUS
    <2>3. name \in CStrings
        <3>1. <<7, 7>> \in CStrings
            BY DEF CStrings
        <3>2. <<8>> \in CStrings
            BY DEF CStrings
        <3>3. <<>> \in CStrings
            BY DEF CStrings
        <3> QED BY <1>1, <2>2, <3>1, <3>2, <3>3
    <2>4. FileNamed(dir_entries, name) = {}
        <3>1. CASE name = <<>>
            <4>1. \A f \in 1 .. Len(dir_entries) : dir_entries[f].name # <<>>
                BY EntriesAre DEF CStrings
            <4> QED BY <3>1, <4>1 DEF FileNamed
        <3>2. CASE name \in {<<7, 7>>, <<8>>}
            BY <3>2 DEF SyserrCan, Volume
        <3> QED BY <1>1, <2>2, <3>1, <3>2
    <2>5. OpenFails(name)
        BY <2>1, <2>2, <2>3, <2>4, OpenGives
    <2> QED BY <2>5 DEF OpenFails, Empty
<1>2. CASE c.call = "vidmap" /\ ~VidmapAccepts(c.arg)
    <2>1. Vidmap(c.arg)
        BY <1>2 DEF Call
    <2> QED BY <1>2, <2>1 DEF Vidmap, files, Empty
<1>3. CASE c.call = "number" /\ ~ValidNumber(c.arg)
    <2>1. Fails
        BY <1>3 DEF Call
    <2> QED BY <2>1 DEF Fails, files, Empty
<1>4. CASE /\ c.call \in {"read", "write", "close"}
           /\ \/ c.arg \notin AllFds \/ c.arg \in Fds
              \/ c.arg = 0 /\ c.call # "read"
              \/ c.arg = 1 /\ c.call # "write"
    <2>1. Unusable(c.call, c.arg)
        BY <1>4 DEF Unusable, Empty
    <2>2. ReadRefused
        <3>1. c.call # "open" /\ c.call # "vidmap" /\ c.call # "number"
            BY <1>4
        <3>2. ~(c.call = "close" /\ ~Unusable("close", c.arg)) /\ ~(c.call = "read" /\ ~Unusable("read", c.arg))
            BY <2>1
        <3> QED BY <3>1, <3>2, Zenon DEF Call
    <2> QED BY <2>2 DEF ReadRefused, Empty
<1> QED BY <1>1, <1>2, <1>3, <1>4 DEF MustFail

\* Between two calls of a test, the table and the calls that failed: in the
\* third test the descriptors that were opened and not yet closed.
OpenBetween(a, b) == \A fd \in Fds : inode[fd] # 0 <=> a <= fd /\ fd <= b

\* Test t before its call n, when the calls in failed have failed.
TestState(t, n, failed) ==
    /\ t \in 1 .. 8 /\ n \in Nat \ {0} /\ n <= Len(Tests[t]) + 1
    /\ t # 3 => Empty /\ failed = 1 .. n - 1
    /\ t = 3 => OpenBetween(n - LastFd + 1, n) /\ failed = IF n <= LastFd THEN {} ELSE {LastFd}

\* Before its first call.
LEMMA FirstOfTest ==
    ASSUME NEW t \in 1 .. 8, Empty
    PROVE  TestState(t, 1, {})
<1>1. LastFd \in Nat /\ LastFd >= 3
    BY FileSystemAssumption, UserProgramsAssumption
<1>2. Len(Tests[t]) \in Nat
    <2>1. CASE t \in {1, 2, 4, 6, 7, 8}
        BY <2>1, OthersFail
    <2>2. CASE t = 3
        <3>1. Len(err_open_lots) = LastFd + (LastFd - 1)
            BY OpenLotsIs
        <3> QED BY <1>1, <2>2, <3>1 DEF Tests
    <2>3. CASE t = 5
        BY <2>3, UnopenedFails DEF Tests
    <2> QED BY <2>1, <2>2, <2>3
<1>3. OpenBetween(1 - LastFd + 1, 1)
    BY <1>1 DEF OpenBetween, Empty, Fds
<1>4. 1 .. 1 - 1 = {}
    OBVIOUS
<1>5. 1 <= LastFd /\ 1 <= Len(Tests[t]) + 1
    BY <1>1, <1>2
<1> QED BY <1>3, <1>4, <1>5 DEF TestState

\* Every call of a test but the third fails.
LEMMA OtherTestGoesOn ==
    ASSUME ReadInv, SyserrCan(Volume), NEW t \in 1 .. 8, t # 3, NEW n, NEW failed, TestState(t, n, failed),
           n <= Len(Tests[t]), Call(Tests[t][n]),
           NEW m, m = n + 1, NEW more, more = IF result' = -1 THEN failed \cup {n} ELSE failed
    PROVE  TestState(t, m, more)'
<1>1. Len(Tests[t]) \in Nat /\ \A k \in 1 .. Len(Tests[t]) : MustFail(Tests[t][k])
    <2>1. CASE t \in {1, 2, 4, 6, 7, 8}
        BY <2>1, OthersFail
    <2>2. CASE t = 5
        BY <2>2, UnopenedFails DEF Tests
    <2> QED BY <2>1, <2>2
<1>2. n \in Nat \ {0} /\ Empty /\ failed = 1 .. n - 1
    BY DEF TestState
<1>3. PICK c : c = Tests[t][n]
    OBVIOUS
<1>4. MustFail(c) /\ Call(c)
    BY <1>1, <1>2, <1>3
<1>5. result' = -1 /\ Empty'
    BY <1>2, <1>4, MustFailFails
<1>6. (1 .. n - 1) \cup {n} = 1 .. m - 1
    BY <1>2
<1>7. more = 1 .. m - 1
    BY <1>2, <1>5, <1>6
<1>8. m \in Nat \ {0} /\ m <= Len(Tests[t]) + 1
    BY <1>1, <1>2
<1> QED BY <1>5, <1>7, <1>8 DEF TestState

\* The third test opens a file through each descriptor, fails once, and
\* closes them.
LEMMA OpenLotsGoesOn ==
    ASSUME ReadInv, SyserrCan(Volume), NEW n, NEW failed, TestState(3, n, failed),
           n <= Len(Tests[3]), Call(Tests[3][n]),
           NEW m, m = n + 1, NEW more, more = IF result' = -1 THEN failed \cup {n} ELSE failed
    PROVE  TestState(3, m, more)'
<1>1. PICK L \in Nat : L = LastFd /\ L >= 3
    BY FileSystemAssumption, UserProgramsAssumption
<1>2. Tests[3] = err_open_lots
    BY DEF Tests
<1>3. /\ Len(Tests[3]) = L + (L - 1)
      /\ \A k \in 1 .. L : Tests[3][k].call = "open" /\ Tests[3][k].arg = Dot
      /\ \A k \in 1 .. L - 1 : Tests[3][L + k].call = "close" /\ Tests[3][L + k].arg = k + 1
    <2>1. /\ Len(err_open_lots) = L + (L - 1)
          /\ \A k \in 1 .. L : err_open_lots[k].call = "open" /\ err_open_lots[k].arg = Dot
          /\ \A k \in 1 .. L - 1 : err_open_lots[L + k].call = "close" /\ err_open_lots[L + k].arg = k + 1
        BY <1>1, OpenLotsIs
    <2> QED BY <1>2, <2>1
<1>4. /\ n \in Nat \ {0} /\ n <= L + (L - 1) /\ OpenBetween(n - L + 1, n)
      /\ failed = IF n <= L THEN {} ELSE {L}
    BY <1>1, <1>3 DEF TestState
<1>5. Fds = 2 .. L /\ inode = [fd \in Fds |-> inode[fd]]
    BY <1>1 DEF Fds, ReadInv, PositionInFile
<1>6. PICK c : c = Tests[3][n]
    OBVIOUS
<1>7. SUFFICES /\ OpenBetween(m - L + 1, m)'
               /\ more = IF m <= L THEN {} ELSE {L}
    <2>1. m \in Nat \ {0} /\ m <= Len(Tests[3]) + 1
        BY <1>3, <1>4
    <2>3. 3 \in 1 .. 8
        OBVIOUS
    <2>2. OpenBetween(m - LastFd + 1, m)' /\ more = IF m <= LastFd THEN {} ELSE {LastFd}
        <3>1. OpenBetween(m - L + 1, m)' /\ more = IF m <= L THEN {} ELSE {L}
            BY <1>7
        <3>2. OpenBetween(m - LastFd + 1, m)'
            BY <1>1, <3>1 DEF OpenBetween
        <3>3. more = IF m <= LastFd THEN {} ELSE {LastFd}
            BY <1>1, <3>1
        <3> QED BY <3>2, <3>3, Zenon
    <2> QED BY <2>1, <2>2, <2>3 DEF TestState
<1>8. CASE n \in 1 .. L
    <2>1. c.call = "open" /\ c.arg = Dot
        BY <1>3, <1>6, <1>8
    <2>2. Open(Dot)
        BY <1>6, <2>1 DEF Call
    <2>3. Dot \in CStrings
        BY DEF Dot, CStrings
    <2>4. OpenFails(Dot) \/ \E f \in FileNamed(dir_entries, Dot), fd \in Fds : OpensAt(Dot, f, fd)
        BY <2>2, <2>3, OpenGives
    <2>5. \A fd \in Fds : inode[fd] # 0 <=> fd <= n
        BY <1>4, <1>5, <1>8 DEF OpenBetween
    <2>6. FileNamed(dir_entries, Dot) # {}
        BY DEF SyserrCan, Volume
    <2>7. CASE n = L
        <3>1. \A fd \in Fds : inode[fd] # 0
            BY <1>5, <2>5, <2>7
        <3>2. OpenFails(Dot)
            BY <2>4, <3>1 DEF OpensAt
        <3>3. result' = -1 /\ inode' = inode
            BY <3>2 DEF OpenFails
        <3>4. OpenBetween(m - L + 1, m)'
            BY <1>5, <2>7, <3>1, <3>3 DEF OpenBetween
        <3>5. failed \cup {n} = {L} /\ ~(m <= L)
            BY <1>4, <2>7
        <3> QED BY <3>3, <3>4, <3>5
    <2>8. CASE n < L
        <3>1. n + 1 \in Fds /\ inode[n + 1] = 0
            <4>1. n + 1 \in Fds /\ ~(n + 1 <= n)
                BY <1>4, <1>5, <2>8
            <4> QED BY <2>5, <4>1
        <3>2. ~OpenFails(Dot)
            BY <2>6, <3>1 DEF OpenFails
        <3>3. PICK f \in FileNamed(dir_entries, Dot), fd \in Fds : OpensAt(Dot, f, fd)
            BY <2>4, <3>2
        <3>4. fd = n + 1
            <4>1. inode[fd] = 0 /\ \A lower \in 2 .. fd - 1 : inode[lower] # 0
                BY <3>3 DEF OpensAt, LowestFree
            <4>2. fd >= n + 1
                BY <1>4, <1>5, <2>5, <4>1
            <4>3. ~(n + 1 \in 2 .. fd - 1)
                BY <3>1, <4>1
            <4> QED BY <1>4, <1>5, <3>1, <4>2, <4>3
        <3>5. inode' = [inode EXCEPT ![fd] = f] /\ result' = fd /\ f # 0
            BY <3>3 DEF OpensAt, FileNamed
        <3>6. ASSUME NEW h \in Fds PROVE inode'[h] # 0 <=> m - L + 1 <= h /\ h <= m
            <4>1. inode'[h] # 0 <=> h = fd \/ inode[h] # 0
                BY <1>5, <3>5
            <4>2. inode[h] # 0 <=> h <= n
                BY <2>5
            <4>3. m - L + 1 <= h
                BY <1>4, <1>5, <2>8
            <4> QED BY <1>4, <1>5, <3>4, <4>1, <4>2, <4>3
        <3>7. OpenBetween(m - L + 1, m)'
            BY <3>6 DEF OpenBetween
        <3>8. failed = {} /\ m <= L /\ result' # -1
            BY <1>4, <1>5, <2>8, <3>5
        <3> QED BY <3>7, <3>8
    <2> QED BY <1>8, <2>7, <2>8
<1>9. CASE n > L
    <2>1. PICK k \in 1 .. L - 1 : n = L + k
        <3>1. n - L \in 1 .. L - 1 /\ n = L + (n - L)
            BY <1>4, <1>9
        <3> QED BY <3>1
    <2>2. c.call = "close" /\ c.arg = k + 1
        BY <1>3, <1>6, <2>1
    <2>3. PICK fd \in Fds : fd = k + 1
        BY <1>5
    <2>4. \A h \in Fds : inode[h] # 0 <=> k + 1 <= h
        <3>1. n - L + 1 = k + 1 /\ \A h \in Fds : h <= n
            BY <1>4, <1>5, <1>9, <2>1
        <3> QED BY <1>4, <3>1 DEF OpenBetween
    <2>5. inode[fd] # 0
        BY <1>5, <2>3, <2>4
    <2>6. ~Unusable("close", fd)
        BY <1>1, <1>5, <2>5 DEF Unusable, AllFds
    <2>7. Close(fd)
        <3>1. c.call # "open" /\ c.call # "vidmap" /\ c.call # "number" /\ c.call # "read" /\ c.arg = fd
            BY <2>2, <2>3
        <3>2. c.call = "close" /\ ~Unusable("close", c.arg)
            BY <2>2, <2>6, <3>1
        <3>3. Call(c)
            BY <1>6
        <3> QED BY <3>1, <3>2, <3>3 DEF Call
    <2>8. inode' = [inode EXCEPT ![fd] = 0] /\ result' = 0
        BY <2>5, <2>7 DEF Close
    <2>9. ASSUME NEW h \in Fds PROVE inode'[h] # 0 <=> m - L + 1 <= h /\ h <= m
        <3>1. inode'[h] # 0 <=> h # fd /\ inode[h] # 0
            BY <1>5, <2>8
        <3>2. inode[h] # 0 <=> k + 1 <= h
            BY <2>4
        <3>3. m - L + 1 = k + 2 /\ h <= m
            BY <1>4, <1>5, <1>9, <2>1
        <3> QED BY <1>5, <2>3, <3>1, <3>2, <3>3
    <2>10. OpenBetween(m - L + 1, m)'
        BY <2>9 DEF OpenBetween
    <2>11. failed = {L} /\ ~(m <= L) /\ result' # -1
        BY <1>4, <1>9, <2>8
    <2> QED BY <2>10, <2>11
<1> QED BY <1>4, <1>8, <1>9

\* The table after a test, and its verdict.
LEMMA TestEnds ==
    ASSUME ReadInv, NEW t, NEW n, NEW failed, TestState(t, n, failed), n > Len(Tests[t])
    PROVE  Empty /\ Passes(t, failed)
<1>1. LastFd \in Nat /\ LastFd >= 3
    BY FileSystemAssumption, UserProgramsAssumption
<1>2. CASE t # 3
    <2>1. PICK k : k = Len(Tests[t])
        OBVIOUS
    <2>2. k \in Nat
        <3>1. CASE t \in {1, 2, 4, 6, 7, 8}
            BY <2>1, <3>1, OthersFail
        <3>2. CASE t = 5
            BY <2>1, <3>2, UnopenedFails DEF Tests
        <3> QED BY <1>2, <3>1, <3>2 DEF TestState
    <2>3. n = k + 1 /\ Empty /\ failed = 1 .. n - 1
        BY <1>2, <2>1, <2>2 DEF TestState
    <2>4. failed = 1 .. k
        BY <2>2, <2>3
    <2> QED BY <1>2, <2>1, <2>3, <2>4 DEF Passes
<1>3. CASE t = 3
    <2>1. Len(Tests[3]) = LastFd + (LastFd - 1)
        BY OpenLotsIs DEF Tests
    <2>2. n = LastFd + LastFd /\ OpenBetween(n - LastFd + 1, n) /\ failed = {LastFd}
        BY <1>1, <1>3, <2>1 DEF TestState
    <2>3. \A fd \in Fds : inode[fd] = 0
        BY <1>1, <2>2 DEF OpenBetween, Fds
    <2>4. {k \in failed : k <= LastFd} = {LastFd}
        BY <1>1, <2>2
    <2>5. Cardinality({LastFd}) = 1
        BY FS_Singleton
    <2> QED BY <1>3, <2>3, <2>4, <2>5 DEF Passes, Empty, ReadInv, PositionInFile
<1> QED BY <1>2, <1>3

\* syserr is at a test, and the results printed so far are good.
Testing ==
    /\ local = [all |-> local.all, test |-> local.test, n |-> local.n, failed |-> local.failed, fail |-> local.fail]
    /\ TestState(local.test, local.n, local.failed)

\* So it is in its loop, and when it exits.
SyserrInv ==
    \/ Started
    \/ pc \in {"test", "exit"} /\ (SyserrCan(Volume) => out \in Seq({Pass, Invalid}) /\ (pc = "test" => Testing))

\* It begins with the first test, on an empty table.
LEMMA SyserrMain ==
    ASSUME ReadInv, Started, Syserr, At("syserr", "main")
    PROVE  SyserrInv'
<1>1. out = <<>> /\ Empty
    BY DEF Started, Empty
<1>2. CASE Say(<<Invalid>>) /\ Return(0)
    BY <1>1, <1>2 DEF SyserrInv, Say, Return, Go
<1>3. ASSUME NEW all, NEW t \in 1 .. 8, NoCall, UNCHANGED out,
             Go("test", [all |-> all, test |-> t, n |-> 1, failed |-> {}, fail |-> 0])
      PROVE  SyserrInv'
    <2>1. pc' = "test" /\ local' = [all |-> all, test |-> t, n |-> 1, failed |-> {}, fail |-> 0]
        BY <1>3 DEF Go
    <2>2. TestState(t, 1, {})
        BY <1>1, FirstOfTest
    <2>3. TestState(t, 1, {})'
        BY <1>3, <2>2 DEF TestState, Empty, OpenBetween, NoCall, kernel, vars
    <2>4. Testing'
        BY <2>1, <2>3 DEF Testing
    <2>5. out' \in Seq({Pass, Invalid})
        BY <1>1, <1>3
    <2> QED BY <2>1, <2>4, <2>5 DEF SyserrInv
<1>4. \/ Say(<<Invalid>>) /\ Return(0)
      \/ \E all \in BOOLEAN, t \in 1 .. 8 : NoCall /\ UNCHANGED out
             /\ Go("test", [all |-> all, test |-> t, n |-> 1, failed |-> {}, fail |-> 0])
    <2>1. CASE Line[1] = 48
        <3>1. NoCall /\ UNCHANGED out /\ Go("test", [all |-> TRUE, test |-> 1, n |-> 1, failed |-> {}, fail |-> 0])
            BY <2>1 DEF Syserr, At
        <3>2. 1 \in 1 .. 8
            OBVIOUS
        <3> QED BY <3>1, <3>2
    <2>2. CASE Line[1] \in 49 .. 56
        <3>1. PICK t \in 1 .. 8 : t = Line[1] - 48
            BY <2>2
        <3>2. Line[1] # 48
            BY <2>2
        <3>3. NoCall /\ UNCHANGED out /\ Go("test", [all |-> FALSE, test |-> t, n |-> 1, failed |-> {}, fail |-> 0])
            BY <2>2, <3>1, <3>2 DEF Syserr, At
        <3> QED BY <3>3
    <2>3. CASE Line[1] # 48 /\ Line[1] \notin 49 .. 56
        BY <2>3 DEF Syserr, At
    <2> QED BY <2>1, <2>2, <2>3
<1> QED BY <1>2, <1>3, <1>4

\* A call of a test.
LEMMA SyserrCalls ==
    ASSUME ReadInv, SyserrInv, pc = "test", NEW n, n = local.n, UNCHANGED <<out, Volume>>,
           n <= Len(Tests[local.test]), Call(Tests[local.test][n]),
           Go("test", [local EXCEPT !.n = @ + 1, !.failed = IF result' = -1 THEN @ \cup {n} ELSE @])
    PROVE  SyserrInv'
<1>1. pc' = "test" /\ local' = [local EXCEPT !.n = @ + 1, !.failed = IF result' = -1 THEN @ \cup {n} ELSE @]
    BY DEF Go
<1>2. SUFFICES ASSUME SyserrCan(Volume) PROVE out' \in Seq({Pass, Invalid}) /\ Testing'
    BY <1>1 DEF SyserrInv
<1>3. out \in Seq({Pass, Invalid}) /\ Testing
    BY <1>2 DEF SyserrInv, Started
<1>4. PICK t, failed : t = local.test /\ failed = local.failed
    OBVIOUS
<1>5. TestState(t, n, failed) /\ t \in 1 .. 8
    BY <1>3, <1>4 DEF Testing, TestState
<1>6. PICK m, more : m = n + 1 /\ more = IF result' = -1 THEN failed \cup {n} ELSE failed
    OBVIOUS
<1>7. TestState(t, m, more)'
    <2>1. n <= Len(Tests[t]) /\ Call(Tests[t][n])
        BY <1>4
    <2>2. CASE t # 3
        BY <1>2, <1>5, <1>6, <2>1, <2>2, OtherTestGoesOn
    <2>3. CASE t = 3
        <3>1. n <= Len(Tests[3]) /\ Call(Tests[3][n]) /\ TestState(3, n, failed)
            BY <1>5, <2>1, <2>3
        <3>2. TestState(3, m, more)'
            BY <1>2, <1>6, <3>1, OpenLotsGoesOn
        <3> QED BY <2>3, <3>2
    <2> QED BY <2>2, <2>3
<1>8. local' = [all |-> local.all, test |-> t, n |-> m, failed |-> more, fail |-> local.fail]
    BY <1>1, <1>3, <1>4, <1>6 DEF Testing
<1>9. Testing'
    BY <1>7, <1>8 DEF Testing
<1> QED BY <1>3, <1>9

\* What the verdict on a test prints, and where it goes on.
Judges(passed, fail) ==
    /\ NoCall /\ local.n > Len(Tests[local.test])
    /\ Say(<<IF passed THEN Pass ELSE Fail>>)
    /\ IF local.all /\ local.test < Len(Tests)
         THEN Go("test", [local EXCEPT !.test = @ + 1, !.n = 1, !.failed = {}, !.fail = fail])
         ELSE Return(fail)

\* The verdict after the last call of a test.
LEMMA SyserrJudges ==
    ASSUME ReadInv, SyserrInv, pc = "test", UNCHANGED Volume, NEW fail,
           Judges(Passes(local.test, local.failed), fail)
    PROVE  SyserrInv'
<1>0. PICK passed : passed = Passes(local.test, local.failed)
    OBVIOUS
<1>10. /\ NoCall /\ local.n > Len(Tests[local.test])
       /\ Say(<<IF passed THEN Pass ELSE Fail>>)
       /\ IF local.all /\ local.test < Len(Tests)
            THEN Go("test", [local EXCEPT !.test = @ + 1, !.n = 1, !.failed = {}, !.fail = fail])
            ELSE Return(fail)
    BY <1>0, Zenon DEF Judges
<1>1. pc' \in {"test", "exit"}
    BY <1>10 DEF Go, Return
<1>2. SUFFICES ASSUME SyserrCan(Volume)
               PROVE  out' \in Seq({Pass, Invalid}) /\ (pc' = "test" => Testing')
    BY <1>1 DEF SyserrInv
<1>3. out \in Seq({Pass, Invalid}) /\ Testing
    BY <1>2 DEF SyserrInv, Started
<1>4. PICK t, n, failed : t = local.test /\ n = local.n /\ failed = local.failed
    OBVIOUS
<1>5. TestState(t, n, failed) /\ t \in 1 .. 8 /\ n > Len(Tests[t])
    BY <1>3, <1>4, <1>10 DEF Testing, TestState
<1>6. Empty /\ Passes(t, failed)
    BY <1>5, TestEnds
<1>7. out' = out \o <<Pass>>
    BY <1>0, <1>4, <1>6, <1>10 DEF Say
<1>8. out' \in Seq({Pass, Invalid})
    BY <1>3, <1>7
<1>9. ASSUME pc' = "test" PROVE Testing'
    <2>1. /\ local.test < Len(Tests)
          /\ local' = [local EXCEPT !.test = @ + 1, !.n = 1, !.failed = {}, !.fail = fail]
        BY <1>9, <1>10 DEF Go, Return
    <2>2. Len(Tests) = 8
        BY DEF Tests
    <2>3. PICK u \in 1 .. 8 : u = t + 1
        BY <1>4, <1>5, <2>1, <2>2
    <2>4. local' = [all |-> local.all, test |-> u, n |-> 1, failed |-> {}, fail |-> fail]
        BY <1>3, <1>4, <2>1, <2>3 DEF Testing
    <2>5. TestState(u, 1, {})
        BY <1>6, FirstOfTest
    <2>6. TestState(u, 1, {})'
        BY <1>10, <2>5 DEF TestState, Empty, OpenBetween, NoCall, kernel, vars
    <2> QED BY <2>4, <2>6 DEF Testing
<1> QED BY <1>8, <1>9

\* Every step of syserr.
LEMMA SyserrStep ==
    ASSUME ReadInv, SyserrInv, Counting, Syserr
    PROVE  SyserrInv'
<1>1. UNCHANGED Volume
    BY SyserrCounts, KeepsVolume DEF Goes
<1>2. CASE At("syserr", "main")
    <2>1. Started
        BY <1>2 DEF At, SyserrInv
    <2> QED BY <1>2, <2>1, SyserrMain
<1>3. CASE At("syserr", "test")
    <2>1. pc = "test"
        BY <1>3 DEF At
    <2>2. CASE /\ local.n <= Len(Tests[local.test])
               /\ Call(Tests[local.test][local.n])
               /\ UNCHANGED out
               /\ Go("test", [local EXCEPT !.n = @ + 1,
                                           !.failed = IF result' = -1 THEN @ \cup {local.n} ELSE @])
        <3>1. PICK n : n = local.n
            OBVIOUS
        <3>2. /\ n <= Len(Tests[local.test]) /\ Call(Tests[local.test][n]) /\ UNCHANGED <<out, Volume>>
              /\ Go("test", [local EXCEPT !.n = @ + 1, !.failed = IF result' = -1 THEN @ \cup {n} ELSE @])
            BY <1>1, <2>2, <3>1
        <3> QED BY <2>1, <3>1, <3>2, SyserrCalls
    <2>5. PICK fail : fail = IF Passes(local.test, local.failed) THEN local.fail ELSE local.fail + 2
        OBVIOUS
    <2>3. CASE Judges(Passes(local.test, local.failed), fail)
        BY <1>1, <2>1, <2>3, SyserrJudges
    <2>4. \/ /\ local.n <= Len(Tests[local.test])
             /\ Call(Tests[local.test][local.n])
             /\ UNCHANGED out
             /\ Go("test", [local EXCEPT !.n = @ + 1,
                                         !.failed = IF result' = -1 THEN @ \cup {local.n} ELSE @])
          \/ Judges(Passes(local.test, local.failed), fail)
        BY <2>1, <2>5, Zenon DEF Syserr, At, Judges
    <2> QED BY <2>2, <2>3, <2>4
<1> QED BY <1>2, <1>3 DEF Syserr

\* When syserr exits, no test has failed that can pass.
LEMMA SyserrEnds ==
    ASSUME SyserrInv
    PROVE  /\ pc # "fault"
           /\ pc = "exit" => (SyserrCan(Volume) => \A n \in DOMAIN out : out[n] \in {Pass, Invalid})
BY DEF SyserrInv, Started
=============================================================================
