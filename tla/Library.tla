------------------------------- MODULE Library -------------------------------
(***************************************************************************)
(* The kernel's library (lib.c) without the screen: memory, strings,       *)
(* numbers and printf.  Memory is a function from addresses to bytes; the  *)
(* copies are made access by access, in the order of the code, because     *)
(* source and destination may overlap.                                     *)
(***************************************************************************)
EXTENDS Integers, Sequences, SequencesExt

Put(memory, at, bytes) ==
    [a \in DOMAIN memory |-> IF a - at + 1 \in DOMAIN bytes THEN bytes[a - at + 1] ELSE memory[a]]

Get(memory, at, n) == [k \in 1 .. n |-> memory[at + k - 1]]

UpTo(n) == [k \in 1 .. n |-> k - 1]

-----------------------------------------------------------------------------
(* Memory *)

\* Mutant: the bytes that remain are counted before those up to the boundary.
UnitsOfAll(dest, n) ==
    LET gap == (4 - (dest % 4)) % 4
        head == IF n < gap THEN n ELSE gap
        dwords == (n - head) \div 4 IN
    [k \in 1 .. head |-> [at |-> k - 1, size |-> 1]]
    \o [k \in 1 .. dwords |-> [at |-> head + 4 * (k - 1), size |-> 4]]
    \o [k \in 1 .. n % 4 |-> [at |-> head + 4 * dwords + k - 1, size |-> 1]]

\* The accesses of memset and memcpy: bytes up to a boundary of four, then
\* dwords, then the bytes that remain of what is left.
Units(dest, n) ==
    LET gap == (4 - (dest % 4)) % 4
        head == IF n < gap THEN n ELSE gap
        dwords == (n - head) \div 4
        tail == (n - head) % 4 IN
    [k \in 1 .. head |-> [at |-> k - 1, size |-> 1]]
    \o [k \in 1 .. dwords |-> [at |-> head + 4 * (k - 1), size |-> 4]]
    \o [k \in 1 .. tail |-> [at |-> head + 4 * dwords + k - 1, size |-> 1]]

Memset(memory, s, c, n) ==
    FoldLeft(LAMBDA m, u : Put(m, s + u.at, [k \in 1 .. u.size |-> c % 256]), memory, Units(s, n))

\* rep stosw and rep stosl.
Stos(memory, s, unit, n) ==
    FoldLeft(LAMBDA m, k : Put(m, s + Len(unit) * k, unit), memory, UpTo(n))

MemsetWord(memory, s, c, n) == Stos(memory, s, <<c % 256, (c \div 256) % 256>>, n)

MemsetDword(memory, s, c, n) ==
    Stos(memory, s, <<c % 256, (c \div 256) % 256, (c \div 65536) % 256, (c \div 16777216) % 256>>, n)

Memcpy(memory, dest, src, n) ==
    FoldLeft(LAMBDA m, u : Put(m, dest + u.at, Get(m, src + u.at, u.size)), memory, Units(dest, n))

\* Byte after byte, in the order of the places.
CopyBytes(memory, dest, src, places) ==
    FoldLeft(LAMBDA m, k : Put(m, dest + k, <<m[src + k]>>), memory, places)

\* rep movsb, from the end when the source lies below.
Memmove(memory, dest, src, n) ==
    CopyBytes(memory, dest, src, IF src >= dest THEN UpTo(n) ELSE Reverse(UpTo(n)))

-----------------------------------------------------------------------------
(* Strings *)

Strlen(memory, s) == Min({n \in 0 .. Max(DOMAIN memory) - s : memory[s + n] = 0})

Strncmp(memory, s1, s2, n) ==
    LET stops == {i \in 0 .. n - 1 : memory[s1 + i] # memory[s2 + i] \/ memory[s1 + i] = 0} IN
    IF stops = {} THEN 0 ELSE memory[s1 + Min(stops)] - memory[s2 + Min(stops)]

Strcpy(memory, dest, src) ==
    LET n == Strlen(memory, src) IN Put(CopyBytes(memory, dest, src, UpTo(n)), dest + n, <<0>>)

\* What the string leaves of n bytes is filled with zeros.
Strncpy(memory, dest, src, n) ==
    LET copied == Min({n, Strlen(memory, src)}) IN
    Stos(CopyBytes(memory, dest, src, UpTo(copied)), dest + copied, <<0>>, n - copied)

Strrev(memory, s) ==
    LET n == Strlen(memory, s) IN
    FoldLeft(LAMBDA m, beg : Put(Put(m, s + n - 1 - beg, <<m[s + beg]>>),
                                 s + beg, <<m[s + n - 1 - beg]>>),
             memory, UpTo(n \div 2))

-----------------------------------------------------------------------------
(* Numbers *)

\* The table lookup: the characters of the digits.
Lookup(digit) == IF digit < 10 THEN 48 + digit ELSE 55 + digit

\* What is left of a number after each place was taken off.
Left(value, radix) ==
    LET left[k \in Nat] == IF k = 0 THEN value ELSE left[k - 1] \div radix IN left

\* A place for zero too; no number has more places than its value and one.
Places(value, radix) ==
    CHOOSE n \in 1 .. value + 1 : /\ Left(value, radix)[n] = 0
                                  /\ \A k \in 1 .. n - 1 : Left(value, radix)[k] # 0

\* Digits from the lowest place up while something is left, reversed in place.
Itoa(value, radix) ==
    LET places == Places(value, radix)
        low_first == [k \in 0 .. places |->
                         IF k = places THEN 0 ELSE Lookup(Left(value, radix)[k] % radix)] IN
    Get(Strrev(low_first, 0), 0, places)

Minus == 45
Percent == 37
Alternate == 35
LetterX == 120
LetterU == 117
LetterD == 100
LetterC == 99
LetterS == 115

Zeros(n) == [k \in 1 .. n |-> Lookup(0)]

\* The text of a conversion; a negative number is negated as an unsigned one.
Converted(letter, alternate, value, Modulus) ==
    CASE letter = LetterX /\ alternate ->
            LET digits == Itoa(value % Modulus, 16) IN Zeros(8 - Len(digits)) \o digits
      [] letter = LetterX /\ ~alternate -> Itoa(value % Modulus, 16)
      [] letter = LetterU -> Itoa(value % Modulus, 10)
      [] letter = LetterD -> IF value < 0 THEN <<Minus>> \o Itoa((-value) % Modulus, 10)
                                          ELSE Itoa(value, 10)
      [] letter = LetterC -> <<value % 256>>

\* One character of the format; text that no case takes is dropped, and only
\* a conversion of an argument moves on in values.
PrintfStep(state, c, values, Modulus) ==
    CASE ~state.percent /\ c = Percent -> [state EXCEPT !.percent = TRUE, !.alternate = FALSE]
      [] ~state.percent /\ c # Percent -> [state EXCEPT !.out = Append(@, c)]
      [] state.percent /\ c = Alternate -> [state EXCEPT !.alternate = TRUE]
      [] state.percent /\ c = Percent -> [state EXCEPT !.percent = FALSE, !.out = Append(@, c)]
      [] state.percent /\ c \in {LetterX, LetterU, LetterD, LetterC, LetterS} ->
            [state EXCEPT !.percent = FALSE, !.next = @ + 1,
                          !.out = @ \o IF c = LetterS THEN values[state.next]
                                       ELSE Converted(c, state.alternate, values[state.next], Modulus)]
      [] OTHER -> [state EXCEPT !.percent = FALSE]

\* printf for a format that does not end inside a conversion; Modulus is 2^32.
Printf(format, values, Modulus) ==
    FoldLeft(LAMBDA state, c : PrintfStep(state, c, values, Modulus),
             [out |-> <<>>, next |-> 1, percent |-> FALSE, alternate |-> FALSE], format).out
=============================================================================
