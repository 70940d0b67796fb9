--------------------------- MODULE LibraryProofs ----------------------------
(***************************************************************************)
(* What programs call does what it promises: the file system, and the      *)
(* functions of lib.c.                                                     *)
(*                                                                         *)
(* Positions stay in their files; files and directories are read in order, *)
(* to their end, whatever the sizes of the reads; and open finds a file by *)
(* its whole name: for every block size, name length, number of            *)
(* descriptors, image and sequence of requests. The loop of read_data is a *)
(* recursive function, and what it computes is shown by induction. The     *)
(* induction rests on the order of the natural numbers being well founded  *)
(* (WFMin), and is over a set H of numbers, so that nothing but sets and   *)
(* functions is a parameter of the lemmas.                                 *)
(*                                                                         *)
(* The functions of lib.c do what their comments say: for memory of any    *)
(* size and content, any addresses, lengths and strings, and, in printf,   *)
(* every number that 32 bits can hold. Library.tla writes the loops as     *)
(* folds. A fold is a recursive function on sets; that the function        *)
(* exists, and what it is, is shown by induction over the length of the    *)
(* sequence, once, in FoldExists. Each loop then has an invariant: memory  *)
(* of which the bytes as far as the loop has come are written (After), the *)
(* digits that were divided off (DigitsOf), the characters exchanged so    *)
(* far (Turned), or the characters of the format that were printed         *)
(* (Printing).                                                             *)
(***************************************************************************)
EXTENDS ProgramPromises, SequenceTheorems, WellFoundedInduction, TLAPS

-----------------------------------------------------------------------------
\* The file system.

\* A read copies at most what is left of the file.
LEMMA CopiesWhatIsLeft ==
    ASSUME NEW entry, entry.length_in_bytes \in Nat,
           NEW offset \in Nat, offset <= entry.length_in_bytes,
           NEW length \in Nat
    PROVE  /\ LengthCopied(entry, offset, length) \in Nat
           /\ offset + LengthCopied(entry, offset, length) <= entry.length_in_bytes
BY DEF LengthCopied

\* The length of an entry is an int32 that is not negative.
LEMMA EntryLengths ==
    ASSUME PositionInFile
    PROVE  \A f \in 1 .. Len(dir_entries) :
             /\ dir_entries[f].length_in_bytes \in Nat
             /\ dir_entries[f].length_in_bytes < HighBit
BY FileSystemAssumption DEF PositionInFile

\* The end of what a descriptor names is a natural number.
LEMMA EndIsNatural ==
    ASSUME PositionInFile, NEW fd \in Fds
    PROVE  EndPosition(fd) \in Nat
BY FileSystemAssumption DEF PositionInFile, EndPosition, Directory

LEMMA InitPosition == Init => PositionInFile
<1> SUFFICES ASSUME Init PROVE PositionInFile
    OBVIOUS
<1>1. \A fd \in Fds : inode[fd] = 0 /\ file_position[fd] = 0
    BY DEF Init
<1>2. Len(dir_entries) \in Nat
    BY FileSystemAssumption DEF Init
<1> QED BY <1>1, <1>2 DEF Init, PositionInFile, EndPosition

\* What a step leaves alone keeps its place.
LEMMA OthersKeepTheirPlace ==
    ASSUME PositionInFile, UNCHANGED dir_entries,
           NEW fd \in Fds, inode'[fd] = inode[fd], file_position'[fd] = file_position[fd]
    PROVE  file_position'[fd] <= EndPosition(fd)'
BY DEF PositionInFile, EndPosition, Directory

LEMMA OpenPosition ==
    ASSUME PositionInFile, NEW name, Open(name)
    PROVE  PositionInFile'
<1>1. CASE \E f \in 1 .. Len(dir_entries), fd \in Fds :
            /\ inode' = [inode EXCEPT ![fd] = f]
            /\ file_position' = [file_position EXCEPT ![fd] = 0]
    <2>1. PICK f \in 1 .. Len(dir_entries), fd \in Fds :
            /\ inode' = [inode EXCEPT ![fd] = f]
            /\ file_position' = [file_position EXCEPT ![fd] = 0]
        BY <1>1
    <2>2. UNCHANGED dir_entries
        BY DEF Open
    <2>3. Len(dir_entries) \in Nat /\ dir_entries[f].length_in_bytes \in Nat
        BY FileSystemAssumption DEF PositionInFile
    <2>4. inode' \in [Fds -> 0 .. Len(dir_entries)'] /\ file_position' \in [Fds -> Nat]
        BY <2>1, <2>2, <2>3 DEF PositionInFile
    <2>5. inode'[fd] = f /\ file_position'[fd] = 0
        BY <2>1 DEF PositionInFile
    <2>6. file_position'[fd] <= EndPosition(fd)'
        BY <2>2, <2>3, <2>5 DEF EndPosition, Directory
    <2>7. ASSUME NEW g \in Fds, g # fd PROVE file_position'[g] <= EndPosition(g)'
        <3>1. inode'[g] = inode[g] /\ file_position'[g] = file_position[g]
            BY <2>1, <2>7 DEF PositionInFile
        <3> QED BY <2>2, <3>1, OthersKeepTheirPlace
    <2> QED BY <2>2, <2>4, <2>6, <2>7 DEF PositionInFile
<1>2. CASE UNCHANGED <<dir_entries, inode, file_position>>
    BY <1>2 DEF PositionInFile, EndPosition, Directory
<1> QED BY <1>1, <1>2 DEF Open

LEMMA ClosePosition ==
    ASSUME PositionInFile, NEW fd \in Fds, Close(fd)
    PROVE  PositionInFile'
<1>1. UNCHANGED dir_entries /\ Len(dir_entries) \in Nat
    BY FileSystemAssumption DEF Close, PositionInFile
<1>2. CASE UNCHANGED <<inode, file_position>>
    BY <1>1, <1>2 DEF PositionInFile, EndPosition, Directory
<1>3. CASE /\ inode' = [inode EXCEPT ![fd] = 0]
           /\ file_position' = [file_position EXCEPT ![fd] = 0]
    <2>1. inode' \in [Fds -> 0 .. Len(dir_entries)'] /\ file_position' \in [Fds -> Nat]
        BY <1>1, <1>3 DEF PositionInFile
    <2>2. file_position'[fd] <= EndPosition(fd)'
        BY <1>3 DEF PositionInFile, EndPosition
    <2>3. ASSUME NEW g \in Fds, g # fd PROVE file_position'[g] <= EndPosition(g)'
        <3>1. inode'[g] = inode[g] /\ file_position'[g] = file_position[g]
            BY <1>3, <2>3 DEF PositionInFile
        <3> QED BY <1>1, <3>1, OthersKeepTheirPlace
    <2> QED BY <1>1, <2>1, <2>2, <2>3 DEF PositionInFile
<1> QED BY <1>2, <1>3 DEF Close

\* A position moved to a place up to the end.
LEMMA MovedPosition ==
    ASSUME PositionInFile, UNCHANGED <<dir_entries, inode>>, NEW fd \in Fds,
           NEW p \in Nat, p <= EndPosition(fd), file_position' = [file_position EXCEPT ![fd] = p]
    PROVE  PositionInFile'
<1>1. file_position' \in [Fds -> Nat] /\ file_position'[fd] = p
    BY DEF PositionInFile
<1>2. EndPosition(fd)' = EndPosition(fd)
    BY DEF EndPosition, Directory
<1>3. ASSUME NEW g \in Fds, g # fd PROVE file_position'[g] <= EndPosition(g)'
    <2>1. inode'[g] = inode[g] /\ file_position'[g] = file_position[g]
        BY <1>3 DEF PositionInFile
    <2> QED BY <2>1, OthersKeepTheirPlace
<1> QED BY <1>1, <1>2, <1>3 DEF PositionInFile

\* read_data is asked for a natural number of bytes, that of read unless negative.
LEMMA SizeAsked ==
    ASSUME NEW fd, NEW nbytes \in Nat \cup Requests, FileRead(fd, nbytes)
    PROVE  \E length \in Nat : Delivers(fd, length) /\ (nbytes \in Nat => length = nbytes)
<1>1. Unsigned(nbytes) \in Nat /\ (nbytes \in Nat => Unsigned(nbytes) = nbytes)
    BY FileSystemAssumption DEF Unsigned
<1> QED BY <1>1 DEF FileRead

LEMMA FileReadPosition ==
    ASSUME PositionInFile, NEW fd \in Fds, NEW nbytes \in Nat \cup Requests, FileRead(fd, nbytes)
    PROVE  PositionInFile'
<1>0. PICK length \in Nat : Delivers(fd, length)
    BY SizeAsked
<1> DEFINE entry == dir_entries[inode[fd]]
           offset == file_position[fd]
           n == LengthCopied(entry, offset, length)
<1>1. /\ UNCHANGED <<dir_entries, inode>>
      /\ file_position' = [file_position EXCEPT ![fd] = offset + n]
    BY <1>0 DEF Delivers, PositionInFile
<1>2. inode[fd] \in 1 .. Len(dir_entries) /\ entry.length_in_bytes \in Nat
    BY <1>0, FileSystemAssumption DEF Delivers, Regular, PositionInFile
<1>3. EndPosition(fd) = entry.length_in_bytes
    BY <1>0, <1>2 DEF Delivers, Regular, EndPosition, Directory
<1>4. offset \in Nat /\ offset <= entry.length_in_bytes
    BY <1>3 DEF PositionInFile
<1>5. n \in Nat /\ offset + n <= entry.length_in_bytes
    BY <1>2, <1>4, CopiesWhatIsLeft
<1> HIDE DEF n
<1>6. offset + n \in Nat /\ offset + n <= EndPosition(fd)
    BY <1>3, <1>4, <1>5
<1> QED BY <1>1, <1>6, MovedPosition

\* A negative size leads back into the file, or ends the program.
LEMMA ReadBackPosition ==
    ASSUME PositionInFile, NEW fd \in Fds, NEW nbytes \in Requests, ReadBack(fd, nbytes)
    PROVE  PositionInFile'
<1>1. /\ file_position[fd] \in Nat /\ file_position[fd] <= EndPosition(fd)
      /\ EndPosition(fd) \in Nat
    BY EndIsNatural DEF PositionInFile
<1>2. file_position[fd] < HighBit
    <2>1. inode[fd] \in 1 .. Len(dir_entries)
        BY FileSystemAssumption DEF ReadBack, Wraps, Regular, PositionInFile
    <2>2. PICK l \in Nat : l = dir_entries[inode[fd]].length_in_bytes /\ l < HighBit
        BY <2>1, EntryLengths
    <2>3. file_position[fd] < l
        BY <2>2 DEF ReadBack, Wraps
    <2>4. HighBit \in Nat
        BY FileSystemAssumption
    <2> QED BY <1>1, <2>2, <2>3, <2>4
<1>3. PICK p \in Nat : p = file_position[fd] + nbytes /\ p <= EndPosition(fd)
    BY <1>1, <1>2, FileSystemAssumption DEF ReadBack, Wraps, Unsigned
<1>4. UNCHANGED <<dir_entries, inode>> /\ file_position' = [file_position EXCEPT ![fd] = p]
    BY <1>3 DEF ReadBack, PositionInFile
<1> QED BY <1>3, <1>4, MovedPosition

LEMMA ClearedPosition ==
    ASSUME PositionInFile, ClearTable
    PROVE  PositionInFile'
<1>1. Len(dir_entries) \in Nat
    BY FileSystemAssumption DEF PositionInFile
<1>2. \A fd \in Fds : inode'[fd] = 0 /\ file_position'[fd] = 0
    BY DEF ClearTable
<1> QED BY <1>1, <1>2 DEF ClearTable, PositionInFile, EndPosition

LEMMA DirReadPosition ==
    ASSUME PositionInFile, NEW fd \in Fds, DirRead(fd)
    PROVE  PositionInFile'
<1>1. UNCHANGED <<dir_entries, inode>> /\ EndPosition(fd) = Len(dir_entries)
    BY DEF DirRead, Directory, EndPosition
<1>2. EndPosition(fd) \in Nat /\ file_position[fd] \in Nat
    BY EndIsNatural DEF PositionInFile
<1>3. CASE Listed(fd)
    <2>1. /\ file_position' = [file_position EXCEPT ![fd] = file_position[fd] + 1]
          /\ file_position[fd] < Len(dir_entries)
        BY <1>3 DEF Listed
    <2>2. file_position[fd] + 1 \in Nat /\ file_position[fd] + 1 <= EndPosition(fd)
        BY <1>1, <1>2, <2>1
    <2> QED BY <1>1, <2>1, <2>2, MovedPosition
<1>4. CASE file_position' = [file_position EXCEPT ![fd] = 0]
    <2>1. 0 <= EndPosition(fd)
        BY <1>2
    <2> QED BY <1>1, <1>4, <2>1, MovedPosition
<1> QED BY <1>3, <1>4 DEF DirRead

LEMMA NextPosition == PositionInFile /\ [Next]_vars => PositionInFile'
<1> SUFFICES ASSUME PositionInFile, [Next]_vars PROVE PositionInFile'
    OBVIOUS
<1>1. ASSUME NEW name \in Queries, Open(name) PROVE PositionInFile'
    BY <1>1, OpenPosition
<1>2. ASSUME NEW fd \in Fds, Close(fd) PROVE PositionInFile'
    BY <1>2, ClosePosition
<1>3. ASSUME NEW fd \in Fds, NEW nbytes \in Requests, FileRead(fd, nbytes) PROVE PositionInFile'
    BY <1>3, FileReadPosition
<1>4. ASSUME NEW fd \in Fds, NEW nbytes \in Requests, ReadBack(fd, nbytes) PROVE PositionInFile'
    BY <1>4, ReadBackPosition
<1>5. ASSUME NEW fd \in Fds, NEW nbytes \in Requests, ReadFaults(fd, nbytes)
      PROVE  PositionInFile'
    BY <1>5, ClearedPosition DEF ReadFaults
<1>6. ASSUME NEW fd \in Fds, DirRead(fd) PROVE PositionInFile'
    BY <1>6, DirReadPosition
<1>7. CASE UNCHANGED <<dir_entries, inode, file_position>>
    BY <1>7 DEF PositionInFile, EndPosition, Directory
<1> QED BY <1>1, <1>2, <1>3, <1>4, <1>5, <1>6, <1>7 DEF Next, ReadRefused, vars

\* However programs open, read and close, the position of a descriptor stays
\* inside its file or directory, and read_data never subtracts below 0.
THEOREM PositionsStayInFile == Spec => []PositionInFile
BY InitPosition, NextPosition, PTL DEF Spec

-----------------------------------------------------------------------------
(* Natural numbers: the least of a set, for what holds of every number, and *)
(* the quotient and rest that say where in which block a byte lies.         *)

LEMMA LeastNatural ==
    ASSUME NEW T, T \subseteq Nat, T # {}
    PROVE  \E n \in T : \A m \in T : n <= m
<1>1. IsWellFoundedOn({ss \in Nat \X Nat : ss[1] < ss[2]}, Nat)
    BY NatLessThanWellFounded DEF OpToRel
<1>2. PICK n \in T : \A m \in T : ~(<<m, n>> \in {ss \in Nat \X Nat : ss[1] < ss[2]})
    BY <1>1, WFMin
<1>3. ASSUME NEW m \in T PROVE n <= m
    <2>1. m \in Nat /\ n \in Nat /\ <<m, n>> \in Nat \X Nat
        OBVIOUS
    <2>2. ~(m < n)
        BY <1>2, <2>1
    <2> QED BY <2>1, <2>2
<1> QED BY <1>3

\* What holds of 0, and of each number when it holds of the one before, holds
\* of all: H is the set of the numbers it holds of.
LEMMA Induction ==
    ASSUME NEW H, 0 \in H, \A n \in Nat : n \in H => n + 1 \in H
    PROVE  Nat \subseteq H
<1> SUFFICES ASSUME Nat \ H # {} PROVE FALSE
    OBVIOUS
<1>1. PICK n \in Nat \ H : \A m \in Nat \ H : n <= m
    BY LeastNatural
<1>2. n - 1 \in Nat /\ n - 1 + 1 = n
    BY <1>1
<1>3. n - 1 \in H
    BY <1>1, <1>2
<1> QED BY <1>2, <1>3

LEMMA Products ==
    ASSUME NEW b \in Nat, NEW q \in Int, NEW d \in Int, d < q
    PROVE  d * b + b <= q * b
<1>1. PICK k \in Nat : q = d + 1 + k
    <2>1. q - d - 1 \in Nat /\ q = d + 1 + (q - d - 1)
        OBVIOUS
    <2> QED BY <2>1
<1>2. q * b = d * b + b + k * b
    BY <1>1
<1>3. k * b >= 0 /\ k * b \in Int /\ d * b \in Int /\ q * b \in Int
    <2>1. k * b >= 0
        OBVIOUS
    <2> QED BY <2>1
<1> QED BY <1>2, <1>3

LEMMA QuotientAndRest ==
    ASSUME NEW b \in Nat \ {0}, NEW n \in Nat
    PROVE  \E d \in Nat, m \in 0 .. b - 1 : d = n \div b /\ m = n % b /\ n = d * b + m
<1>1. PICK d \in Int : d = n \div b
    OBVIOUS
<1>2. PICK m \in Int : m = n % b
    OBVIOUS
<1>3. n = b * d + m
    BY <1>1, <1>2
<1>4. m \in 0 .. b - 1
    BY <1>2
<1>5. d >= 0
    BY <1>1
<1>6. b * d = d * b
    OBVIOUS
<1>7. n = d * b + m
    BY <1>3, <1>6
<1>8. d \in Nat
    BY <1>5
<1> QED BY <1>1, <1>2, <1>4, <1>7, <1>8, Zenon

LEMMA Divided ==
    ASSUME NEW b \in Nat \ {0}, NEW q \in Nat, NEW r \in 0 .. b - 1
    PROVE  (q * b + r) \div b = q /\ (q * b + r) % b = r
<1>1. PICK n \in Nat : n = q * b + r
    OBVIOUS
<1>2. PICK d \in Nat, m \in 0 .. b - 1 : d = n \div b /\ m = n % b /\ n = d * b + m
    BY QuotientAndRest
<1>3. PICK x \in Int, y \in Int : x = d * b /\ y = q * b
    OBVIOUS
<1>4. (d < q => x + b <= y) /\ (q < d => y + b <= x)
    BY <1>3, Products
<1>5. d = q
    BY <1>1, <1>2, <1>3, <1>4
<1>6. m = r
    BY <1>1, <1>2, <1>3, <1>5
<1> QED BY <1>1, <1>2, <1>5, <1>6

-----------------------------------------------------------------------------
(* The loop of read_data *)

\* The function of the iterations is there: its values up to m, and then all.
LEMMA LoopRuns ==
    ASSUME NEW entry, NEW offset, NEW n
    PROVE  /\ Copied(entry, offset, n)[0] = [left |-> n, buf |-> <<>>]
           /\ \A i \in Nat \ {0} :
                Copied(entry, offset, n)[i] =
                    CopyBlock(entry, offset, Copied(entry, offset, n)[i - 1],
                              offset \div BlockSize + i - 1)
<1> DEFINE LoopValue(g, i) == IF i = 0 THEN [left |-> n, buf |-> <<>>]
                              ELSE CopyBlock(entry, offset, g[i - 1], offset \div BlockSize + i - 1)
           LoopTo(g, m) == g = [i \in 0 .. m |-> LoopValue(g, i)]
           Part(m) == CHOOSE g : LoopTo(g, m)
           Whole == [i \in Nat |-> Part(i)[i]]
<1>1. \A m \in Nat : \E g : LoopTo(g, m)
    <2> DEFINE H == {m \in Nat : \E g : LoopTo(g, m)}
    <2>1. 0 \in H
        <3>1. LoopTo([i \in 0 .. 0 |-> LoopValue(<<>>, i)], 0)
            OBVIOUS
        <3> QED BY <3>1
    <2>2. ASSUME NEW m \in Nat, m \in H PROVE m + 1 \in H
        <3>1. PICK g : LoopTo(g, m)
            BY <2>2
        <3> DEFINE h == [i \in 0 .. m + 1 |-> LoopValue(g, i)]
        <3> HIDE DEF LoopValue
        <3>2. \A i \in 0 .. m : g[i] = LoopValue(g, i)
            BY <3>1
        <3>3. \A i \in 0 .. m : i \in 0 .. m + 1 /\ h[i] = g[i]
            BY <3>2
        <3> HIDE DEF h
        <3>4. ASSUME NEW i \in 0 .. m + 1 PROVE LoopValue(g, i) = LoopValue(h, i)
            <4>1. i # 0 => i - 1 \in 0 .. m
                OBVIOUS
            <4>2. i # 0 => h[i - 1] = g[i - 1]
                BY <3>3, <4>1
            <4> QED BY <4>2 DEF LoopValue
        <3>5. LoopTo(h, m + 1)
            BY <3>4 DEF h
        <3> QED BY <3>5
    <2> HIDE DEF H
    <2>3. Nat \subseteq H
        BY <2>1, <2>2, Induction
    <2> QED BY <2>3 DEF H
<1>2. \A m \in Nat : LoopTo(Part(m), m)
    BY <1>1
<1>3. ASSUME NEW m \in Nat, NEW k \in Nat, m <= k
      PROVE  \A i \in 0 .. m : Part(m)[i] = Part(k)[i]
    <2> DEFINE H == {i \in Nat : i <= m => Part(m)[i] = Part(k)[i]}
    <2>0. LoopTo(Part(m), m) /\ LoopTo(Part(k), k)
        BY <1>2
    <2> HIDE DEF Part
    <2>1. 0 \in H
        BY <2>0
    <2>2. ASSUME NEW i \in Nat, i \in H PROVE i + 1 \in H
        BY <1>3, <2>0, <2>2
    <2> HIDE DEF H
    <2>3. Nat \subseteq H
        BY <2>1, <2>2, Induction
    <2> QED BY <2>3 DEF H
<1>4. Whole = [i \in Nat |-> LoopValue(Whole, i)]
    <2> HIDE DEF Part
    <2>1. ASSUME NEW i \in Nat PROVE Whole[i] = LoopValue(Whole, i)
        <3>1. Part(i)[i] = LoopValue(Part(i), i)
            BY <1>2
        <3>2. i # 0 => Part(i)[i - 1] = Part(i - 1)[i - 1] /\ i - 1 \in Nat
            BY <1>3
        <3> QED BY <3>1, <3>2
    <2> QED BY <2>1
<1> HIDE DEF Whole
<1>5. \E f : f = [i \in Nat |-> LoopValue(f, i)]
    BY <1>4
<1>6. Copied(entry, offset, n) = [i \in Nat |-> LoopValue(Copied(entry, offset, n), i)]
    BY <1>5 DEF Copied
<1> QED BY <1>6

\* Byte k of a file, from 0, and the n from there on.
Byte(entry, k) == <<entry.data_block_num[k \div BlockSize], k % BlockSize>>
Bytes(entry, k, n) == [i \in 1 .. n |-> Byte(entry, k + i - 1)]
AllBytes(entry) == {Byte(entry, k) : k \in Nat}

LEMMA BytesProperties ==
    ASSUME NEW entry, NEW k \in Nat, NEW n \in Nat
    PROVE  /\ Bytes(entry, k, n) \in Seq(AllBytes(entry))
           /\ Len(Bytes(entry, k, n)) = n
           /\ \A i \in 1 .. n : Bytes(entry, k, n)[i] = Byte(entry, k + i - 1)
<1>1. \A i \in 1 .. n : k + i - 1 \in Nat
    OBVIOUS
<1>2. \A i \in 1 .. n : Byte(entry, k + i - 1) \in AllBytes(entry)
    BY <1>1 DEF AllBytes
<1> QED BY <1>2 DEF Bytes

LEMMA NoBytes ==
    ASSUME NEW entry, NEW k \in Nat
    PROVE  Bytes(entry, k, 0) = <<>>
<1>1. Bytes(entry, k, 0) \in Seq(AllBytes(entry)) /\ Len(Bytes(entry, k, 0)) = 0
    BY BytesProperties
<1> QED BY <1>1, EmptySeq

LEMMA BytesTogether ==
    ASSUME NEW entry, NEW k \in Nat, NEW n \in Nat, NEW m \in Nat
    PROVE  Bytes(entry, k, n) \o Bytes(entry, k + n, m) = Bytes(entry, k, n + m)
<1> DEFINE s == Bytes(entry, k, n)
           t == Bytes(entry, k + n, m)
           u == Bytes(entry, k, n + m)
<1>0. k + n \in Nat /\ n + m \in Nat
    OBVIOUS
<1>1. /\ s \in Seq(AllBytes(entry)) /\ Len(s) = n
      /\ \A i \in 1 .. n : s[i] = Byte(entry, k + i - 1)
    BY BytesProperties
<1>2. /\ t \in Seq(AllBytes(entry)) /\ Len(t) = m
      /\ \A i \in 1 .. m : t[i] = Byte(entry, k + n + i - 1)
    BY <1>0, BytesProperties
<1>3. /\ u \in Seq(AllBytes(entry)) /\ Len(u) = n + m
      /\ \A i \in 1 .. n + m : u[i] = Byte(entry, k + i - 1)
    BY <1>0, BytesProperties
<1> HIDE DEF s, t, u
<1>4. /\ s \o t \in Seq(AllBytes(entry)) /\ Len(s \o t) = n + m
      /\ \A i \in 1 .. n + m : (s \o t)[i] = IF i <= n THEN s[i] ELSE t[i - n]
    BY <1>1, <1>2, ConcatProperties
<1>5. ASSUME NEW i \in 1 .. n + m PROVE (s \o t)[i] = u[i]
    <2>1. CASE i <= n
        BY <1>1, <1>3, <1>4, <2>1
    <2>2. CASE i > n
        <3>1. PICK h \in 1 .. m : h = i - n /\ k + n + h - 1 = k + i - 1
            <4>1. i - n \in 1 .. m /\ k + n + (i - n) - 1 = k + i - 1
                BY <2>2
            <4> QED BY <4>1
        <3>2. (s \o t)[i] = t[h]
            BY <1>4, <2>2, <3>1
        <3>3. t[h] = Byte(entry, k + n + h - 1)
            BY <1>2
        <3>4. u[i] = Byte(entry, k + i - 1)
            BY <1>3
        <3> QED BY <3>1, <3>2, <3>3, <3>4
    <2>3. i <= n \/ i > n
        OBVIOUS
    <2> QED BY <2>1, <2>2, <2>3, Zenon
<1>6. s \o t = u
    BY <1>3, <1>4, <1>5, SeqEqual
<1> QED BY <1>6 DEF s, t, u

\* An iteration that begins at its block, or after all was copied, ends at the
\* next block or has copied all.
Remaining(offset, j) == IF j = offset \div BlockSize THEN offset % BlockSize ELSE 0

BlockEnds(entry, offset, n, c, j) ==
    \E d \in 0 .. n :
       /\ CopyBlock(entry, offset, [left |-> n - c, buf |-> Bytes(entry, offset, c)], j)
            = [left |-> n - d, buf |-> Bytes(entry, offset, d)]
       /\ d = n \/ offset + d = (j + 1) * BlockSize

LEMMA BlockCopied ==
    ASSUME NEW entry, NEW offset \in Nat, NEW n \in Nat, NEW c \in 0 .. n, NEW j \in Nat,
           NEW rest \in 0 .. BlockSize - 1,
           rest = Remaining(offset, j),
           c = n \/ offset + c = j * BlockSize + rest
    PROVE  BlockEnds(entry, offset, n, c, j)
<1> DEFINE m == IF n - c + rest > BlockSize THEN BlockSize - rest ELSE n - c
<1>1. BlockSize \in Nat \ {0}
    BY FileSystemAssumption
<1>2. m \in 0 .. n - c /\ c + m \in 0 .. n /\ n - c - m = n - (c + m)
    BY <1>1
<1>3. c = n => m = 0
    BY <1>1
<1>4. m <= BlockSize - rest
    BY <1>1
<1>5. c + m = n \/ m = BlockSize - rest
    BY <1>1
<1>6. CopyBlock(entry, offset, [left |-> n - c, buf |-> Bytes(entry, offset, c)], j)
        = [left |-> n - c - m,
           buf |-> Bytes(entry, offset, c)
                     \o [k \in 1 .. m |-> <<entry.data_block_num[j], rest + k - 1>>]]
    BY DEF CopyBlock, Remaining
<1> HIDE DEF m
<1>7. [k \in 1 .. m |-> <<entry.data_block_num[j], rest + k - 1>>] = Bytes(entry, offset + c, m)
    <2>1. ASSUME NEW k \in 1 .. m
          PROVE  Byte(entry, offset + c + k - 1) = <<entry.data_block_num[j], rest + k - 1>>
        <3>1. c # n
            BY <1>2, <1>3
        <3>2. PICK r \in 0 .. BlockSize - 1 : r = rest + k - 1
            BY <1>1, <1>2, <1>4
        <3>3. PICK x \in Int : x = j * BlockSize
            BY <1>1
        <3>4. offset + c + k - 1 = x + r
            BY <3>1, <3>2, <3>3
        <3>5. (x + r) \div BlockSize = j /\ (x + r) % BlockSize = r
            BY <1>1, <3>3, Divided
        <3> QED BY <3>2, <3>4, <3>5 DEF Byte
    <2> QED BY <2>1 DEF Bytes
<1>8. Bytes(entry, offset, c) \o Bytes(entry, offset + c, m) = Bytes(entry, offset, c + m)
    <2>1. c \in Nat /\ m \in Nat
        BY <1>2
    <2> QED BY <2>1, BytesTogether, ZenonT(40)
<1>9. c + m = n \/ offset + (c + m) = (j + 1) * BlockSize
    <2>1. PICK x \in Int : x = j * BlockSize /\ (j + 1) * BlockSize = x + BlockSize
        BY <1>1
    <2> QED BY <1>1, <1>2, <1>5, <2>1
<1> QED BY <1>2, <1>6, <1>7, <1>8, <1>9 DEF BlockEnds

\* What i iterations have copied.
LoopEnds(entry, offset, n, i) ==
    \E c \in 0 .. n :
       /\ Copied(entry, offset, n)[i] = [left |-> n - c, buf |-> Bytes(entry, offset, c)]
       /\ c = n \/ offset + c = (offset \div BlockSize + i) * BlockSize

LEMMA LoopCopies ==
    ASSUME NEW entry, NEW offset \in Nat, NEW n \in Nat, NEW i \in Nat \ {0}
    PROVE  LoopEnds(entry, offset, n, i)
<1>1. PICK q \in Nat, r \in 0 .. BlockSize - 1 :
        q = offset \div BlockSize /\ r = offset % BlockSize /\ offset = q * BlockSize + r
    BY FileSystemAssumption, QuotientAndRest
<1>0. /\ Copied(entry, offset, n)[0] = [left |-> n, buf |-> <<>>]
      /\ \A k \in Nat \ {0} :
           Copied(entry, offset, n)[k]
             = CopyBlock(entry, offset, Copied(entry, offset, n)[k - 1], q + k - 1)
    BY <1>1, LoopRuns
<1> DEFINE After(k) ==
              \E c \in 0 .. n :
                 /\ Copied(entry, offset, n)[k] = [left |-> n - c, buf |-> Bytes(entry, offset, c)]
                 /\ c = n \/ offset + c = (q + k) * BlockSize
           H == {k \in Nat : After(k + 1)}
<1>2. 0 \in H
    <2>1. [left |-> n, buf |-> <<>>] = [left |-> n - 0, buf |-> Bytes(entry, offset, 0)]
        BY NoBytes
    <2>2. Copied(entry, offset, n)[1]
            = CopyBlock(entry, offset, [left |-> n - 0, buf |-> Bytes(entry, offset, 0)], q)
        <3>1. Copied(entry, offset, n)[1]
                = CopyBlock(entry, offset, Copied(entry, offset, n)[1 - 1], q + 1 - 1)
            BY <1>0
        <3>2. q + 1 - 1 = q /\ 1 - 1 = 0
            OBVIOUS
        <3> QED BY <1>0, <2>1, <3>1, <3>2
    <2>3. BlockEnds(entry, offset, n, 0, q)
        <3>1. 0 \in 0 .. n /\ (0 = n \/ offset + 0 = q * BlockSize + r)
            BY <1>1
        <3>2. r = Remaining(offset, q)
            BY <1>1 DEF Remaining
        <3> QED BY <3>1, <3>2, BlockCopied, Zenon
    <2>4. After(0 + 1)
        BY <2>2, <2>3 DEF BlockEnds
    <2> HIDE DEF After
    <2> QED BY <2>4
<1>3. ASSUME NEW k \in Nat, k \in H PROVE k + 1 \in H
    <2>1. PICK c \in 0 .. n :
            /\ Copied(entry, offset, n)[k + 1] = [left |-> n - c, buf |-> Bytes(entry, offset, c)]
            /\ c = n \/ offset + c = (q + (k + 1)) * BlockSize
        BY <1>3
    <2>2. Copied(entry, offset, n)[k + 1 + 1]
            = CopyBlock(entry, offset, [left |-> n - c, buf |-> Bytes(entry, offset, c)], q + (k + 1))
        <3>1. /\ k + 1 + 1 \in Nat \ {0} /\ k + 1 + 1 - 1 = k + 1
              /\ q + (k + 1 + 1) - 1 = q + (k + 1)
            OBVIOUS
        <3>2. Copied(entry, offset, n)[k + 1 + 1]
                = CopyBlock(entry, offset, Copied(entry, offset, n)[k + 1 + 1 - 1], q + (k + 1 + 1) - 1)
            BY <1>0, <3>1, SMTT(30)
        <3> QED BY <2>1, <3>1, <3>2
    <2>3. PICK j \in Nat : j = q + (k + 1) /\ j # q /\ j + 1 = q + (k + 1 + 1)
        <3>1. q + (k + 1) \in Nat /\ q + (k + 1) # q /\ q + (k + 1) + 1 = q + (k + 1 + 1)
            OBVIOUS
        <3> QED BY <3>1
    <2>4. BlockEnds(entry, offset, n, c, j)
        <3>1. PICK x \in Int : x = j * BlockSize
            BY FileSystemAssumption
        <3>2. 0 \in 0 .. BlockSize - 1 /\ (c = n \/ offset + c = j * BlockSize + 0)
            BY FileSystemAssumption, <2>1, <2>3, <3>1
        <3>3. 0 = Remaining(offset, j)
            BY <1>1, <2>3 DEF Remaining
        <3> QED BY <3>2, <3>3, BlockCopied, Zenon
    <2>5. After(k + 1 + 1)
        BY <2>2, <2>3, <2>4 DEF BlockEnds
    <2> HIDE DEF After
    <2> QED BY <2>5
<1> HIDE DEF H
<1>4. Nat \subseteq H
    BY <1>2, <1>3, Induction
<1>5. i - 1 \in H /\ i - 1 + 1 = i
    BY <1>4
<1>6. After(i)
    <2> HIDE DEF After
    <2> QED BY <1>5 DEF H
<1> QED BY <1>1, <1>6 DEF LoopEnds
\* read_data delivers the bytes from offset on: the iterations it makes are enough.
LEMMA ReadDataCopies ==
    ASSUME NEW entry, entry.length_in_bytes \in Nat, NEW offset \in Nat, NEW length \in Nat
    PROVE  ReadData(entry, offset, length)
             = Bytes(entry, offset, LengthCopied(entry, offset, length))
<1>1. PICK n \in Nat : n = LengthCopied(entry, offset, length)
    BY DEF LengthCopied
<1>2. CASE n = 0
    BY <1>1, <1>2, NoBytes DEF ReadData
<1>3. CASE n # 0
    <2>0. BlockSize \in Nat \ {0}
        BY FileSystemAssumption
    <2>1. PICK q \in Nat, r \in 0 .. BlockSize - 1 :
            q = offset \div BlockSize /\ r = offset % BlockSize /\ offset = q * BlockSize + r
        BY <2>0, QuotientAndRest
    <2>2. PICK d \in Nat, m \in 0 .. BlockSize - 1 :
            /\ d = (offset + n) \div BlockSize /\ m = (offset + n) % BlockSize
            /\ offset + n = d * BlockSize + m
        <3>1. offset + n \in Nat
            OBVIOUS
        <3> QED BY <2>0, <3>1, QuotientAndRest
    <2>3. PICK x \in Int, y \in Int : x = d * BlockSize /\ y = q * BlockSize
        BY <2>0
    <2>4. (d + 1) * BlockSize = x + BlockSize
        BY <2>0, <2>3
    <2>5. d >= q
        <3>1. d < q => x + BlockSize <= y
            BY <2>0, <2>3, Products
        <3> QED BY <2>0, <2>1, <2>2, <2>3, <3>1
    <2>6. PICK i \in Nat \ {0} : i = d - q + 1 /\ q + i = d + 1
        <3>1. d - q + 1 \in Nat \ {0} /\ q + (d - q + 1) = d + 1
            BY <2>5
        <3> QED BY <3>1
    <2>7. PICK c \in 0 .. n :
            /\ Copied(entry, offset, n)[i] = [left |-> n - c, buf |-> Bytes(entry, offset, c)]
            /\ c = n \/ offset + c = (offset \div BlockSize + i) * BlockSize
        <3>1. LoopEnds(entry, offset, n, i)
            BY LoopCopies
        <3> QED BY <3>1 DEF LoopEnds
    <2>8. c = n
        BY <2>0, <2>1, <2>2, <2>3, <2>4, <2>6, <2>7
    <2>9. ReadData(entry, offset, length) = Copied(entry, offset, n)[i].buf
        BY <1>1, <1>3, <2>1, <2>2, <2>6 DEF ReadData
    <2> QED BY <1>1, <2>7, <2>8, <2>9
<1> QED BY <1>2, <1>3

\* A file is its bytes from 0 on, and what was read is a beginning of it.
LEMMA BeginningOfFile ==
    ASSUME NEW entry, entry.length_in_bytes \in Nat, NEW p \in 0 .. entry.length_in_bytes
    PROVE  SubSeq(Content(entry), 1, p) = Bytes(entry, 0, p)
<1>1. PICK l \in Nat : l = entry.length_in_bytes
    OBVIOUS
<1>2. Content(entry) = [k \in 1 .. l |-> Byte(entry, k - 1)]
    BY <1>1 DEF Content, Byte
<1>3. SubSeq(Content(entry), 1, p) = [k \in 1 .. p |-> Content(entry)[k]]
    <2>1. Content(entry) \in Seq(AllBytes(entry)) /\ Len(Content(entry)) = l
        <3>1. \A k \in 1 .. l : k - 1 \in Nat
            OBVIOUS
        <3>2. \A k \in 1 .. l : Byte(entry, k - 1) \in AllBytes(entry)
            BY <3>1 DEF AllBytes
        <3> QED BY <1>2, <3>2
    <2> QED BY <1>1, <2>1
<1>4. \A k \in 1 .. p : k \in 1 .. l /\ 0 + k - 1 = k - 1
    BY <1>1
<1>5. \A k \in 1 .. p : Content(entry)[k] = Byte(entry, 0 + k - 1)
    BY <1>2, <1>4
<1> QED BY <1>3, <1>5 DEF Bytes

-----------------------------------------------------------------------------
(* Files and directories are read in order *)

\* What is read of an entry up to a position.
Beginning(e, p) ==
    IF e # 0 /\ dir_entries[e].file_type = "file"
      THEN SubSeq(Content(dir_entries[e]), 1, p) ELSE SubSeq(Names, 1, p)

ReadInv ==
    /\ PositionInFile
    /\ got = [fd \in Fds |-> got[fd]]
    /\ \A fd \in Fds : got[fd] = Beginning(inode[fd], file_position[fd])

LEMMA NamesInOrder ==
    ASSUME PositionInFile
    PROVE  /\ Names \in Seq(CStrings) /\ Len(Names) = Len(dir_entries) /\ Len(Names) \in Nat
           /\ \A f \in 1 .. Len(Names) : Len(Names[f]) \in 1 .. NameLen
           /\ \A p \in 0 .. Len(Names) : SubSeq(Names, 1, p) = [k \in 1 .. p |-> Names[k]]
<1>1. PICK l \in Nat : l = Len(dir_entries)
    BY FileSystemAssumption DEF PositionInFile
<1>2. \A f \in 1 .. l : dir_entries[f].name \in CStrings /\ Len(dir_entries[f].name) \in 1 .. NameLen
    BY <1>1, FileSystemAssumption DEF PositionInFile
<1>3. Names = [f \in 1 .. l |-> dir_entries[f].name]
    BY <1>1 DEF Names
<1>4. Names \in Seq(CStrings) /\ Len(Names) = l
    BY <1>2, <1>3
<1>5. \A p \in 0 .. l : SubSeq(Names, 1, p) = [k \in 1 .. p |-> Names[k]]
    BY <1>4
<1> QED BY <1>1, <1>2, <1>3, <1>4, <1>5

LEMMA OneMoreName ==
    ASSUME PositionInFile, NEW p \in Nat, p < Len(Names)
    PROVE  Append(SubSeq(Names, 1, p), Names[p + 1]) = SubSeq(Names, 1, p + 1)
<1>1. Names \in Seq(CStrings) /\ Len(Names) \in Nat
    BY NamesInOrder
<1>2. p \in 0 .. Len(Names) /\ p + 1 \in 0 .. Len(Names) /\ p + 1 \in 1 .. Len(Names)
    BY <1>1
<1>3. /\ SubSeq(Names, 1, p) = [k \in 1 .. p |-> Names[k]]
      /\ SubSeq(Names, 1, p + 1) = [k \in 1 .. p + 1 |-> Names[k]]
    BY <1>2, NamesInOrder
<1>4. \A k \in 1 .. p + 1 : Names[k] \in CStrings
    BY <1>1, <1>2
<1>5. SubSeq(Names, 1, p) \in Seq(CStrings) /\ Len(SubSeq(Names, 1, p)) = p
    BY <1>3, <1>4
<1>6. SubSeq(Names, 1, p + 1) \in Seq(CStrings) /\ Len(SubSeq(Names, 1, p + 1)) = p + 1
    BY <1>3, <1>4
<1>7. /\ Append(SubSeq(Names, 1, p), Names[p + 1]) \in Seq(CStrings)
      /\ Len(Append(SubSeq(Names, 1, p), Names[p + 1])) = p + 1
      /\ \A k \in 1 .. p : Append(SubSeq(Names, 1, p), Names[p + 1])[k] = SubSeq(Names, 1, p)[k]
      /\ Append(SubSeq(Names, 1, p), Names[p + 1])[p + 1] = Names[p + 1]
    BY <1>4, <1>5
<1>8. ASSUME NEW k \in 1 .. p + 1
      PROVE  Append(SubSeq(Names, 1, p), Names[p + 1])[k] = SubSeq(Names, 1, p + 1)[k]
    <2>1. CASE k = p + 1
        BY <1>3, <1>7, <2>1
    <2>2. CASE k # p + 1
        <3>1. k \in 1 .. p
            BY <2>2
        <3> QED BY <1>3, <1>7, <3>1
    <2> QED BY <2>1, <2>2
<1> QED BY <1>6, <1>7, <1>8, SeqEqual

\* An entry read further adds to what was read of it.
LEMMA MoreOfFile ==
    ASSUME NEW entry, entry.length_in_bytes \in Nat,
           NEW p \in 0 .. entry.length_in_bytes, NEW length \in Nat
    PROVE  SubSeq(Content(entry), 1, p) \o ReadData(entry, p, length)
             = SubSeq(Content(entry), 1, p + LengthCopied(entry, p, length))
<1>1. PICK n \in Nat : /\ n = LengthCopied(entry, p, length)
                       /\ p + n <= entry.length_in_bytes
    BY DEF LengthCopied
<1>2. p + n \in 0 .. entry.length_in_bytes /\ p \in Nat /\ 0 + p = p
    BY <1>1
<1>3. /\ SubSeq(Content(entry), 1, p) = Bytes(entry, 0, p)
      /\ SubSeq(Content(entry), 1, p + n) = Bytes(entry, 0, p + n)
    BY <1>2, BeginningOfFile
<1>4. ReadData(entry, p, length) = Bytes(entry, p, n)
    BY <1>1, <1>2, ReadDataCopies
<1>5. Bytes(entry, 0, p) \o Bytes(entry, 0 + p, n) = Bytes(entry, 0, p + n)
    <2>1. 0 \in Nat /\ p \in Nat /\ n \in Nat
        BY <1>2
    <2> QED BY <2>1, BytesTogether, ZenonT(40)
<1> QED BY <1>1, <1>2, <1>3, <1>4, <1>5

\* A beginning of what was read of an entry is a beginning of the entry.
LEMMA BeginningOfBeginning ==
    ASSUME NEW entry, entry.length_in_bytes \in Nat,
           NEW p \in 0 .. entry.length_in_bytes, NEW back \in 0 .. p
    PROVE  SubSeq(SubSeq(Content(entry), 1, p), 1, back) = SubSeq(Content(entry), 1, back)
<1> DEFINE s == Bytes(entry, 0, p)
<1>1. p \in Nat /\ back \in Nat /\ back \in 0 .. entry.length_in_bytes
    OBVIOUS
<1>2. SubSeq(Content(entry), 1, p) = s /\ SubSeq(Content(entry), 1, back) = Bytes(entry, 0, back)
    BY <1>1, BeginningOfFile
<1>3. s = [k \in 1 .. p |-> Byte(entry, 0 + k - 1)]
    BY DEF Bytes
<1> QED BY <1>1, <1>2, <1>3 DEF Bytes

LEMMA NothingRead ==
    ASSUME PositionInFile, NEW e \in 0 .. Len(dir_entries)
    PROVE  Beginning(e, 0) = <<>>
<1>1. SubSeq(Names, 1, 0) = <<>>
    <2>1. 0 \in 0 .. Len(Names)
        BY NamesInOrder
    <2>2. SubSeq(Names, 1, 0) = [k \in 1 .. 0 |-> Names[k]]
        BY <2>1, NamesInOrder
    <2> QED BY <2>2
<1>2. ASSUME e # 0 PROVE SubSeq(Content(dir_entries[e]), 1, 0) = <<>>
    <2>1. dir_entries[e].length_in_bytes \in Nat
        <3>1. e \in 1 .. Len(dir_entries)
            BY <1>2
        <3> QED BY <3>1, FileSystemAssumption DEF PositionInFile
    <2>2. 0 \in 0 .. dir_entries[e].length_in_bytes /\ 0 \in Nat
        BY <2>1
    <2> QED BY <2>1, <2>2, BeginningOfFile, NoBytes
<1> QED BY <1>1, <1>2 DEF Beginning

LEMMA InitReadInv == Init => ReadInv
<1> SUFFICES ASSUME Init PROVE ReadInv
    OBVIOUS
<1>1. PositionInFile
    BY InitPosition
<1>2. \A fd \in Fds : inode[fd] = 0 /\ file_position[fd] = 0 /\ got[fd] = <<>>
    BY DEF Init
<1>3. got = [fd \in Fds |-> got[fd]]
    BY DEF Init
<1>4. 0 \in 0 .. Len(dir_entries)
    BY <1>1, FileSystemAssumption DEF PositionInFile
<1>5. Beginning(0, 0) = <<>>
    BY <1>1, <1>4, NothingRead
<1> QED BY <1>1, <1>2, <1>3, <1>5 DEF ReadInv

\* A step that changes one descriptor, and what was read of it with its place.
LEMMA OneDescriptor ==
    ASSUME ReadInv, PositionInFile', UNCHANGED dir_entries, NEW fd \in Fds, NEW e, NEW p,
           inode' = [inode EXCEPT ![fd] = e],
           file_position' = [file_position EXCEPT ![fd] = p],
           got' = [got EXCEPT ![fd] = Beginning(e, p)]
    PROVE  ReadInv'
<1>1. Names' = Names
    BY DEF Names
<1>2. got' = [g \in Fds |-> got'[g]]
    BY DEF ReadInv
<1>3. /\ inode'[fd] = e /\ file_position'[fd] = p
      /\ got'[fd] = Beginning(e, p)
    BY DEF ReadInv, PositionInFile
<1>4. got'[fd] = Beginning(inode[fd], file_position[fd])'
    BY <1>1, <1>3 DEF Beginning
<1>5. ASSUME NEW g \in Fds, g # fd
      PROVE  got'[g] = Beginning(inode[g], file_position[g])'
    <2>1. inode'[g] = inode[g] /\ file_position'[g] = file_position[g] /\ got'[g] = got[g]
        BY <1>5 DEF ReadInv, PositionInFile
    <2>2. got[g] = Beginning(inode[g], file_position[g])
        BY DEF ReadInv
    <2> QED BY <1>1, <2>1, <2>2 DEF Beginning
<1> QED BY <1>2, <1>4, <1>5 DEF ReadInv

LEMMA OpenReads ==
    ASSUME ReadInv, PositionInFile', NEW name, Open(name)
    PROVE  ReadInv'
<1>1. CASE \E f \in 1 .. Len(dir_entries), fd \in Fds :
            /\ inode' = [inode EXCEPT ![fd] = f]
            /\ file_position' = [file_position EXCEPT ![fd] = 0]
            /\ got' = [got EXCEPT ![fd] = <<>>]
    <2>1. PICK f \in 1 .. Len(dir_entries), fd \in Fds :
            /\ inode' = [inode EXCEPT ![fd] = f]
            /\ file_position' = [file_position EXCEPT ![fd] = 0]
            /\ got' = [got EXCEPT ![fd] = <<>>]
        BY <1>1
    <2>2. f \in 0 .. Len(dir_entries)
        BY FileSystemAssumption DEF ReadInv, PositionInFile
    <2>3. Beginning(f, 0) = <<>>
        BY <2>2, NothingRead DEF ReadInv
    <2>4. got' = [got EXCEPT ![fd] = Beginning(f, 0)] /\ UNCHANGED dir_entries
        BY <2>1, <2>3 DEF Open
    <2> QED BY <2>1, <2>4, OneDescriptor
<1>2. CASE UNCHANGED <<dir_entries, inode, file_position, got>>
    BY <1>2 DEF ReadInv, Beginning, Names
<1> QED BY <1>1, <1>2 DEF Open

LEMMA CloseReads ==
    ASSUME ReadInv, PositionInFile', NEW fd \in Fds, Close(fd)
    PROVE  ReadInv'
<1>1. CASE UNCHANGED <<inode, file_position, got>>
    BY <1>1 DEF Close, ReadInv, Beginning, Names
<1>2. CASE /\ inode' = [inode EXCEPT ![fd] = 0]
           /\ file_position' = [file_position EXCEPT ![fd] = 0]
           /\ got' = [got EXCEPT ![fd] = <<>>]
    <2>1. 0 \in 0 .. Len(dir_entries)
        BY FileSystemAssumption DEF ReadInv, PositionInFile
    <2>2. Beginning(0, 0) = <<>>
        BY <2>1, NothingRead DEF ReadInv
    <2>3. got' = [got EXCEPT ![fd] = Beginning(0, 0)] /\ UNCHANGED dir_entries
        BY <1>2, <2>2 DEF Close
    <2> QED BY <1>2, <2>3, OneDescriptor
<1> QED BY <1>1, <1>2 DEF Close

\* The table of the next program has read nothing.
LEMMA ClearKeepsReads ==
    ASSUME ReadInv, ClearTable
    PROVE  ReadInv'
<1>1. PositionInFile /\ Len(dir_entries) \in Nat
    BY FileSystemAssumption DEF ReadInv, PositionInFile
<1>2. /\ inode' = [fd \in Fds |-> 0] /\ file_position' = [fd \in Fds |-> 0]
      /\ got' = [fd \in Fds |-> <<>>] /\ UNCHANGED dir_entries
    BY DEF ClearTable
<1>3. PositionInFile'
    BY <1>1, ClearedPosition
<1>4. Beginning(0, 0) = <<>>
    <2>1. 0 \in 0 .. Len(dir_entries)
        BY <1>1
    <2> QED BY <1>1, <2>1, NothingRead
<1>5. Beginning(0, 0)' = <<>>
    BY <1>2, <1>4 DEF Beginning, Names
<1>6. \A fd \in Fds : got'[fd] = Beginning(inode[fd], file_position[fd])'
    BY <1>2, <1>5 DEF Beginning
<1>7. got' = [fd \in Fds |-> got'[fd]]
    BY <1>2
<1> QED BY <1>3, <1>6, <1>7 DEF ReadInv

LEMMA FileReadReads ==
    ASSUME ReadInv, PositionInFile', NEW fd \in Fds, NEW nbytes \in Nat \cup Requests,
           FileRead(fd, nbytes)
    PROVE  ReadInv'
<1>0. PICK length \in Nat : Delivers(fd, length)
    BY SizeAsked
<1>1. PICK e \in 1 .. Len(dir_entries) :
        e = inode[fd] /\ e # 0 /\ dir_entries[e].file_type = "file"
    <2>1. inode[fd] \in 1 .. Len(dir_entries)
        BY <1>0, FileSystemAssumption DEF Delivers, Regular, ReadInv, PositionInFile
    <2> QED BY <1>0, <2>1 DEF Delivers, Regular
<1>2. PICK l \in Nat : l = dir_entries[e].length_in_bytes /\ l < HighBit
    BY EntryLengths DEF ReadInv
<1>3. PICK p \in 0 .. l : p = file_position[fd]
    BY <1>1, <1>2 DEF ReadInv, PositionInFile, EndPosition, Directory
<1>4. PICK n \in Nat : n = LengthCopied(dir_entries[e], p, length)
    BY <1>2, <1>3 DEF LengthCopied
<1>5. /\ got' = [got EXCEPT ![fd] = got[fd] \o ReadData(dir_entries[e], p, length)]
      /\ file_position' = [file_position EXCEPT ![fd] = p + n]
      /\ inode' = inode /\ UNCHANGED dir_entries
    BY <1>0, <1>1, <1>3, <1>4 DEF Delivers, ReadInv, PositionInFile
<1>6. inode' = [inode EXCEPT ![fd] = e]
    BY <1>1, <1>5 DEF ReadInv, PositionInFile
<1>7. got[fd] = SubSeq(Content(dir_entries[e]), 1, p)
    BY <1>1, <1>3 DEF ReadInv, Beginning
<1>8. SubSeq(Content(dir_entries[e]), 1, p) \o ReadData(dir_entries[e], p, length)
        = SubSeq(Content(dir_entries[e]), 1, p + n)
    BY <1>2, <1>3, <1>4, MoreOfFile
<1>9. got' = [got EXCEPT ![fd] = Beginning(e, p + n)]
    BY <1>1, <1>5, <1>7, <1>8 DEF Beginning
<1> QED BY <1>5, <1>6, <1>9, OneDescriptor

\* What was read up to an earlier position is a beginning too.
LEMMA ReadBackReads ==
    ASSUME ReadInv, PositionInFile', NEW fd \in Fds, NEW nbytes \in Requests, ReadBack(fd, nbytes)
    PROVE  ReadInv'
<1>1. PICK e \in 1 .. Len(dir_entries) :
        e = inode[fd] /\ e # 0 /\ dir_entries[e].file_type = "file"
    <2>1. inode[fd] \in 1 .. Len(dir_entries)
        BY FileSystemAssumption DEF ReadBack, Wraps, Regular, ReadInv, PositionInFile
    <2> QED BY <2>1 DEF ReadBack, Wraps, Regular
<1>2. PICK l \in Nat : l = dir_entries[e].length_in_bytes /\ l < HighBit
    BY EntryLengths DEF ReadInv
<1>3. PICK p \in 0 .. l : p = file_position[fd]
    BY <1>1, <1>2 DEF ReadInv, PositionInFile, EndPosition, Directory
<1>4. PICK back \in 0 .. p : back = p + nbytes
    <2>1. nbytes \in -HighBit .. HighBit - 1 /\ HighBit \in Nat
        BY FileSystemAssumption
    <2>2. p + Unsigned(nbytes) >= 2 * HighBit
        BY <1>3 DEF ReadBack, Wraps
    <2> QED BY <1>2, <1>3, <2>1, <2>2 DEF Unsigned
<1>5. /\ got' = [got EXCEPT ![fd] = SubSeq(got[fd], 1, back)]
      /\ file_position' = [file_position EXCEPT ![fd] = back]
      /\ inode' = inode /\ UNCHANGED dir_entries
    BY <1>3, <1>4 DEF ReadBack, ReadInv, PositionInFile
<1>6. inode' = [inode EXCEPT ![fd] = e]
    BY <1>1, <1>5 DEF ReadInv, PositionInFile
<1>7. got[fd] = SubSeq(Content(dir_entries[e]), 1, p)
    BY <1>1, <1>3 DEF ReadInv, Beginning
<1>8. SubSeq(SubSeq(Content(dir_entries[e]), 1, p), 1, back)
        = SubSeq(Content(dir_entries[e]), 1, back)
    BY <1>2, <1>3, <1>4, BeginningOfBeginning
<1>9. got' = [got EXCEPT ![fd] = Beginning(e, back)]
    BY <1>1, <1>5, <1>7, <1>8 DEF Beginning
<1> QED BY <1>5, <1>6, <1>9, OneDescriptor

LEMMA DirReadReads ==
    ASSUME ReadInv, PositionInFile', NEW fd \in Fds, DirRead(fd)
    PROVE  ReadInv'
<1>1. PICK e \in 0 .. Len(dir_entries) :
        e = inode[fd] /\ e # 0 /\ dir_entries[e].file_type = "directory"
    BY DEF DirRead, Directory, ReadInv, PositionInFile
<1>2. PICK p \in Nat : p = file_position[fd]
    BY DEF ReadInv, PositionInFile
<1>3. inode' = [inode EXCEPT ![fd] = e] /\ UNCHANGED dir_entries
    BY <1>1 DEF DirRead, ReadInv, PositionInFile
<1>4. got[fd] = SubSeq(Names, 1, p) /\ \A m : Beginning(e, m) = SubSeq(Names, 1, m)
    BY <1>1, <1>2 DEF ReadInv, Beginning
<1>5. CASE Listed(fd)
    <2>1. /\ p < Len(dir_entries)
          /\ got' = [got EXCEPT ![fd] = Append(got[fd], dir_entries[p + 1].name)]
          /\ file_position' = [file_position EXCEPT ![fd] = p + 1]
        BY <1>2, <1>5 DEF Listed, ReadInv, PositionInFile
    <2>2. Len(Names) = Len(dir_entries) /\ Len(Names) \in Nat
        BY NamesInOrder DEF ReadInv
    <2>3. dir_entries[p + 1].name = Names[p + 1]
        BY <2>1, <2>2 DEF Names
    <2>4. Append(SubSeq(Names, 1, p), Names[p + 1]) = SubSeq(Names, 1, p + 1)
        BY <2>1, <2>2, OneMoreName DEF ReadInv
    <2>5. got' = [got EXCEPT ![fd] = Beginning(e, p + 1)]
        BY <1>4, <2>1, <2>3, <2>4
    <2> QED BY <1>3, <2>1, <2>5, OneDescriptor
<1>6. CASE got' = [got EXCEPT ![fd] = <<>>] /\ file_position' = [file_position EXCEPT ![fd] = 0]
    <2>1. Beginning(e, 0) = <<>>
        BY NothingRead DEF ReadInv
    <2>2. got' = [got EXCEPT ![fd] = Beginning(e, 0)]
        BY <1>6, <2>1
    <2> QED BY <1>3, <1>6, <2>2, OneDescriptor
<1> QED BY <1>5, <1>6 DEF DirRead

LEMMA NextReads == ReadInv /\ [Next]_vars => ReadInv'
<1> SUFFICES ASSUME ReadInv, [Next]_vars PROVE ReadInv'
    OBVIOUS
<1>0. PositionInFile'
    BY NextPosition DEF ReadInv
<1>1. ASSUME NEW name \in Queries, Open(name) PROVE ReadInv'
    BY <1>0, <1>1, OpenReads
<1>2. ASSUME NEW fd \in Fds, Close(fd) PROVE ReadInv'
    BY <1>0, <1>2, CloseReads
<1>3. ASSUME NEW fd \in Fds, NEW nbytes \in Requests, FileRead(fd, nbytes) PROVE ReadInv'
    BY <1>0, <1>3, FileReadReads
<1>4. ASSUME NEW fd \in Fds, NEW nbytes \in Requests, ReadBack(fd, nbytes) PROVE ReadInv'
    BY <1>0, <1>4, ReadBackReads
<1>5. ASSUME NEW fd \in Fds, NEW nbytes \in Requests, ReadFaults(fd, nbytes) PROVE ReadInv'
    BY <1>5, ClearKeepsReads DEF ReadFaults
<1>6. ASSUME NEW fd \in Fds, DirRead(fd) PROVE ReadInv'
    BY <1>0, <1>6, DirReadReads
<1>7. CASE UNCHANGED <<dir_entries, inode, file_position, got>>
    BY <1>7, <1>0 DEF ReadInv, Beginning, Names
<1> QED BY <1>1, <1>2, <1>3, <1>4, <1>5, <1>6, <1>7 DEF Next, ReadRefused, vars

LEMMA ReadsInOrderFromInv == ReadInv => ReadsInOrder
BY DEF ReadInv, ReadsInOrder, Beginning, Regular

\* Reads of any int32 sizes, through any descriptors opened and closed in any
\* order, deliver every file from its first byte on, whatever blocks its bytes
\* lie in (file_read and the loop of read_data), and the names of a directory in
\* their order (dir_read).  A negative size may take back what was read from
\* some position on, to be read once more; no other size repeats a byte.
THEOREM FilesAreReadInOrder == Spec => []ReadsInOrder
BY InitReadInv, NextReads, ReadsInOrderFromInv, PTL DEF Spec

\* What a read returns, and what it leaves: less than asked for at the end only.
LEMMA ShortReadEnds ==
    ASSUME PositionInFile, NEW fd \in Fds, NEW nbytes \in Requests, FileRead(fd, nbytes)
    PROVE  result' = nbytes \/ file_position'[fd] = EndPosition(fd)
<1>0. /\ Delivers(fd, Unsigned(nbytes)) /\ ~Wraps(fd, nbytes)
      /\ Unsigned(nbytes) = nbytes \/ nbytes < 0
    BY DEF FileRead, Unsigned
<1>1. PICK e \in 1 .. Len(dir_entries) :
        e = inode[fd] /\ e # 0 /\ dir_entries[e].file_type = "file"
    <2>1. inode[fd] \in 1 .. Len(dir_entries)
        BY <1>0, FileSystemAssumption DEF Regular, Delivers, PositionInFile
    <2> QED BY <1>0, <2>1 DEF Delivers, Regular
<1>2. PICK l \in Nat : l = dir_entries[e].length_in_bytes /\ l < HighBit
    BY EntryLengths
<1>3. EndPosition(fd) = l
    BY <1>1, <1>2 DEF EndPosition, Directory
<1>4. PICK p \in 0 .. l : p = file_position[fd]
    BY <1>3 DEF PositionInFile
<1>5. /\ result' = LengthCopied(dir_entries[e], p, Unsigned(nbytes))
      /\ file_position'[fd] = p + result'
    BY <1>0, <1>1, <1>4 DEF Delivers, PositionInFile
<1>6. nbytes < 0 => Unsigned(nbytes) > l
    BY <1>2, FileSystemAssumption DEF Unsigned
<1> QED BY <1>0, <1>2, <1>3, <1>4, <1>5, <1>6, FileSystemAssumption DEF LengthCopied

\* A read returns less than was asked for only when it reaches the end of the
\* file (file_read and the cut in read_data), so that cat and grep, which stop
\* at 0, have then read it all.
THEOREM ReadsStopAtEnd == Spec => ShortOnlyAtEnd
<1> DEFINE Step == \A fd \in Fds, nbytes \in Requests :
                     FileRead(fd, nbytes) => result' = nbytes \/ file_position'[fd] = EndPosition(fd)
<1>1. PositionInFile /\ [Next]_vars => [Step]_vars
    BY ShortReadEnds, FileSystemAssumption
<1> HIDE DEF Step
<1>3. Spec => [][Step]_vars
    BY <1>1, InitPosition, NextPosition, PTL DEF Spec
<1> QED BY <1>3 DEF ShortOnlyAtEnd, Step

\* What was listed when a directory read returns 0.
LEMMA ListingEnds ==
    ASSUME ReadInv, NEW fd \in Fds, DirRead(fd), result' = 0
    PROVE  got[fd] = Names /\ file_position'[fd] = 0
<1>1. /\ Names \in Seq(CStrings) /\ Len(Names) = Len(dir_entries) /\ Len(Names) \in Nat
      /\ \A f \in 1 .. Len(Names) : Len(Names[f]) \in 1 .. NameLen
      /\ \A m \in 0 .. Len(Names) : SubSeq(Names, 1, m) = [k \in 1 .. m |-> Names[k]]
    BY NamesInOrder DEF ReadInv
<1>2. PICK p \in Nat : p = file_position[fd] /\ p <= Len(dir_entries)
    BY DEF DirRead, Directory, ReadInv, PositionInFile, EndPosition
<1>3. ~Listed(fd)
    <2>1. ASSUME Listed(fd) PROVE FALSE
        <3>1. p + 1 \in 1 .. Len(Names) /\ result' = Len(dir_entries[p + 1].name)
            BY <1>1, <1>2, <2>1 DEF Listed
        <3>2. Names[p + 1] = dir_entries[p + 1].name
            BY <1>1, <3>1 DEF Names
        <3> QED BY <1>1, <3>1, <3>2
    <2> QED BY <2>1
<1>4. p >= Len(dir_entries) /\ file_position' = [file_position EXCEPT ![fd] = 0]
    BY <1>2, <1>3 DEF DirRead
<1>5. p = Len(Names)
    BY <1>1, <1>2, <1>4
<1>6. got[fd] = SubSeq(Names, 1, p)
    BY <1>2 DEF ReadInv, Beginning, DirRead, Directory
<1>7. Len(Names) \in 0 .. Len(Names) /\ [k \in 1 .. Len(Names) |-> Names[k]] = Names
    BY <1>1
<1>8. file_position'[fd] = 0
    BY <1>4 DEF ReadInv, PositionInFile
<1> QED BY <1>1, <1>5, <1>6, <1>7, <1>8

\* A directory read returns 0 only after all its names were returned, and the
\* next listing starts over (dir_read and read_dentry_by_index).
THEOREM ListingsAreComplete == Spec => ListingComplete
<1> DEFINE Step == \A fd \in Fds :
                     DirRead(fd) /\ result' = 0 => got[fd] = Names /\ file_position'[fd] = 0
<1>1. ReadInv /\ [Next]_vars => [Step]_vars
    BY ListingEnds
<1> HIDE DEF Step
<1>3. Spec => [][Step]_vars
    BY <1>1, InitReadInv, NextReads, PTL DEF Spec
<1> QED BY <1>3 DEF ListingComplete, Step

-----------------------------------------------------------------------------
(* Names *)

\* Comparing two names over the longer of them is comparing them whole: the
\* terminator of the shorter one differs from the character of the longer.
LEMMA MatchesIsEqual ==
    ASSUME NEW name \in CStrings, NEW file_name \in CStrings,
           Len(name) <= NameLen, Len(file_name) <= NameLen
    PROVE  Matches(name, file_name) <=> name = file_name
<1>1. PICK n \in Nat, l \in Nat : n = Len(name) /\ l = Len(file_name) /\ n <= NameLen /\ l <= NameLen
    BY DEF CStrings
<1>2. /\ \A i \in 1 .. n : name[i] \in Nat \ {0} /\ CharAt(name, i) = name[i]
      /\ \A i \in 1 .. l : file_name[i] \in Nat \ {0} /\ CharAt(file_name, i) = file_name[i]
      /\ \A i \in Nat : (i > n => CharAt(name, i) = 0) /\ (i > l => CharAt(file_name, i) = 0)
    BY <1>1 DEF CStrings, CharAt
<1>3. PICK longer \in Nat : longer = IF n >= l THEN n ELSE l
    OBVIOUS
<1>4. Matches(name, file_name) <=> \A i \in 1 .. longer : CharAt(name, i) = CharAt(file_name, i)
    BY <1>1, <1>3, FileSystemAssumption DEF Matches
<1>5. ASSUME \A i \in 1 .. longer : CharAt(name, i) = CharAt(file_name, i)
      PROVE  name = file_name
    <2>1. ~(n > l)
        <3>1. ASSUME n > l PROVE FALSE
            <4>1. n \in 1 .. longer /\ n \in 1 .. n /\ n \in Nat
                BY <1>3, <3>1
            <4>2. CharAt(name, n) = CharAt(file_name, n)
                BY <1>5, <4>1
            <4>3. CharAt(file_name, n) = 0
                BY <1>2, <3>1
            <4>4. CharAt(name, n) \in Nat \ {0}
                BY <1>2, <4>1
            <4> QED BY <4>2, <4>3, <4>4
        <3> QED BY <3>1
    <2>2. ~(l > n)
        <3>1. ASSUME l > n PROVE FALSE
            <4>1. l \in 1 .. longer /\ l \in 1 .. l /\ l \in Nat
                BY <1>3, <3>1
            <4>2. CharAt(name, l) = CharAt(file_name, l)
                BY <1>5, <4>1
            <4>3. CharAt(name, l) = 0
                BY <1>2, <3>1
            <4>4. CharAt(file_name, l) \in Nat \ {0}
                BY <1>2, <4>1
            <4> QED BY <4>2, <4>3, <4>4
        <3> QED BY <3>1
    <2>3. n = l /\ longer = n
        BY <1>3, <2>1, <2>2
    <2>4. \A i \in 1 .. n : name[i] = file_name[i]
        BY <1>2, <1>5, <2>3
    <2> QED BY <1>1, <2>3, <2>4, SeqEqual DEF CStrings
<1>6. name = file_name => \A i \in 1 .. longer : CharAt(name, i) = CharAt(file_name, i)
    OBVIOUS
<1> QED BY <1>4, <1>5, <1>6

LEMMA FirstEntryFound ==
    ASSUME PositionInFile, NEW name \in CStrings, NEW h \in 1 .. Len(dir_entries), Names[h] = name
    PROVE  \E f \in 1 .. Len(dir_entries) : Found(name, f)
<1>1. PICK l \in Nat : l = Len(dir_entries)
    BY FileSystemAssumption DEF PositionInFile
<1> DEFINE T == {f \in 1 .. l : Matches(name, dir_entries[f].name)}
<1>2. dir_entries[h].name = name
    BY <1>1 DEF Names
<1>3. Len(name) <= NameLen
    BY <1>1, <1>2, FileSystemAssumption DEF PositionInFile
<1>4. h \in T
    BY <1>1, <1>2, <1>3, MatchesIsEqual
<1>5. T \subseteq Nat
    OBVIOUS
<1>6. PICK f \in T : \A g \in T : f <= g
    BY <1>4, <1>5, LeastNatural
<1>7. f \in 1 .. l /\ Matches(name, dir_entries[f].name)
    BY <1>6
<1>8. ASSUME NEW g \in 1 .. f - 1, Matches(name, dir_entries[g].name) PROVE FALSE
    <2>1. g \in T /\ g < f
        BY <1>7, <1>8
    <2> QED BY <1>6, <1>7, <2>1
<1> QED BY <1>1, <1>7, <1>8 DEF Found

LEMMA LowestIsFree ==
    ASSUME NEW h \in Fds, inode[h] = 0
    PROVE  \E fd \in Fds : LowestFree(fd)
<1> DEFINE T == {fd \in Fds : inode[fd] = 0}
<1>0. Fds \subseteq Nat /\ \A fd \in Fds : \A lower \in 2 .. fd - 1 : lower \in Fds /\ lower < fd
    BY FileSystemAssumption DEF Fds
<1>1. h \in T /\ T \subseteq Nat
    BY <1>0
<1>2. PICK fd \in T : \A g \in T : fd <= g
    BY <1>1, LeastNatural
<1>3. fd \in Fds /\ inode[fd] = 0 /\ fd \in Nat
    BY <1>0, <1>2
<1>4. ASSUME NEW lower \in 2 .. fd - 1, inode[lower] = 0 PROVE FALSE
    <2>1. lower \in T /\ lower < fd /\ lower \in Nat
        BY <1>0, <1>3, <1>4
    <2> QED BY <1>2, <1>3, <2>1
<1> QED BY <1>3, <1>4 DEF LowestFree

LEMMA OpensNamed ==
    ASSUME PositionInFile, NEW name \in CStrings, NEW f \in 1 .. Len(dir_entries), NEW fd,
           Opens(name, f, fd)
    PROVE  Names[f] = name /\ inode[fd] = 0
<1>1. Len(dir_entries) \in Nat
    BY FileSystemAssumption DEF PositionInFile
<1>2. dir_entries[f].name \in CStrings /\ Len(dir_entries[f].name) <= NameLen
    BY <1>1, FileSystemAssumption DEF PositionInFile
<1>3. Len(name) <= NameLen /\ Matches(name, dir_entries[f].name) /\ inode[fd] = 0
    BY FileSystemAssumption DEF Opens, Found, LowestFree
<1>4. name = dir_entries[f].name
    BY <1>2, <1>3, MatchesIsEqual
<1> QED BY <1>1, <1>3, <1>4 DEF Names

\* A name that open finds, and what it then returns.
There(name) == /\ \E f \in 1 .. Len(dir_entries) : Names[f] = name
               /\ \E fd \in Fds : inode[fd] = 0

Opened(name) == result' \in Fds /\ inode[result'] = 0 /\ Names[inode'[result']] = name

LEMMA OpensWhatIsThere ==
    ASSUME PositionInFile, NEW name \in CStrings, Open(name), There(name)
    PROVE  Opened(name)
<1>1. PICK h \in 1 .. Len(dir_entries) : Names[h] = name
    BY DEF There
<1>2. PICK f \in 1 .. Len(dir_entries) : Found(name, f)
    BY <1>1, FirstEntryFound
<1>3. PICK fd \in Fds : LowestFree(fd)
    BY LowestIsFree DEF There
<1>4. Len(name) \in 1 .. NameLen
    <2>1. Len(dir_entries) \in Nat
        BY FileSystemAssumption DEF PositionInFile
    <2>2. dir_entries[h].name = name
        BY <1>1, <2>1 DEF Names
    <2> QED BY <2>1, <2>2, FileSystemAssumption DEF PositionInFile
<1>5. Opens(name, f, fd)
    BY <1>2, <1>3, <1>4 DEF Opens
<1>6. PICK e \in 1 .. Len(dir_entries), g \in Fds :
        Opens(name, e, g) /\ inode' = [inode EXCEPT ![g] = e] /\ result' = g
    BY <1>5 DEF Open
<1>7. Names[e] = name /\ inode[g] = 0
    BY <1>6, OpensNamed
<1> QED BY <1>6, <1>7 DEF PositionInFile, Opened

LEMMA RefusesWhatIsNotThere ==
    ASSUME PositionInFile, NEW name \in CStrings, Open(name), ~There(name)
    PROVE  result' = -1
<1>1. ASSUME NEW f \in 1 .. Len(dir_entries), NEW fd \in Fds, Opens(name, f, fd) PROVE FALSE
    BY <1>1, OpensNamed DEF There
<1> QED BY <1>1 DEF Open

\* open finds a file by its whole name, and by nothing else, as long as a
\* descriptor is free (read_dentry_by_name's strncmp over the longer name).
THEOREM OpenFindsByName == Spec => OpensWhatIsNamed
<1> DEFINE Step == \A name \in Queries : Open(name) =>
                     IF (\E f \in 1 .. Len(dir_entries) : Names[f] = name) /\ (\E fd \in Fds : inode[fd] = 0)
                       THEN result' \in Fds /\ inode[result'] = 0 /\ Names[inode'[result']] = name
                       ELSE result' = -1
<1>1. PositionInFile /\ [Next]_vars => [Step]_vars
    BY OpensWhatIsThere, RefusesWhatIsNotThere, FileSystemAssumption DEF There, Opened
<1> HIDE DEF Step
<1>2. Spec => [][Step]_vars
    BY <1>1, InitPosition, NextPosition, PTL DEF Spec
<1> QED BY <1>2 DEF OpensWhatIsNamed, Step

-----------------------------------------------------------------------------
\* Folds: a function of the intervals from 1, one step for each number.

\* A largest element is the maximum, a smallest one the minimum.
LEMMA MaxIs ==
    ASSUME NEW S, S \subseteq Int, NEW m \in S, \A k \in S : k <= m
    PROVE  Max(S) = m
<1>1. \A k \in S : m >= k
    OBVIOUS
<1>2. Max(S) \in S /\ \A k \in S : Max(S) >= k
    BY <1>1, Zenon DEF Max
<1>3. PICK x \in Int : x = Max(S)
    BY <1>2
<1>4. x >= m /\ x <= m
    BY <1>2, <1>3
<1> QED BY <1>3, <1>4

LEMMA MinIs ==
    ASSUME NEW S, S \subseteq Int, NEW m \in S, \A k \in S : m <= k
    PROVE  Min(S) = m
<1>2. Min(S) \in S /\ \A k \in S : Min(S) <= k
    BY Zenon DEF Min
<1>3. PICK x \in Int : x = Min(S)
    BY <1>2
<1>4. x >= m /\ x <= m
    BY <1>2, <1>3
<1> QED BY <1>3, <1>4

\* The first of a set of numbers.
LEMMA FirstOf ==
    ASSUME NEW S, S \subseteq Nat, S # {}
    PROVE  Min(S) \in S /\ \A k \in S : Min(S) <= k
<1>1. PICK m \in S : \A k \in S : m <= k
    BY LeastNatural
<1>2. S \subseteq Int
    OBVIOUS
<1>3. Min(S) = m
    BY <1>1, <1>2, MinIs
<1> QED BY <1>1, <1>3

\* The last of a set of the first n numbers.
LEMMA LastOf ==
    ASSUME NEW n \in Nat, NEW S, S \subseteq 1 .. n, S # {}
    PROVE  Max(S) \in S /\ \A k \in S : k <= Max(S)
<1> DEFINE T == {n - k : k \in S}
<1>1. T \subseteq Nat /\ T # {}
    <2>1. \A k \in S : k \in Int /\ k <= n
        OBVIOUS
    <2>2. \A k \in S : k >= 1
        OBVIOUS
    <2>3. \A k \in S : n - k \in Nat
        BY <2>1
    <2> QED BY <2>3
<1>2. PICK t \in T : \A u \in T : t <= u
    <2> HIDE DEF T
    <2> QED BY <1>1, LeastNatural
<1>3. PICK m \in S : t = n - m
    OBVIOUS
<1>4. ASSUME NEW k \in S PROVE k <= m
    <2>1. n - k \in T
        OBVIOUS
    <2>2. t <= n - k
        BY <1>2, <2>1
    <2>3. k \in Int /\ m \in Int
        OBVIOUS
    <2> QED BY <1>3, <2>2, <2>3
<1>5. S \subseteq Int
    OBVIOUS
<1>6. Max(S) = m
    BY <1>4, <1>5, MaxIs
<1> QED BY <1>4, <1>6

\* The intervals from 1, the sets a fold of a sequence takes in turn.
LEMMA Intervals ==
    ASSUME NEW n \in Nat, NEW k \in 1 .. n
    PROVE  /\ 1 .. k \in SUBSET (1 .. n) /\ 1 .. k # {}
           /\ Max(1 .. k) = k /\ (1 .. k) \ {k} = 1 .. k - 1
           /\ 1 .. k - 1 \in SUBSET (1 .. n)
<1>1. 1 .. k \subseteq Int /\ k \in 1 .. k /\ \A i \in 1 .. k : i <= k
    OBVIOUS
<1>2. Max(1 .. k) = k
    BY <1>1, MaxIs
<1> QED BY <1>1, <1>2

\* A function of the sets of the first n numbers as FoldLeft makes it.
Folds(f, n, base, step) ==
    f = [S \in SUBSET (1 .. n) |-> IF S = {} THEN base ELSE step[<<Max(S), f[S \ {Max(S)}]>>]]

\* Sets that hold what is computed by the first k numbers.
Levels(E, n, base, step) ==
    /\ base \in E[0]
    /\ \A k \in 1 .. n : /\ \A d \in E[k - 1] : d \in E[k]
                         /\ \A d \in E[k - 1] : step[<<k, d>>] \in E[k]

\* The fold exists, in sets that the steps lead through.
LEMMA LevelsFold ==
    ASSUME NEW n \in Nat, NEW E, NEW base, NEW step, Levels(E, n, base, step)
    PROVE  \E f \in [SUBSET (1 .. n) -> E[n]] : Folds(f, n, base, step)
<1> DEFINE Fold(f, m) == \A S \in SUBSET (1 .. m) :
              f[S] = IF S = {} THEN base ELSE step[<<Max(S), f[S \ {Max(S)}]>>]
           Part(m) == \E f \in [SUBSET (1 .. m) -> E[m]] : Fold(f, m)
           H == {m \in Nat : m <= n => Part(m)}
<1>1. 0 \in H
    <2> DEFINE g == [S \in SUBSET (1 .. 0) |-> base]
    <2>1. g \in [SUBSET (1 .. 0) -> E[0]]
        BY DEF Levels
    <2>2. \A S \in SUBSET (1 .. 0) : S = {} /\ g[S] = base
        <3>1. 1 .. 0 = {}
            OBVIOUS
        <3> QED BY <3>1
    <2> HIDE DEF g
    <2>3. Fold(g, 0)
        BY <2>2
    <2>4. Part(0)
        BY <2>1, <2>3, Zenon
    <2> QED BY <2>4
<1>2. ASSUME NEW m \in Nat, m \in H PROVE m + 1 \in H
    <2> SUFFICES ASSUME m + 1 <= n PROVE Part(m + 1)
        <3> HIDE DEF Part
        <3> QED OBVIOUS
    <2>0. Part(m)
        <3> HIDE DEF Part
        <3> QED BY <1>2
    <2>1. PICK f \in [SUBSET (1 .. m) -> E[m]] : Fold(f, m)
        BY <2>0, Zenon
    <2> DEFINE g == [S \in SUBSET (1 .. m + 1) |->
                        IF m + 1 \in S THEN step[<<m + 1, f[S \ {m + 1}]>>] ELSE f[S]]
    <2>2. \A S \in SUBSET (1 .. m + 1) : S \ {m + 1} \in SUBSET (1 .. m)
        <3>1. \A x \in 1 .. m + 1 : x # m + 1 => x \in 1 .. m
            OBVIOUS
        <3> HIDE DEF g
        <3> QED BY <3>1
    <2>3. \A S \in SUBSET (1 .. m + 1) : m + 1 \notin S => S \in SUBSET (1 .. m)
        OBVIOUS
    <2>4. g \in [SUBSET (1 .. m + 1) -> E[m + 1]]
        <3>1. m + 1 \in 1 .. n /\ m + 1 - 1 = m
            OBVIOUS
        <3>2. /\ \A d \in E[m] : d \in E[m + 1]
              /\ \A d \in E[m] : step[<<m + 1, d>>] \in E[m + 1]
            BY <3>1 DEF Levels
        <3>3. ASSUME NEW S \in SUBSET (1 .. m + 1)
              PROVE  (IF m + 1 \in S THEN step[<<m + 1, f[S \ {m + 1}]>>] ELSE f[S]) \in E[m + 1]
            <4>1. CASE m + 1 \in S
                <5>1. f[S \ {m + 1}] \in E[m]
                    BY <2>2
                <5> QED BY <3>2, <4>1, <5>1
            <4>2. CASE m + 1 \notin S
                <5>1. f[S] \in E[m]
                    BY <2>3, <4>2
                <5> QED BY <3>2, <4>2, <5>1
            <4> QED BY <4>1, <4>2
        <3> QED BY <3>3
    <2>5. \A S \in SUBSET (1 .. m) : S \in SUBSET (1 .. m + 1) /\ g[S] = f[S]
        <3>1. \A S \in SUBSET (1 .. m) : S \in SUBSET (1 .. m + 1) /\ m + 1 \notin S
            OBVIOUS
        <3> QED BY <3>1
    <2> HIDE DEF H
    <2>6. ASSUME NEW S \in SUBSET (1 .. m + 1)
          PROVE  g[S] = IF S = {} THEN base ELSE step[<<Max(S), g[S \ {Max(S)}]>>]
        <3>1. CASE m + 1 \in S
            <4>1. Max(S) = m + 1
                <5>1. S \subseteq Int /\ \A k \in S : k <= m + 1
                    <6>1. \A k \in 1 .. m + 1 : k \in Int /\ k <= m + 1
                        OBVIOUS
                    <6> QED BY <6>1, Zenon
                <5> QED BY <3>1, <5>1, MaxIs
            <4>2. g[S \ {m + 1}] = f[S \ {m + 1}]
                BY <2>2, <2>5
            <4>3. g[S] = step[<<m + 1, f[S \ {m + 1}]>>]
                BY <3>1
            <4> HIDE DEF g
            <4> QED BY <3>1, <4>1, <4>2, <4>3
        <3>2. CASE m + 1 \notin S
            <4>1. S \in SUBSET (1 .. m)
                BY <2>3, <3>2
            <4>2. g[S] = f[S]
                BY <2>5, <4>1
            <4>3. f[S] = IF S = {} THEN base ELSE step[<<Max(S), f[S \ {Max(S)}]>>]
                BY <2>1, <4>1
            <4>4. S \ {Max(S)} \in SUBSET (1 .. m)
                BY <4>1
            <4>5. g[S \ {Max(S)}] = f[S \ {Max(S)}]
                BY <2>5, <4>4
            <4> HIDE DEF g
            <4> QED BY <4>2, <4>3, <4>5
        <3> QED BY <3>1, <3>2
    <2> QED BY <2>4, <2>6
<1> HIDE DEF H
<1>3. n \in H
    BY <1>1, <1>2, Induction
<1>0. Part(n)
    <2> HIDE DEF Part
    <2> QED BY <1>3 DEF H
<1>4. PICK f \in [SUBSET (1 .. n) -> E[n]] : Fold(f, n)
    BY <1>0, Zenon
<1>5. f = [S \in SUBSET (1 .. n) |-> IF S = {} THEN base ELSE step[<<Max(S), f[S \ {Max(S)}]>>]]
    BY <1>4, Zenon
<1> QED BY <1>5, Zenon DEF Folds

\* The fold exists, in a set that the steps do not leave.
LEMMA FoldExists ==
    ASSUME NEW n \in Nat, NEW D, NEW base \in D, NEW step \in [(1 .. n) \X D -> D]
    PROVE  \E f \in [SUBSET (1 .. n) -> D] : Folds(f, n, base, step)
<1>1. PICK E : E = [k \in 0 .. n |-> D]
    OBVIOUS
<1>2. \A k \in 1 .. n : k \in 0 .. n /\ k - 1 \in 0 .. n
    OBVIOUS
<1>3. Levels(E, n, base, step) /\ E[n] = D
    BY <1>1, <1>2 DEF Levels
<1>4. \E f \in [SUBSET (1 .. n) -> E[n]] : Folds(f, n, base, step)
    BY <1>3, LevelsFold
<1> QED BY <1>3, <1>4

-----------------------------------------------------------------------------
\* The copying loops of lib.c are folds.

\* One unit, byte or access of each copying loop.
StosStep(m, s, unit, k) == Put(m, s + Len(unit) * k, unit)

CopyStep(m, dest, src, k) == Put(m, dest + k, <<m[src + k]>>)

MemsetStep(m, s, c, u) == Put(m, s + u.at, [i \in 1 .. u.size |-> c % 256])

MemcpyStep(m, dest, src, u) == Put(m, dest + u.at, Get(m, src + u.at, u.size))

\* rep stos: the memories after each unit.
StosRun(h, memory, s, unit, n) ==
    /\ h[0] = memory /\ h[n] = Stos(memory, s, unit, n)
    /\ \A k \in 1 .. n : h[k] = StosStep(h[k - 1], s, unit, UpTo(n)[k])

\* Each loop is a fold that exists, if its steps stay in a set of memories.
LEMMA StosRuns ==
    ASSUME NEW memory, NEW s, NEW unit, NEW n \in Nat, DOMAIN UpTo(n) = 1 .. n,
           NEW D, memory \in D, \A m \in D, k \in 1 .. n : StosStep(m, s, unit, UpTo(n)[k]) \in D
    PROVE  \E h : StosRun(h, memory, s, unit, n)
<1> DEFINE body(m, x) == StosStep(m, s, unit, x)
           F(f) == [S \in SUBSET (DOMAIN UpTo(n)) |->
                      IF S = {} THEN memory ELSE body(f[S \ {Max(S)}], UpTo(n)[Max(S)])]
           step == [p \in (1 .. n) \X D |-> body(p[2], UpTo(n)[p[1]])]
           iter == CHOOSE f : f = F(f)
           h == [k \in 0 .. n |-> iter[1 .. k]]
<1>1. step \in [(1 .. n) \X D -> D]
    OBVIOUS
<1>2. Stos(memory, s, unit, n) = iter[DOMAIN UpTo(n)]
    BY DEF Stos, StosStep, FoldLeft, MapThenFoldSet
<1> HIDE DEF body
<1>3. PICK g \in [SUBSET (1 .. n) -> D] : Folds(g, n, memory, step)
    <2> HIDE DEF step
    <2> QED BY <1>1, FoldExists
<1>4. g = F(g)
    <2>1. ASSUME NEW S \in SUBSET (1 .. n), S # {}
          PROVE  step[<<Max(S), g[S \ {Max(S)}]>>] = body(g[S \ {Max(S)}], UpTo(n)[Max(S)])
        <3>1. Max(S) \in 1 .. n
            BY <2>1, LastOf
        <3> QED BY <3>1
    <2> HIDE DEF step
    <2> QED BY <1>3, <2>1 DEF Folds
<1>5. iter = F(iter)
    <2> HIDE DEF F
    <2> QED BY <1>4
<1> HIDE DEF iter
<1>6. h[0] = memory
    BY <1>5
<1>7. ASSUME NEW k \in 1 .. n PROVE h[k] = body(h[k - 1], UpTo(n)[k])
    <2>1. h[k] = iter[1 .. k] /\ h[k - 1] = iter[1 .. k - 1]
        OBVIOUS
    <2>2. iter[1 .. k] = body(iter[(1 .. k) \ {Max(1 .. k)}], UpTo(n)[Max(1 .. k)])
        BY <1>5, Intervals, ZenonT(40)
    <2> QED BY <2>1, <2>2, Intervals
<1>8. h[n] = iter[1 .. n]
    OBVIOUS
<1> HIDE DEF h
<1> QED BY <1>2, <1>6, <1>7, <1>8 DEF body, StosRun

\* A copy byte after byte: the memories after each.
CopyBytesRun(h, memory, dest, src, places, n) ==
    /\ h[0] = memory /\ h[n] = CopyBytes(memory, dest, src, places)
    /\ \A k \in 1 .. n : h[k] = CopyStep(h[k - 1], dest, src, places[k])

LEMMA CopyBytesRuns ==
    ASSUME NEW memory, NEW dest, NEW src, NEW places, NEW n \in Nat, DOMAIN places = 1 .. n,
           NEW D, memory \in D, \A m \in D, k \in 1 .. n : CopyStep(m, dest, src, places[k]) \in D
    PROVE  \E h : CopyBytesRun(h, memory, dest, src, places, n)
<1> DEFINE body(m, x) == CopyStep(m, dest, src, x)
           F(f) == [S \in SUBSET (DOMAIN places) |->
                      IF S = {} THEN memory ELSE body(f[S \ {Max(S)}], places[Max(S)])]
           step == [p \in (1 .. n) \X D |-> body(p[2], places[p[1]])]
           iter == CHOOSE f : f = F(f)
           h == [k \in 0 .. n |-> iter[1 .. k]]
<1>1. step \in [(1 .. n) \X D -> D]
    OBVIOUS
<1>2. CopyBytes(memory, dest, src, places) = iter[DOMAIN places]
    BY DEF CopyBytes, CopyStep, FoldLeft, MapThenFoldSet
<1> HIDE DEF body
<1>3. PICK g \in [SUBSET (1 .. n) -> D] : Folds(g, n, memory, step)
    <2> HIDE DEF step
    <2> QED BY <1>1, FoldExists
<1>4. g = F(g)
    <2>1. ASSUME NEW S \in SUBSET (1 .. n), S # {}
          PROVE  step[<<Max(S), g[S \ {Max(S)}]>>] = body(g[S \ {Max(S)}], places[Max(S)])
        <3>1. Max(S) \in 1 .. n
            BY <2>1, LastOf
        <3> QED BY <3>1
    <2> HIDE DEF step
    <2> QED BY <1>3, <2>1 DEF Folds
<1>5. iter = F(iter)
    <2> HIDE DEF F
    <2> QED BY <1>4
<1> HIDE DEF iter
<1>6. h[0] = memory
    BY <1>5
<1>7. ASSUME NEW k \in 1 .. n PROVE h[k] = body(h[k - 1], places[k])
    <2>1. h[k] = iter[1 .. k] /\ h[k - 1] = iter[1 .. k - 1]
        OBVIOUS
    <2>2. iter[1 .. k] = body(iter[(1 .. k) \ {Max(1 .. k)}], places[Max(1 .. k)])
        BY <1>5, Intervals, ZenonT(40)
    <2> QED BY <2>1, <2>2, Intervals
<1>8. h[n] = iter[1 .. n]
    OBVIOUS
<1> HIDE DEF h
<1> QED BY <1>2, <1>6, <1>7, <1>8 DEF body, CopyBytesRun

\* memset: the memories after each access.
MemsetRun(h, memory, s, c, n, l) ==
    /\ h[0] = memory /\ h[l] = Memset(memory, s, c, n)
    /\ \A k \in 1 .. l : h[k] = MemsetStep(h[k - 1], s, c, Units(s, n)[k])

LEMMA MemsetRuns ==
    ASSUME NEW memory, NEW s, NEW c, NEW n, NEW l \in Nat, DOMAIN Units(s, n) = 1 .. l,
           NEW D, memory \in D, \A m \in D, k \in 1 .. l : MemsetStep(m, s, c, Units(s, n)[k]) \in D
    PROVE  \E h : MemsetRun(h, memory, s, c, n, l)
<1> DEFINE body(m, x) == MemsetStep(m, s, c, x)
           F(f) == [S \in SUBSET (DOMAIN Units(s, n)) |->
                      IF S = {} THEN memory ELSE body(f[S \ {Max(S)}], Units(s, n)[Max(S)])]
           step == [p \in (1 .. l) \X D |-> body(p[2], Units(s, n)[p[1]])]
           iter == CHOOSE f : f = F(f)
           h == [k \in 0 .. l |-> iter[1 .. k]]
<1>1. step \in [(1 .. l) \X D -> D]
    OBVIOUS
<1>2. Memset(memory, s, c, n) = iter[DOMAIN Units(s, n)]
    BY DEF Memset, MemsetStep, FoldLeft, MapThenFoldSet
<1> HIDE DEF body
<1>3. PICK g \in [SUBSET (1 .. l) -> D] : Folds(g, l, memory, step)
    <2> HIDE DEF step
    <2> QED BY <1>1, FoldExists
<1>4. g = F(g)
    <2>1. ASSUME NEW S \in SUBSET (1 .. l), S # {}
          PROVE  step[<<Max(S), g[S \ {Max(S)}]>>] = body(g[S \ {Max(S)}], Units(s, n)[Max(S)])
        <3>1. Max(S) \in 1 .. l
            BY <2>1, LastOf
        <3> QED BY <3>1
    <2> HIDE DEF step
    <2> QED BY <1>3, <2>1 DEF Folds
<1>5. iter = F(iter)
    <2> HIDE DEF F
    <2> QED BY <1>4
<1> HIDE DEF iter
<1>6. h[0] = memory
    BY <1>5
<1>7. ASSUME NEW k \in 1 .. l PROVE h[k] = body(h[k - 1], Units(s, n)[k])
    <2>1. h[k] = iter[1 .. k] /\ h[k - 1] = iter[1 .. k - 1]
        OBVIOUS
    <2>2. iter[1 .. k] = body(iter[(1 .. k) \ {Max(1 .. k)}], Units(s, n)[Max(1 .. k)])
        BY <1>5, Intervals, ZenonT(40)
    <2> QED BY <2>1, <2>2, Intervals
<1>8. h[l] = iter[1 .. l]
    OBVIOUS
<1> HIDE DEF h
<1> QED BY <1>2, <1>6, <1>7, <1>8 DEF body, MemsetRun

\* memcpy: the memories after each access.
MemcpyRun(h, memory, dest, src, n, l) ==
    /\ h[0] = memory /\ h[l] = Memcpy(memory, dest, src, n)
    /\ \A k \in 1 .. l : h[k] = MemcpyStep(h[k - 1], dest, src, Units(dest, n)[k])

LEMMA MemcpyRuns ==
    ASSUME NEW memory, NEW dest, NEW src, NEW n, NEW l \in Nat, DOMAIN Units(dest, n) = 1 .. l,
           NEW D, memory \in D, \A m \in D, k \in 1 .. l : MemcpyStep(m, dest, src, Units(dest, n)[k]) \in D
    PROVE  \E h : MemcpyRun(h, memory, dest, src, n, l)
<1> DEFINE body(m, x) == MemcpyStep(m, dest, src, x)
           F(f) == [S \in SUBSET (DOMAIN Units(dest, n)) |->
                      IF S = {} THEN memory ELSE body(f[S \ {Max(S)}], Units(dest, n)[Max(S)])]
           step == [p \in (1 .. l) \X D |-> body(p[2], Units(dest, n)[p[1]])]
           iter == CHOOSE f : f = F(f)
           h == [k \in 0 .. l |-> iter[1 .. k]]
<1>1. step \in [(1 .. l) \X D -> D]
    OBVIOUS
<1>2. Memcpy(memory, dest, src, n) = iter[DOMAIN Units(dest, n)]
    BY DEF Memcpy, MemcpyStep, FoldLeft, MapThenFoldSet
<1> HIDE DEF body
<1>3. PICK g \in [SUBSET (1 .. l) -> D] : Folds(g, l, memory, step)
    <2> HIDE DEF step
    <2> QED BY <1>1, FoldExists
<1>4. g = F(g)
    <2>1. ASSUME NEW S \in SUBSET (1 .. l), S # {}
          PROVE  step[<<Max(S), g[S \ {Max(S)}]>>] = body(g[S \ {Max(S)}], Units(dest, n)[Max(S)])
        <3>1. Max(S) \in 1 .. l
            BY <2>1, LastOf
        <3> QED BY <3>1
    <2> HIDE DEF step
    <2> QED BY <1>3, <2>1 DEF Folds
<1>5. iter = F(iter)
    <2> HIDE DEF F
    <2> QED BY <1>4
<1> HIDE DEF iter
<1>6. h[0] = memory
    BY <1>5
<1>7. ASSUME NEW k \in 1 .. l PROVE h[k] = body(h[k - 1], Units(dest, n)[k])
    <2>1. h[k] = iter[1 .. k] /\ h[k - 1] = iter[1 .. k - 1]
        OBVIOUS
    <2>2. iter[1 .. k] = body(iter[(1 .. k) \ {Max(1 .. k)}], Units(dest, n)[Max(1 .. k)])
        BY <1>5, Intervals, ZenonT(40)
    <2> QED BY <2>1, <2>2, Intervals
<1>8. h[l] = iter[1 .. l]
    OBVIOUS
<1> HIDE DEF h
<1> QED BY <1>2, <1>6, <1>7, <1>8 DEF body, MemcpyRun

-----------------------------------------------------------------------------
\* Memory of which one run of bytes was written.

\* Memory of which the bytes from lo up to hi were written.
After(memory, lo, hi, byte) ==
    [a \in DOMAIN memory |-> IF a \in lo .. hi - 1 THEN byte[a] ELSE memory[a]]

\* Nothing was written yet; what was written stays in the set of memories.
LEMMA AfterNothing ==
    ASSUME NEW memory, memory = [a \in DOMAIN memory |-> memory[a]], NEW lo \in Int, NEW byte
    PROVE  After(memory, lo, lo, byte) = memory
<1>1. lo .. lo - 1 = {}
    OBVIOUS
<1> QED BY <1>1 DEF After

LEMMA AfterInMemory ==
    ASSUME NEW D, NEW B, NEW memory \in [D -> B], NEW lo, NEW hi, NEW byte,
           \A a \in lo .. hi - 1 : byte[a] \in B
    PROVE  After(memory, lo, hi, byte) \in [D -> B]
BY DEF After

\* The addresses of memory are numbers.
Addresses(memory) == DOMAIN memory \subseteq Int

\* bytes are those that belong at the addresses from lo up to hi.
Fits(bytes, lo, hi, byte) ==
    DOMAIN bytes = 1 .. hi - lo /\ \A i \in 1 .. hi - lo : bytes[i] = byte[lo + i - 1]

\* A run grows at its end, or at its beginning.
LEMMA PutAfter ==
    ASSUME NEW memory, Addresses(memory), NEW lo \in Int, NEW mid \in Int, NEW hi \in Int,
           lo <= mid, mid <= hi, NEW byte, NEW bytes, Fits(bytes, mid, hi, byte)
    PROVE  Put(After(memory, lo, mid, byte), mid, bytes) = After(memory, lo, hi, byte)
<1> DEFINE m == After(memory, lo, mid, byte)
<1>1. DOMAIN m = DOMAIN memory /\ DOMAIN bytes = 1 .. hi - mid
    BY DEF After, Fits
<1>2. ASSUME NEW a \in DOMAIN memory
      PROVE  (IF a - mid + 1 \in 1 .. hi - mid THEN bytes[a - mid + 1] ELSE m[a])
                = IF a \in lo .. hi - 1 THEN byte[a] ELSE memory[a]
    <2>1. a \in Int
        BY DEF Addresses
    <2>2. m[a] = IF a \in lo .. mid - 1 THEN byte[a] ELSE memory[a]
        BY DEF After
    <2> HIDE DEF m
    <2>3. CASE a - mid + 1 \in 1 .. hi - mid
        <3>1. mid + (a - mid + 1) - 1 = a /\ a \in lo .. hi - 1
            BY <2>1, <2>3
        <3>2. bytes[a - mid + 1] = byte[mid + (a - mid + 1) - 1]
            BY <2>3 DEF Fits
        <3> QED BY <2>3, <3>1, <3>2
    <2>4. CASE a - mid + 1 \notin 1 .. hi - mid
        <3>1. a \in lo .. hi - 1 <=> a \in lo .. mid - 1
            BY <2>1, <2>4
        <3> QED BY <2>2, <2>4, <3>1
    <2> QED BY <2>3, <2>4
<1> HIDE DEF m
<1> QED BY <1>1, <1>2 DEF Put, After

LEMMA PutBefore ==
    ASSUME NEW memory, Addresses(memory), NEW lo \in Int, NEW mid \in Int, NEW hi \in Int,
           lo < mid, mid <= lo + 1, mid <= hi, NEW byte, NEW b, b = byte[lo]
    PROVE  Put(After(memory, mid, hi, byte), lo, <<b>>) = After(memory, lo, hi, byte)
<1> DEFINE m == After(memory, mid, hi, byte)
<1>1. DOMAIN m = DOMAIN memory /\ DOMAIN <<b>> = 1 .. 1 /\ <<b>>[1] = b
    BY DEF After
<1>2. ASSUME NEW a \in DOMAIN memory
      PROVE  (IF a - lo + 1 \in 1 .. 1 THEN <<b>>[a - lo + 1] ELSE m[a])
                = IF a \in lo .. hi - 1 THEN byte[a] ELSE memory[a]
    <2>1. a \in Int
        BY DEF Addresses
    <2>2. m[a] = IF a \in mid .. hi - 1 THEN byte[a] ELSE memory[a]
        BY DEF After
    <2> HIDE DEF m
    <2>3. CASE a = lo
        <3>1. a - lo + 1 = 1 /\ a \in lo .. hi - 1 /\ 1 \in 1 .. 1
            BY <2>3
        <3> QED BY <1>1, <2>3, <3>1
    <2>4. CASE a # lo
        <3>1. a - lo + 1 \notin 1 .. 1
            BY <2>1, <2>4
        <3>2. a \in mid .. hi - 1 <=> a \in lo .. hi - 1
            BY <2>1, <2>4
        <3> QED BY <2>2, <3>1, <3>2
    <2> QED BY <2>3, <2>4
<1> HIDE DEF m
<1> QED BY <1>1, <1>2 DEF Put, After

\* Bytes that are put into memory leave it memory.
LEMMA PutInMemory ==
    ASSUME NEW D, NEW B, NEW m \in [D -> B], NEW at, NEW n \in Nat, NEW bytes \in [1 .. n -> B]
    PROVE  Put(m, at, bytes) \in [D -> B]
BY DEF Put

-----------------------------------------------------------------------------
\* memset: stos and the bytes, words and dwords around it.

\* Memory of bytes from address 0 to last.
IsMemory(memory, last) == last \in Nat /\ memory \in [0 .. last -> Int]

\* A unit again and again from s on; one byte everywhere.
Repeated(unit, l, s) == [a \in Int |-> unit[((a - s) % l) + 1]]

Always(b) == [a \in Int |-> b]

Beyond(s, n, unit) == s + n * Len(unit)

\* rep stos repeats the unit n times.
LEMMA StosIs ==
    ASSUME NEW last, NEW memory, IsMemory(memory, last), NEW s \in Int,
           NEW unit \in Seq(Int), unit # <<>>, NEW n \in Nat
    PROVE  Stos(memory, s, unit, n)
             = After(memory, s, Beyond(s, n, unit), Repeated(unit, Len(unit), s))
<1>l. PICK l \in Nat \ {0} : l = Len(unit)
    OBVIOUS
<1> USE <1>l
<1>0. PICK D, B : D \subseteq Int /\ memory \in [D -> B] /\ unit \in Seq(B)
    <2>1. 0 .. last \subseteq Int /\ memory \in [0 .. last -> Int] /\ unit \in Seq(Int)
        BY DEF IsMemory
    <2> QED BY <2>1, Zenon
<1> USE <1>0
<1> DEFINE byte == Repeated(unit, l, s)
           M == [D -> B]
<1>1. DOMAIN UpTo(n) = 1 .. n /\ \A k \in 1 .. n : UpTo(n)[k] = k - 1
    BY DEF UpTo
<1>2. unit \in [1 .. l -> B] /\ l \in Nat
    OBVIOUS
<1>3. memory \in M /\ \A m \in M, k \in 1 .. n : StosStep(m, s, unit, UpTo(n)[k]) \in M
    BY <1>2, PutInMemory DEF StosStep
<1>4. memory = [a \in DOMAIN memory |-> memory[a]] /\ DOMAIN memory \subseteq Int
    OBVIOUS
<1> HIDE DEF M, byte
<1>5. PICK h : StosRun(h, memory, s, unit, n)
    BY <1>1, <1>3, StosRuns
<1>6. /\ h[0] = memory /\ h[n] = Stos(memory, s, unit, n)
      /\ \A k \in 1 .. n : h[k] = StosStep(h[k - 1], s, unit, UpTo(n)[k])
    BY <1>5 DEF StosRun
<1> DEFINE H == {k \in Nat : k <= n => h[k] = After(memory, s, s + k * l, byte)}
<1>7. 0 \in H
    <2>1. s + 0 * l = s
        OBVIOUS
    <2>2. After(memory, s, s, byte) = memory
        BY <1>4, AfterNothing
    <2> QED BY <1>6, <2>1, <2>2
<1>8. ASSUME NEW k \in Nat, k \in H PROVE k + 1 \in H
    <2> SUFFICES ASSUME k + 1 <= n PROVE h[k + 1] = After(memory, s, s + (k + 1) * l, byte)
        OBVIOUS
    <2>1. k + 1 \in 1 .. n /\ k <= n /\ k + 1 - 1 = k
        OBVIOUS
    <2>2. PICK mid \in Int : mid = s + k * l
        OBVIOUS
    <2>3. PICK hi \in Int : hi = s + (k + 1) * l /\ hi - mid = l
        <3>1. s + (k + 1) * l = s + k * l + l
            BY <1>2
        <3> QED BY <1>2, <2>2, <3>1
    <2>4. h[k] = After(memory, s, mid, byte)
        BY <1>8, <2>1, <2>2
    <2>5. h[k + 1] = Put(h[k], mid, unit)
        <3>1. h[k + 1] = StosStep(h[k], s, unit, k)
            <4>1. h[k + 1] = StosStep(h[k + 1 - 1], s, unit, UpTo(n)[k + 1])
                BY <1>6, <2>1
            <4>2. UpTo(n)[k + 1] = k
                BY <1>1, <2>1
            <4> QED BY <2>1, <4>1, <4>2
        <3>2. s + Len(unit) * k = mid
            BY <1>2, <2>2
        <3> QED BY <3>1, <3>2 DEF StosStep
    <2>6. ASSUME NEW i \in 1 .. hi - mid PROVE unit[i] = byte[mid + i - 1]
        <3>1. i \in 1 .. l /\ i - 1 \in 0 .. l - 1 /\ mid + i - 1 \in Int /\ i - 1 + 1 = i
            BY <2>3
        <3>2. mid + i - 1 - s = k * l + (i - 1)
            BY <1>2, <2>2
        <3>3. (k * l + (i - 1)) % l = i - 1
            BY <3>1, Divided
        <3>4. byte[mid + i - 1] = unit[((mid + i - 1 - s) % l) + 1]
            BY <3>1 DEF byte, Repeated, Always
        <3> QED BY <3>1, <3>2, <3>3, <3>4
    <2>7. s <= mid /\ mid <= hi /\ DOMAIN unit = 1 .. hi - mid
        BY <1>2, <2>2, <2>3
    <2>9. Fits(unit, mid, hi, byte) /\ Addresses(memory)
        BY <1>4, <2>6, <2>7 DEF Fits, Addresses
    <2>8. Put(After(memory, s, mid, byte), mid, unit) = After(memory, s, hi, byte)
        BY <2>7, <2>9, PutAfter
    <2> QED BY <2>3, <2>4, <2>5, <2>8
<1> HIDE DEF H
<1>9. n \in H
    BY <1>7, <1>8, Induction
<1> QED BY <1>6, <1>9 DEF H, byte, Beyond

\* Two sequences, one behind the other.
LEMMA Joined ==
    ASSUME NEW S, NEW x \in Seq(S), NEW y \in Seq(S)
    PROVE  /\ x \o y \in Seq(S) /\ Len(x \o y) = Len(x) + Len(y)
           /\ \A i \in 1 .. Len(x) + Len(y) : (x \o y)[i] = IF i <= Len(x) THEN x[i] ELSE y[i - Len(x)]
<1>1. x \o y \in Seq(S) /\ Len(x \o y) = Len(x) + Len(y)
    OBVIOUS
<1>2. ASSUME NEW i \in 1 .. Len(x) + Len(y)
      PROVE  (x \o y)[i] = IF i <= Len(x) THEN x[i] ELSE y[i - Len(x)]
    OBVIOUS
<1> QED BY <1>1, <1>2

\* What the accesses are: each begins where the one before it ended.
Follow(units, n, l, end) ==
    /\ DOMAIN units = 1 .. l /\ end \in [0 .. l -> 0 .. n] /\ end[0] = 0 /\ end[l] = n
    /\ \A k \in 1 .. l : /\ end[k - 1] <= end[k]
                         /\ units[k] = [at |-> end[k - 1], size |-> end[k] - end[k - 1]]

\* The accesses of memset and memcpy follow each other, from the first byte to
\* the last.
LEMMA UnitsAre ==
    ASSUME NEW dest \in Int, NEW n \in Nat
    PROVE  \E l \in Nat : \E end : Follow(Units(dest, n), n, l, end)
<1>1. PICK gap \in 0 .. 3 : gap = (4 - (dest % 4)) % 4
    OBVIOUS
<1>2. PICK head \in 0 .. n : head = IF n < gap THEN n ELSE gap
    BY <1>1
<1>3. PICK dwords \in Nat, tail \in 0 .. 3 : /\ dwords = (n - head) \div 4 /\ tail = (n - head) % 4
                                           /\ n = head + 4 * dwords + tail
    <2>1. n - head \in Nat
        OBVIOUS
    <2> QED BY <2>1
<1> DEFINE R == [at : Int, size : Int]
           a == [k \in 1 .. head |-> [at |-> k - 1, size |-> 1]]
           b == [k \in 1 .. dwords |-> [at |-> head + 4 * (k - 1), size |-> 4]]
           c == [k \in 1 .. tail |-> [at |-> head + 4 * dwords + k - 1, size |-> 1]]
           l == head + dwords + tail
           end == [k \in 0 .. l |-> IF k <= head THEN k
                                    ELSE IF k <= head + dwords THEN head + 4 * (k - head)
                                    ELSE head + 4 * dwords + (k - head - dwords)]
<1>4. Units(dest, n) = a \o b \o c
    BY <1>1, <1>2, <1>3 DEF Units
<1>5. /\ a \in Seq(R) /\ b \in Seq(R) /\ c \in Seq(R)
      /\ Len(a) = head /\ Len(b) = dwords /\ Len(c) = tail
    OBVIOUS
<1>6. /\ \A k \in 1 .. head : a[k] = [at |-> k - 1, size |-> 1]
      /\ \A k \in 1 .. dwords : b[k] = [at |-> head + 4 * (k - 1), size |-> 4]
      /\ \A k \in 1 .. tail : c[k] = [at |-> head + 4 * dwords + k - 1, size |-> 1]
    OBVIOUS
<1> HIDE DEF a, b, c
<1>7. a \o b \in Seq(R) /\ Len(a \o b) = head + dwords
      /\ \A k \in 1 .. head + dwords : (a \o b)[k] = IF k <= head THEN a[k] ELSE b[k - head]
    BY <1>5, ConcatProperties
<1>8. a \o b \o c \in Seq(R) /\ Len(a \o b \o c) = l
      /\ \A k \in 1 .. l : (a \o b \o c)[k] = IF k <= head + dwords THEN (a \o b)[k]
                                                ELSE c[k - head - dwords]
    <2>1. \A k \in 1 .. l : k - (head + dwords) = k - head - dwords
        OBVIOUS
    <2> DEFINE ab == a \o b
    <2> HIDE DEF ab
    <2>2. ab \in Seq(R) /\ Len(ab) = head + dwords
        BY <1>7 DEF ab
    <2>3. /\ ab \o c \in Seq(R) /\ Len(ab \o c) = Len(ab) + Len(c)
          /\ \A k \in 1 .. Len(ab) + Len(c) : (ab \o c)[k] = IF k <= Len(ab) THEN ab[k]
                                                           ELSE c[k - Len(ab)]
        <3>1. ab \in Seq(R) /\ c \in Seq(R)
            BY <1>5, <2>2
        <3> HIDE DEF R
        <3> QED BY <3>1, Joined
    <2>4. Len(ab) + Len(c) = l
        BY <1>5, <2>2
    <2>5. \A k \in 1 .. l : (ab \o c)[k] = IF k <= head + dwords THEN ab[k]
                                           ELSE c[k - head - dwords]
        <3> HIDE DEF l
        <3> QED BY <2>1, <2>2, <2>3, <2>4
    <2> QED BY <2>3, <2>4, <2>5 DEF ab
<1>9. l \in Nat /\ end \in [0 .. l -> 0 .. n] /\ end[0] = 0 /\ end[l] = n
    BY <1>3
<1>10. ASSUME NEW k \in 1 .. l
       PROVE  /\ end[k - 1] <= end[k]
              /\ (a \o b \o c)[k] = [at |-> end[k - 1], size |-> end[k] - end[k - 1]]
    <2>1. k \in 0 .. l /\ k - 1 \in 0 .. l
        OBVIOUS
    <2>2. CASE k <= head
        <3>1. end[k] = k /\ end[k - 1] = k - 1
            BY <2>1, <2>2
        <3>2. k \in 1 .. head + dwords /\ k <= head + dwords /\ k \in 1 .. head
            BY <2>2
        <3>3. (a \o b \o c)[k] = a[k]
            BY <1>7, <1>8, <2>2, <3>2
        <3> QED BY <1>6, <3>1, <3>2, <3>3
    <2>3. CASE k > head /\ k <= head + dwords
        <3>1. end[k] = head + 4 * (k - head) /\ end[k - 1] = head + 4 * (k - 1 - head)
            BY <2>1, <2>3
        <3>2. k \in 1 .. head + dwords /\ k - head \in 1 .. dwords /\ ~(k <= head)
            BY <2>3
        <3>3. (a \o b \o c)[k] = b[k - head]
            BY <1>7, <1>8, <2>3, <3>2
        <3>4. b[k - head] = [at |-> head + 4 * (k - head - 1), size |-> 4]
            BY <1>6, <3>2
        <3>5. head + 4 * (k - head - 1) = end[k - 1] /\ end[k] - end[k - 1] = 4
            BY <3>1
        <3>6. end[k - 1] <= end[k]
            BY <3>1
        <3> HIDE DEF end
        <3> QED BY <3>3, <3>4, <3>5, <3>6
    <2>4. CASE k > head + dwords
        <3>1. /\ end[k] = head + 4 * dwords + (k - head - dwords)
              /\ end[k - 1] = head + 4 * dwords + (k - 1 - head - dwords)
            BY <2>1, <2>4
        <3>2. k - head - dwords \in 1 .. tail /\ ~(k <= head + dwords)
            BY <2>4
        <3>3. (a \o b \o c)[k] = c[k - head - dwords]
            BY <1>8, <3>2
        <3>4. c[k - head - dwords]
                = [at |-> head + 4 * dwords + (k - head - dwords) - 1, size |-> 1]
            BY <1>6, <3>2
        <3>5. /\ head + 4 * dwords + (k - head - dwords) - 1 = end[k - 1]
              /\ end[k] - end[k - 1] = 1 /\ end[k - 1] <= end[k]
            BY <3>1
        <3> HIDE DEF end
        <3> QED BY <3>3, <3>4, <3>5
    <2>5. k <= head \/ (k > head /\ k <= head + dwords) \/ k > head + dwords
        OBVIOUS
    <2> QED BY <2>2, <2>3, <2>4, <2>5, Zenon
<1>11. DOMAIN (a \o b \o c) = 1 .. l
    BY <1>8
<1> HIDE DEF end, l
<1>12. Follow(Units(dest, n), n, l, end)
    BY <1>4, <1>9, <1>10, <1>11 DEF Follow
<1> QED BY <1>9, <1>12

\* An access lies in what is written.
LEMMA OneUnit ==
    ASSUME NEW n \in Nat, NEW l \in Nat, NEW units, NEW end, Follow(units, n, l, end), NEW k \in 1 .. l
    PROVE  \E at \in 0 .. n, upto \in 0 .. n :
             /\ at = end[k - 1] /\ upto = end[k] /\ at <= upto /\ upto - at \in Nat
             /\ units[k].at = at /\ units[k].size = upto - at
<1>1. k \in 0 .. l /\ k - 1 \in 0 .. l
    OBVIOUS
<1>2. PICK at \in 0 .. n : at = end[k - 1]
    BY <1>1 DEF Follow
<1>3. PICK upto \in 0 .. n : upto = end[k]
    BY <1>1 DEF Follow
<1>4. at <= upto /\ units[k] = [at |-> at, size |-> upto - at]
    BY <1>2, <1>3 DEF Follow
<1>5. units[k].at = at /\ units[k].size = upto - at
    BY <1>4
<1>6. upto - at \in Nat
    BY <1>4
<1> QED BY <1>2, <1>3, <1>4, <1>5, <1>6

\* memset sets the bytes from s up to s + n and no other.
THEOREM MemsetIs ==
    ASSUME NEW last, NEW memory, IsMemory(memory, last), NEW s \in Int,
           NEW c \in Int, NEW n \in Nat
    PROVE  Memset(memory, s, c, n) = After(memory, s, s + n, Always(c % 256))
<1>0. PICK D, B : D \subseteq Int /\ memory \in [D -> B] /\ c % 256 \in B
    <2>1. 0 .. last \subseteq Int /\ memory \in [0 .. last -> Int] /\ c % 256 \in Int
        BY DEF IsMemory
    <2> QED BY <2>1, Zenon
<1> USE <1>0
<1> DEFINE byte == Always(c % 256)
           M == [D -> B]
<1>1. PICK l \in Nat : \E end : Follow(Units(s, n), n, l, end)
    BY UnitsAre
<1>2. PICK end : Follow(Units(s, n), n, l, end)
    BY <1>1
<1>3. ASSUME NEW m \in M, NEW k \in 1 .. l PROVE MemsetStep(m, s, c, Units(s, n)[k]) \in M
    <2>1. PICK size \in Nat : size = Units(s, n)[k].size
        <3>1. \E at \in 0 .. n, upto \in 0 .. n :
                /\ at = end[k - 1] /\ upto = end[k] /\ at <= upto /\ upto - at \in Nat
                /\ Units(s, n)[k].at = at /\ Units(s, n)[k].size = upto - at
            BY <1>2, OneUnit
        <3> QED BY <3>1
    <2>2. PICK bytes \in [1 .. size -> B] : bytes = [i \in 1 .. size |-> c % 256]
        OBVIOUS
    <2>3. PICK at : at = s + Units(s, n)[k].at
        OBVIOUS
    <2>4. MemsetStep(m, s, c, Units(s, n)[k]) = Put(m, at, bytes)
        BY <2>1, <2>2, <2>3 DEF MemsetStep
    <2>5. Put(m, at, bytes) \in [D -> B]
        BY PutInMemory
    <2> QED BY <2>4, <2>5
<1>4. memory = [a \in DOMAIN memory |-> memory[a]] /\ DOMAIN memory \subseteq Int /\ memory \in M
    OBVIOUS
<1>5. DOMAIN Units(s, n) = 1 .. l
    BY <1>2 DEF Follow
<1> HIDE DEF M
<1>6. PICK h : MemsetRun(h, memory, s, c, n, l)
    BY <1>3, <1>4, <1>5, MemsetRuns
<1>7. /\ h[0] = memory /\ h[l] = Memset(memory, s, c, n)
      /\ \A k \in 1 .. l : h[k] = MemsetStep(h[k - 1], s, c, Units(s, n)[k])
    BY <1>6 DEF MemsetRun
<1> DEFINE H == {k \in Nat : k <= l => h[k] = After(memory, s, s + end[k], byte)}
<1> HIDE DEF byte, Repeated, Always
<1>8. 0 \in H
    <2>1. After(memory, s, s, byte) = memory
        BY <1>4, AfterNothing
    <2>2. s + end[0] = s
        BY <1>2 DEF Follow
    <2> QED BY <1>7, <2>1, <2>2
<1>9. ASSUME NEW k \in Nat, k \in H PROVE k + 1 \in H
    <2> SUFFICES ASSUME k + 1 <= l PROVE h[k + 1] = After(memory, s, s + end[k + 1], byte)
        OBVIOUS
    <2>1. k + 1 \in 1 .. l /\ k <= l /\ k + 1 - 1 = k
        OBVIOUS
    <2>2. PICK at \in 0 .. n, upto \in 0 .. n :
             /\ at = end[k] /\ upto = end[k + 1] /\ at <= upto /\ upto - at \in Nat
             /\ Units(s, n)[k + 1].at = at /\ Units(s, n)[k + 1].size = upto - at
        BY <1>2, <2>1, OneUnit
    <2>3. PICK mid \in Int, hi \in Int : mid = s + at /\ hi = s + upto
        OBVIOUS
    <2>4. s <= mid /\ mid <= hi /\ hi - mid = upto - at
        BY <2>2, <2>3
    <2>5. h[k] = After(memory, s, mid, byte)
        BY <1>9, <2>1, <2>2, <2>3
    <2>11. PICK bytes : bytes = [i \in 1 .. hi - mid |-> c % 256]
        OBVIOUS
    <2>6. h[k + 1] = Put(h[k], mid, bytes)
        <3>1. h[k + 1] = MemsetStep(h[k], s, c, Units(s, n)[k + 1])
            BY <1>7, <2>1
        <3> QED BY <2>2, <2>3, <2>4, <2>11, <3>1 DEF MemsetStep
    <2>7. \A i \in 1 .. hi - mid : bytes[i] = byte[mid + i - 1]
        BY <2>11 DEF byte, Repeated, Always
    <2>8. Fits(bytes, mid, hi, byte)
        BY <2>7, <2>11 DEF Fits
    <2>9. Addresses(memory)
        BY <1>4 DEF Addresses
    <2>10. Put(After(memory, s, mid, byte), mid, bytes) = After(memory, s, hi, byte)
        BY <2>4, <2>8, <2>9, PutAfter
    <2> QED BY <2>2, <2>3, <2>5, <2>6, <2>10
<1> HIDE DEF H
<1>10. l \in H
    BY <1>8, <1>9, Induction
<1>11. s + end[l] = s + n
    BY <1>2 DEF Follow
<1> QED BY <1>7, <1>10, <1>11 DEF H, byte

-----------------------------------------------------------------------------
\* memcpy, and memmove upwards and downwards.

InMemory(s, n, last) == s .. s + n - 1 \subseteq 0 .. last

\* The bytes of memory from src on, by the addresses from dest on.
Shifted(memory, dest, src) == [a \in Int |-> memory[a - dest + src]]

\* memcpy copies the bytes from src up to src + n, if it never reads one that it
\* has written.
THEOREM MemcpyIs ==
    ASSUME NEW last, NEW memory, IsMemory(memory, last), NEW dest \in Int, NEW src \in Int,
           NEW n \in Nat, InMemory(src, n, last), dest <= src \/ src + n <= dest
    PROVE  Memcpy(memory, dest, src, n)
             = After(memory, dest, dest + n, Shifted(memory, dest, src))
<1>0. PICK D, B : D \subseteq Int /\ memory \in [D -> B] /\ src .. src + n - 1 \subseteq D
    <2>1. 0 .. last \subseteq Int /\ memory \in [0 .. last -> Int] /\ src .. src + n - 1 \subseteq 0 .. last
        BY SMTT(30) DEF IsMemory, InMemory
    <2> QED BY <2>1, Zenon
<1> USE <1>0
<1> DEFINE byte == Shifted(memory, dest, src)
           M == [D -> B]
<1>1. PICK l \in Nat : \E end : Follow(Units(dest, n), n, l, end)
    BY UnitsAre
<1>2. PICK end : Follow(Units(dest, n), n, l, end)
    BY <1>1
<1>3. ASSUME NEW m \in M, NEW k \in 1 .. l PROVE MemcpyStep(m, dest, src, Units(dest, n)[k]) \in M
    <2>1. PICK at \in 0 .. n, upto \in 0 .. n :
             /\ at = end[k - 1] /\ upto = end[k] /\ at <= upto /\ upto - at \in Nat
             /\ Units(dest, n)[k].at = at /\ Units(dest, n)[k].size = upto - at
        BY <1>2, OneUnit
    <2>2. PICK size \in Nat : size = upto - at
        BY <2>1
    <2>3. \A i \in 1 .. size : src + at + i - 1 \in src .. src + n - 1
        BY <2>2
    <2>4. PICK bytes \in [1 .. size -> B] : bytes = Get(m, src + at, size)
        BY <2>3 DEF Get
    <2>5. PICK to : to = dest + at
        OBVIOUS
    <2>6. MemcpyStep(m, dest, src, Units(dest, n)[k]) = Put(m, to, bytes)
        BY <2>1, <2>2, <2>4, <2>5 DEF MemcpyStep
    <2>7. Put(m, to, bytes) \in [D -> B]
        BY PutInMemory
    <2> QED BY <2>6, <2>7
<1>4. memory = [a \in DOMAIN memory |-> memory[a]] /\ memory \in M
    OBVIOUS
<1>5. DOMAIN Units(dest, n) = 1 .. l
    BY <1>2 DEF Follow
<1> HIDE DEF M
<1>6. PICK h : MemcpyRun(h, memory, dest, src, n, l)
    BY <1>3, <1>4, <1>5, MemcpyRuns
<1>7. /\ h[0] = memory /\ h[l] = Memcpy(memory, dest, src, n)
      /\ \A k \in 1 .. l : h[k] = MemcpyStep(h[k - 1], dest, src, Units(dest, n)[k])
    BY <1>6 DEF MemcpyRun
<1> DEFINE H == {k \in Nat : k <= l => h[k] = After(memory, dest, dest + end[k], byte)}
<1> HIDE DEF byte, Shifted
<1>8. 0 \in H
    <2>1. After(memory, dest, dest, byte) = memory
        BY <1>4, AfterNothing
    <2>2. dest + end[0] = dest
        BY <1>2 DEF Follow
    <2> QED BY <1>7, <2>1, <2>2
<1>9. ASSUME NEW k \in Nat, k \in H PROVE k + 1 \in H
    <2> SUFFICES ASSUME k + 1 <= l PROVE h[k + 1] = After(memory, dest, dest + end[k + 1], byte)
        OBVIOUS
    <2>1. k + 1 \in 1 .. l /\ k <= l /\ k + 1 - 1 = k
        OBVIOUS
    <2>2. PICK at \in 0 .. n, upto \in 0 .. n :
             /\ at = end[k] /\ upto = end[k + 1] /\ at <= upto /\ upto - at \in Nat
             /\ Units(dest, n)[k + 1].at = at /\ Units(dest, n)[k + 1].size = upto - at
        BY <1>2, <2>1, OneUnit
    <2>3. PICK mid \in Int, hi \in Int : mid = dest + at /\ hi = dest + upto
        OBVIOUS
    <2>4. dest <= mid /\ mid <= hi /\ hi - mid = upto - at
        BY <2>2, <2>3
    <2>5. PICK m : m = h[k] /\ m = After(memory, dest, mid, byte)
        BY <1>9, <2>1, <2>2, <2>3
    <2>6. PICK bytes : bytes = Get(m, src + at, hi - mid)
        OBVIOUS
    <2>7. h[k + 1] = Put(m, mid, bytes)
        <3>0. h[k + 1] = MemcpyStep(h[k], dest, src, Units(dest, n)[k + 1])
            BY <1>7, <2>1
        <3>1. h[k + 1] = MemcpyStep(m, dest, src, Units(dest, n)[k + 1])
            BY <2>5, <3>0
        <3> QED BY <2>2, <2>3, <2>4, <2>6, <3>1 DEF MemcpyStep
    <2>8. ASSUME NEW i \in 1 .. hi - mid PROVE bytes[i] = byte[mid + i - 1]
        <3>1. PICK x \in src .. src + n - 1 : x = src + at + i - 1
            BY <2>2, <2>3, <2>4
        <3>2. x \in D /\ x \notin dest .. mid - 1
            BY <2>3, <3>1
        <3>3. m[x] = memory[x]
            BY <2>5, <3>2 DEF After
        <3>4. mid + i - 1 \in Int /\ mid + i - 1 - dest + src = x
            BY <2>3, <3>1
        <3>5. byte[mid + i - 1] = memory[x]
            BY <3>4 DEF byte, Shifted
        <3> QED BY <2>6, <3>1, <3>3, <3>5 DEF Get
    <2>9. Fits(bytes, mid, hi, byte) /\ Addresses(memory)
        BY <2>6, <2>8 DEF Fits, Get, Addresses
    <2>10. Put(After(memory, dest, mid, byte), mid, bytes) = After(memory, dest, hi, byte)
        BY <2>4, <2>9, PutAfter
    <2> QED BY <2>2, <2>3, <2>5, <2>7, <2>10
<1> HIDE DEF H
<1>10. l \in H
    BY <1>8, <1>9, Induction
<1>11. dest + end[l] = dest + n
    BY <1>2 DEF Follow
<1> QED BY <1>7, <1>10, <1>11 DEF H, byte

\* So do copies byte after byte from the front.
LEMMA CopyUpIs ==
    ASSUME NEW last, NEW memory, IsMemory(memory, last), NEW dest \in Int, NEW src \in Int,
           NEW n \in Nat, InMemory(src, n, last), dest <= src \/ src + n <= dest
    PROVE  CopyBytes(memory, dest, src, UpTo(n))
             = After(memory, dest, dest + n, Shifted(memory, dest, src))
<1>0. PICK D, B : D \subseteq Int /\ memory \in [D -> B] /\ src .. src + n - 1 \subseteq D
    <2>1. 0 .. last \subseteq Int /\ memory \in [0 .. last -> Int] /\ src .. src + n - 1 \subseteq 0 .. last
        BY SMTT(30) DEF IsMemory, InMemory
    <2> QED BY <2>1, Zenon
<1> USE <1>0
<1> DEFINE byte == Shifted(memory, dest, src)
           M == [D -> B]
<1>1. DOMAIN UpTo(n) = 1 .. n /\ \A k \in 1 .. n : UpTo(n)[k] = k - 1
    BY DEF UpTo
<1>2. PICK places : places = UpTo(n)
    OBVIOUS
<1>3. ASSUME NEW m \in M, NEW k \in 1 .. n PROVE CopyStep(m, dest, src, places[k]) \in M
    <2>1. src + (k - 1) \in src .. src + n - 1
        OBVIOUS
    <2>6. PICK b \in B : b = m[src + (k - 1)]
        BY <2>1
    <2>2. PICK bytes \in [1 .. 1 -> B] : bytes = <<b>>
        <3>1. <<b>> = [i \in 1 .. 1 |-> b]
            OBVIOUS
        <3>2. [i \in 1 .. 1 |-> b] \in [1 .. 1 -> B]
            OBVIOUS
        <3> QED BY <3>1, <3>2
    <2>3. PICK to : to = dest + (k - 1)
        OBVIOUS
    <2>4. CopyStep(m, dest, src, places[k]) = Put(m, to, bytes)
        BY <1>1, <1>2, <2>2, <2>3, <2>6 DEF CopyStep
    <2>5. Put(m, to, bytes) \in [D -> B]
        BY PutInMemory
    <2> QED BY <2>4, <2>5
<1>4. memory = [a \in DOMAIN memory |-> memory[a]] /\ memory \in M
    OBVIOUS
<1> HIDE DEF M
<1>5. DOMAIN places = 1 .. n
    BY <1>1, <1>2
<1>6. PICK h : CopyBytesRun(h, memory, dest, src, places, n)
    BY <1>3, <1>4, <1>5, CopyBytesRuns
<1>7. /\ h[0] = memory /\ h[n] = CopyBytes(memory, dest, src, places)
      /\ \A k \in 1 .. n : h[k] = CopyStep(h[k - 1], dest, src, places[k])
    BY <1>6 DEF CopyBytesRun
<1> DEFINE H == {k \in Nat : k <= n => h[k] = After(memory, dest, dest + k, byte)}
<1> HIDE DEF byte, Shifted
<1>8. 0 \in H
    <2>1. After(memory, dest, dest, byte) = memory
        BY <1>4, AfterNothing
    <2>2. dest + 0 = dest
        OBVIOUS
    <2> QED BY <1>7, <2>1, <2>2
<1>9. ASSUME NEW k \in Nat, k \in H PROVE k + 1 \in H
    <2> SUFFICES ASSUME k + 1 <= n PROVE h[k + 1] = After(memory, dest, dest + (k + 1), byte)
        OBVIOUS
    <2>1. k + 1 \in 1 .. n /\ k <= n /\ k + 1 - 1 = k
        OBVIOUS
    <2>2. PICK mid \in Int, hi \in Int : mid = dest + k /\ hi = dest + (k + 1)
        OBVIOUS
    <2>3. dest <= mid /\ mid <= hi /\ hi - mid = 1
        BY <2>2
    <2>4. PICK m : m = h[k] /\ m = After(memory, dest, mid, byte)
        BY <1>9, <2>1, <2>2
    <2>5. PICK x \in src .. src + n - 1 : x = src + k
        BY <2>1
    <2>6. PICK bytes : bytes = <<m[x]>>
        OBVIOUS
    <2>7. h[k + 1] = Put(m, mid, bytes)
        <3>0. h[k + 1] = CopyStep(h[k], dest, src, places[k + 1])
            BY <1>7, <2>1
        <3>1. h[k + 1] = CopyStep(m, dest, src, k)
            <4>1. places[k + 1] = k
                BY <1>1, <1>2, <2>1
            <4> QED BY <2>4, <3>0, <4>1
        <3> QED BY <2>2, <2>5, <2>6, <3>1 DEF CopyStep
    <2>8. bytes[1] = byte[mid]
        <3>1. x \in D /\ x \notin dest .. mid - 1
            BY <2>1, <2>2, <2>5
        <3>2. m[x] = memory[x]
            BY <2>4, <3>1 DEF After
        <3>3. mid - dest + src = x
            BY <2>2, <2>5
        <3>4. byte[mid] = memory[x]
            BY <3>3 DEF byte, Shifted
        <3> QED BY <2>6, <3>2, <3>4
    <2>9. Fits(bytes, mid, hi, byte)
        <3>1. DOMAIN bytes = 1 .. hi - mid /\ \A i \in 1 .. hi - mid : i = 1 /\ mid + i - 1 = mid
            BY <2>3, <2>6
        <3> QED BY <2>8, <3>1 DEF Fits
    <2>10. Addresses(memory)
        BY DEF Addresses
    <2>11. Put(After(memory, dest, mid, byte), mid, bytes) = After(memory, dest, hi, byte)
        BY <2>3, <2>9, <2>10, PutAfter
    <2> QED BY <2>2, <2>4, <2>7, <2>11
<1> HIDE DEF H
<1>10. n \in H
    BY <1>8, <1>9, Induction
<1> QED BY <1>2, <1>7, <1>10 DEF H, byte

\* And from the end, if the source lies below.
LEMMA CopyDownIs ==
    ASSUME NEW last, NEW memory, IsMemory(memory, last), NEW dest \in Int, NEW src \in Int,
           NEW n \in Nat, InMemory(src, n, last), src < dest
    PROVE  CopyBytes(memory, dest, src, Reverse(UpTo(n)))
             = After(memory, dest, dest + n, Shifted(memory, dest, src))
<1>0. PICK D, B : D \subseteq Int /\ memory \in [D -> B] /\ src .. src + n - 1 \subseteq D
    <2>1. 0 .. last \subseteq Int /\ memory \in [0 .. last -> Int] /\ src .. src + n - 1 \subseteq 0 .. last
        BY DEF IsMemory, InMemory
    <2> QED BY <2>1, Zenon
<1> USE <1>0
<1> DEFINE byte == Shifted(memory, dest, src)
           M == [D -> B]
<1>1. DOMAIN Reverse(UpTo(n)) = 1 .. n /\ \A k \in 1 .. n : Reverse(UpTo(n))[k] = n - k
    <2>1. UpTo(n) \in [1 .. n -> Int] /\ \A k \in 1 .. n : UpTo(n)[k] = k - 1
        BY DEF UpTo
    <2>2. UpTo(n) \in Seq(Int) /\ Len(UpTo(n)) = n
        BY <2>1
    <2>3. \A k \in 1 .. n : n - k + 1 \in 1 .. n /\ n - k + 1 - 1 = n - k
        OBVIOUS
    <2> QED BY <2>1, <2>2, <2>3 DEF Reverse
<1>2. PICK places : places = Reverse(UpTo(n))
    OBVIOUS
<1>3. ASSUME NEW m \in M, NEW k \in 1 .. n PROVE CopyStep(m, dest, src, places[k]) \in M
    <2>1. src + (n - k) \in src .. src + n - 1
        OBVIOUS
    <2>6. PICK b \in B : b = m[src + (n - k)]
        BY <2>1
    <2>2. PICK bytes \in [1 .. 1 -> B] : bytes = <<b>>
        <3>1. <<b>> = [i \in 1 .. 1 |-> b]
            OBVIOUS
        <3>2. [i \in 1 .. 1 |-> b] \in [1 .. 1 -> B]
            OBVIOUS
        <3> QED BY <3>1, <3>2
    <2>3. PICK to : to = dest + (n - k)
        OBVIOUS
    <2>4. CopyStep(m, dest, src, places[k]) = Put(m, to, bytes)
        BY <1>1, <1>2, <2>2, <2>3, <2>6 DEF CopyStep
    <2>5. Put(m, to, bytes) \in [D -> B]
        BY PutInMemory
    <2> QED BY <2>4, <2>5
<1>4. memory = [a \in DOMAIN memory |-> memory[a]] /\ memory \in M
    OBVIOUS
<1> HIDE DEF M
<1>5. DOMAIN places = 1 .. n
    BY <1>1, <1>2
<1>6. PICK h : CopyBytesRun(h, memory, dest, src, places, n)
    BY <1>3, <1>4, <1>5, CopyBytesRuns
<1>7. /\ h[0] = memory /\ h[n] = CopyBytes(memory, dest, src, places)
      /\ \A k \in 1 .. n : h[k] = CopyStep(h[k - 1], dest, src, places[k])
    BY <1>6 DEF CopyBytesRun
<1> DEFINE H == {k \in Nat : k <= n => h[k] = After(memory, dest + (n - k), dest + n, byte)}
<1> HIDE DEF byte, Shifted
<1>8. 0 \in H
    <2>1. PICK end \in Int : end = dest + n /\ dest + (n - 0) = end
        OBVIOUS
    <2>2. After(memory, end, end, byte) = memory
        BY <1>4, AfterNothing
    <2> QED BY <1>7, <2>1, <2>2
<1>9. ASSUME NEW k \in Nat, k \in H PROVE k + 1 \in H
    <2> SUFFICES ASSUME k + 1 <= n
                 PROVE  h[k + 1] = After(memory, dest + (n - (k + 1)), dest + n, byte)
        OBVIOUS
    <2>1. k + 1 \in 1 .. n /\ k <= n /\ k + 1 - 1 = k
        OBVIOUS
    <2>2. PICK lo \in Int, mid \in Int, hi \in Int :
             lo = dest + (n - (k + 1)) /\ mid = dest + (n - k) /\ hi = dest + n
        OBVIOUS
    <2>3. lo < mid /\ mid <= lo + 1 /\ mid <= hi
        BY <2>1, <2>2
    <2>4. PICK m : m = h[k] /\ m = After(memory, mid, hi, byte)
        BY <1>9, <2>1, <2>2
    <2>5. PICK x \in src .. src + n - 1 : x = src + (n - (k + 1))
        BY <2>1
    <2>6. PICK b : b = m[x]
        OBVIOUS
    <2>7. h[k + 1] = Put(m, lo, <<b>>)
        <3>0. h[k + 1] = CopyStep(h[k], dest, src, places[k + 1])
            BY <1>7, <2>1
        <3>1. h[k + 1] = CopyStep(m, dest, src, n - (k + 1))
            BY <1>1, <1>2, <2>1, <2>4, <3>0
        <3> QED BY <2>2, <2>5, <2>6, <3>1 DEF CopyStep
    <2>8. b = byte[lo]
        <3>1. x \in D /\ x \notin mid .. hi - 1
            BY <2>1, <2>2, <2>5
        <3>2. m[x] = memory[x]
            BY <2>4, <3>1 DEF After
        <3>3. lo - dest + src = x
            BY <2>2, <2>5
        <3>4. byte[lo] = memory[x]
            BY <3>3 DEF byte, Shifted
        <3> QED BY <2>6, <3>2, <3>4
    <2>9. Addresses(memory)
        BY DEF Addresses
    <2>10. Put(After(memory, mid, hi, byte), lo, <<b>>) = After(memory, lo, hi, byte)
        BY <2>3, <2>8, <2>9, PutBefore
    <2> QED BY <2>2, <2>4, <2>7, <2>10
<1> HIDE DEF H
<1>10. n \in H
    BY <1>8, <1>9, Induction
<1>11. dest + (n - n) = dest
    OBVIOUS
<1> QED BY <1>2, <1>7, <1>10, <1>11 DEF H, byte

-----------------------------------------------------------------------------
\* strlen, the string at an address and strncmp.

\* A string of n bytes begins at s.
EndsAt(memory, s, n) ==
    /\ s \in Nat /\ n \in Nat /\ memory[s + n] = 0 /\ \A k \in 0 .. n - 1 : memory[s + k] # 0
    /\ s + n \in DOMAIN memory

\* The largest address is the last one.
LEMMA LastAddress ==
    ASSUME NEW last, NEW memory, IsMemory(memory, last)
    PROVE  Max(DOMAIN memory) = last
<1>1. 0 .. last \subseteq Int /\ last \in 0 .. last /\ \A k \in 0 .. last : k <= last
    BY DEF IsMemory
<1>2. Max(0 .. last) = last
    BY <1>1, MaxIs
<1> QED BY <1>2 DEF IsMemory

\* strlen is the first 0.
LEMMA StrlenIs ==
    ASSUME NEW last, NEW memory, IsMemory(memory, last), NEW s \in Nat,
           \E n \in 0 .. last - s : memory[s + n] = 0
    PROVE  EndsAt(memory, s, Strlen(memory, s))
<1> DEFINE ends == {n \in 0 .. Max(DOMAIN memory) - s : memory[s + n] = 0}
<1>1. ends = {n \in 0 .. last - s : memory[s + n] = 0}
    BY LastAddress
<1>2. ends \subseteq Nat /\ ends # {}
    BY <1>1
<1>3. Strlen(memory, s) = Min(ends)
    BY DEF Strlen
<1> HIDE DEF ends
<1>4. Min(ends) \in ends /\ \A k \in ends : Min(ends) <= k
    BY <1>2, FirstOf
<1>5. PICK m \in ends : m = Strlen(memory, s) /\ \A k \in ends : m <= k
    BY <1>3, <1>4
<1>6. m \in 0 .. last - s /\ memory[s + m] = 0
    BY <1>1, <1>5
<1>7. ASSUME NEW k \in 0 .. m - 1 PROVE memory[s + k] # 0
    <2>1. k \in 0 .. last - s /\ ~(m <= k)
        BY <1>6, <1>7 DEF IsMemory
    <2>2. k \notin ends
        BY <1>5, <2>1
    <2> QED BY <1>1, <2>1, <2>2
<1>8. s + m \in 0 .. last
    BY <1>6 DEF IsMemory
<1>9. EndsAt(memory, s, m)
    BY <1>6, <1>7, <1>8 DEF EndsAt, IsMemory
<1> QED BY <1>5, <1>9

\* The string at an address, and what Cut leaves of it.
LEMMA StringIs ==
    ASSUME NEW memory, NEW s, EndsAt(memory, s, Strlen(memory, s))
    PROVE  /\ Str(memory, s) = Get(memory, s, Strlen(memory, s))
           /\ Len(Str(memory, s)) = Strlen(memory, s)
<1>1. PICK n \in Nat : n = Strlen(memory, s)
    BY DEF EndsAt
<1>2. Str(memory, s) = Get(memory, s, n)
    BY <1>1 DEF Str, Strlen
<1>3. Len(Get(memory, s, n)) = n
    BY DEF Get
<1> QED BY <1>1, <1>2, <1>3

\* A string cut at n is its bytes as far as n.
LEMMA CutIs ==
    ASSUME NEW memory, NEW s, EndsAt(memory, s, Strlen(memory, s)), NEW n \in Nat
    PROVE  \E c \in Nat : /\ c = IF Strlen(memory, s) > n THEN n ELSE Strlen(memory, s)
                          /\ Cut(Str(memory, s), n) = Get(memory, s, c)
<1>1. PICK l \in Nat : l = Strlen(memory, s)
    BY DEF EndsAt
<1>2. PICK str : str = Str(memory, s) /\ str = Get(memory, s, l) /\ Len(str) = l
    BY <1>1, StringIs
<1>3. CASE l > n
    <2> DEFINE S == {str[k] : k \in 1 .. l}
    <2>1. str \in Seq(S)
        <3>1. str = [k \in 1 .. l |-> str[k]]
            BY <1>2 DEF Get
        <3> QED BY <3>1
    <2>2. SubSeq(str, 1, n) = [k \in 1 .. n |-> str[k]]
        BY <1>2, <1>3, <2>1
    <2>3. \A k \in 1 .. n : str[k] = memory[s + k - 1]
        BY <1>2, <1>3 DEF Get
    <2>4. SubSeq(str, 1, n) = Get(memory, s, n)
        BY <2>2, <2>3 DEF Get
    <2>5. Cut(str, n) = SubSeq(str, 1, n)
        BY <1>2, <1>3 DEF Cut
    <2> QED BY <1>1, <1>2, <1>3, <2>4, <2>5
<1>4. CASE ~(l > n)
    <2>1. Cut(str, n) = str
        BY <1>2, <1>4 DEF Cut
    <2> QED BY <1>1, <1>2, <1>4, <2>1
<1> QED BY <1>3, <1>4

\* strncmp says whether what lies before the ends and within n is the same.
LEMMA StrncmpIs ==
    ASSUME NEW last, NEW memory, IsMemory(memory, last), NEW s1, NEW s2, NEW n \in Nat,
           EndsAt(memory, s1, Strlen(memory, s1)), EndsAt(memory, s2, Strlen(memory, s2)),
           s1 + n <= last + 1, s2 + n <= last + 1
    PROVE  (Strncmp(memory, s1, s2, n) = 0)
             = (Cut(Str(memory, s1), n) = Cut(Str(memory, s2), n))
<1> DEFINE stops == {i \in 0 .. n - 1 : memory[s1 + i] # memory[s2 + i] \/ memory[s1 + i] = 0}
<1>1. PICK l1 \in Nat, l2 \in Nat : /\ l1 = Strlen(memory, s1) /\ l2 = Strlen(memory, s2)
                                    /\ EndsAt(memory, s1, l1) /\ EndsAt(memory, s2, l2)
    BY DEF EndsAt
<1>2. PICK c1 \in Nat : /\ c1 = IF l1 > n THEN n ELSE l1
                        /\ Cut(Str(memory, s1), n) = Get(memory, s1, c1)
    BY <1>1, CutIs
<1>3. PICK c2 \in Nat : /\ c2 = IF l2 > n THEN n ELSE l2
                        /\ Cut(Str(memory, s2), n) = Get(memory, s2, c2)
    BY <1>1, CutIs
<1>4. PICK a1, a2 : a1 = Get(memory, s1, c1) /\ a2 = Get(memory, s2, c2)
    OBVIOUS
<1>5. /\ a1 = a2 => c1 = c2 /\ \A k \in 1 .. c1 : a1[k] = a2[k]
      /\ c1 = c2 /\ (\A k \in 1 .. c1 : a1[k] = a2[k]) => a1 = a2
    <2>1. DOMAIN a1 = 1 .. c1 /\ DOMAIN a2 = 1 .. c2 /\ Len(a1) = c1 /\ Len(a2) = c2
        BY <1>4 DEF Get
    <2>2. a1 = [k \in 1 .. c1 |-> a1[k]] /\ a2 = [k \in 1 .. c2 |-> a2[k]]
        BY <1>4 DEF Get
    <2>3. a1 = a2 => c1 = c2 /\ \A k \in 1 .. c1 : a1[k] = a2[k]
        BY <2>1
    <2>4. c1 = c2 /\ (\A k \in 1 .. c1 : a1[k] = a2[k]) => a1 = a2
        BY <2>2
    <2> QED BY <2>3, <2>4
<1>6. /\ s1 \in Nat /\ s2 \in Nat
      /\ \A k \in 0 .. c1 - 1 : a1[k + 1] = memory[s1 + k]
      /\ \A k \in 0 .. c2 - 1 : a2[k + 1] = memory[s2 + k]
    <2>1. s1 \in Nat /\ s2 \in Nat
        BY <1>1 DEF EndsAt
    <2>2. ASSUME NEW k \in 0 .. c1 - 1 PROVE a1[k + 1] = memory[s1 + k]
        <3>1. k + 1 \in 1 .. c1 /\ s1 + (k + 1) - 1 = s1 + k
            BY <2>1
        <3> QED BY <1>4, <3>1 DEF Get
    <2>3. ASSUME NEW k \in 0 .. c2 - 1 PROVE a2[k + 1] = memory[s2 + k]
        <3>1. k + 1 \in 1 .. c2 /\ s2 + (k + 1) - 1 = s2 + k
            BY <2>1
        <3> QED BY <1>4, <3>1 DEF Get
    <2> QED BY <2>1, <2>2, <2>3
<1>7. ASSUME NEW k \in 1 .. c1, c1 = c2, memory[s1 + (k - 1)] = memory[s2 + (k - 1)]
      PROVE  a1[k] = a2[k]
    <2>1. k - 1 \in 0 .. c1 - 1 /\ k - 1 \in 0 .. c2 - 1 /\ k - 1 + 1 = k
        BY <1>7
    <2> QED BY <1>6, <1>7, <2>1
<1>8. \A i \in 0 .. n - 1 : memory[s1 + i] \in Int /\ memory[s2 + i] \in Int
    <2>1. \A i \in 0 .. n - 1 : s1 + i \in 0 .. last /\ s2 + i \in 0 .. last
        BY <1>6 DEF IsMemory
    <2> QED BY <2>1 DEF IsMemory
<1>9. CASE stops = {}
    <2>1. \A i \in 0 .. n - 1 : memory[s1 + i] = memory[s2 + i] /\ memory[s1 + i] # 0
        BY <1>9
    <2>2. ~(l1 < n) /\ ~(l2 < n)
        <3>1. l1 < n => l1 \in 0 .. n - 1 /\ memory[s1 + l1] = 0
            BY <1>1 DEF EndsAt
        <3>2. l2 < n => l2 \in 0 .. n - 1 /\ memory[s2 + l2] = 0
            BY <1>1 DEF EndsAt
        <3> QED BY <2>1, <3>1, <3>2
    <2>3. c1 = n /\ c2 = n
        BY <1>2, <1>3, <2>2
    <2>4. \A k \in 1 .. c1 : a1[k] = a2[k]
        <3>1. \A k \in 1 .. c1 : k - 1 \in 0 .. n - 1
            BY <2>3
        <3> QED BY <1>7, <2>1, <2>3, <3>1
    <2>5. a1 = a2
        BY <1>5, <2>3, <2>4
    <2>6. Strncmp(memory, s1, s2, n) = 0
        BY <1>9 DEF Strncmp
    <2> QED BY <1>2, <1>3, <1>4, <2>5, <2>6
<1>10. CASE stops # {}
    <2>1. stops \subseteq Nat
        OBVIOUS
    <2>2. Strncmp(memory, s1, s2, n) = memory[s1 + Min(stops)] - memory[s2 + Min(stops)]
        BY <1>10 DEF Strncmp
    <2>3. PICK i \in stops : i = Min(stops) /\ \A k \in stops : i <= k
        <3> HIDE DEF stops
        <3> QED BY <1>10, <2>1, FirstOf
    <2>4. /\ i \in 0 .. n - 1
          /\ memory[s1 + i] # memory[s2 + i] \/ memory[s1 + i] = 0
          /\ \A k \in 0 .. i - 1 : memory[s1 + k] = memory[s2 + k] /\ memory[s1 + k] # 0
        <3>1. \A k \in 0 .. i - 1 : k \in 0 .. n - 1 /\ k \notin stops
            BY <2>3
        <3> QED BY <2>3, <3>1
    <2>5. PICK x \in Int, y \in Int : x = memory[s1 + i] /\ y = memory[s2 + i]
        BY <1>8, <2>4
    <2>6. Strncmp(memory, s1, s2, n) = x - y
        BY <2>2, <2>3, <2>5
    <2>7. ~(l1 < i) /\ ~(l2 < i)
        <3>1. l1 < i => l1 \in 0 .. i - 1 /\ memory[s1 + l1] = 0
            BY <1>1, <2>4 DEF EndsAt
        <3>2. l2 < i => l2 \in 0 .. i - 1 /\ memory[s2 + l2] = 0
            BY <1>1, <2>4 DEF EndsAt
        <3> QED BY <2>4, <3>1, <3>2
    <2>8. (x = 0 <=> l1 = i) /\ (y = 0 <=> l2 = i)
        <3>1. l1 # i => i \in 0 .. l1 - 1
            BY <2>4, <2>7
        <3>2. l2 # i => i \in 0 .. l2 - 1
            BY <2>4, <2>7
        <3> QED BY <1>1, <2>5, <3>1, <3>2 DEF EndsAt
    <2>9. CASE x = y
        <3>1. l1 = i /\ l2 = i
            BY <2>4, <2>5, <2>8, <2>9
        <3>2. c1 = i /\ c2 = i
            BY <1>2, <1>3, <2>4, <3>1
        <3>3. \A k \in 1 .. c1 : a1[k] = a2[k]
            <4>1. \A k \in 1 .. c1 : k - 1 \in 0 .. i - 1
                BY <3>2
            <4> QED BY <1>7, <2>4, <3>2, <4>1
        <3> QED BY <1>2, <1>3, <1>4, <1>5, <2>6, <2>9, <3>2, <3>3
    <2>10. CASE x # y
        <3>1. a1 # a2
            <4> SUFFICES ASSUME a1 = a2 PROVE FALSE
                OBVIOUS
            <4>1. c1 = c2 /\ \A k \in 1 .. c1 : a1[k] = a2[k]
                BY <1>5
            <4>2. CASE c1 > i
                <5>1. i + 1 \in 1 .. c1 /\ i \in 0 .. c1 - 1 /\ i \in 0 .. c2 - 1
                    BY <2>4, <4>1, <4>2
                <5> QED BY <1>6, <2>5, <2>10, <4>1, <5>1
            <4>3. CASE ~(c1 > i)
                <5>1. l1 = i /\ l2 = i
                    BY <1>2, <1>3, <2>4, <2>7, <4>1, <4>3
                <5> QED BY <2>8, <2>10, <5>1
            <4> QED BY <4>2, <4>3
        <3>2. x - y # 0
            BY <2>10
        <3> QED BY <1>2, <1>3, <1>4, <2>6, <3>1, <3>2
    <2> QED BY <2>9, <2>10
<1> QED BY <1>9, <1>10

-----------------------------------------------------------------------------
\* strcpy and strncpy.

\* Addresses are numbers.
LEMMA OnlyAddresses ==
    ASSUME NEW last, NEW memory, IsMemory(memory, last)
    PROVE  Addresses(memory)
BY DEF IsMemory, Addresses

\* What is written in two parts.
LEMMA TwoParts ==
    ASSUME NEW last, NEW memory, IsMemory(memory, last), NEW lo \in Int, NEW mid \in Int, NEW hi \in Int,
           lo <= mid, mid <= hi, NEW first, NEW second, NEW byte,
           \A a \in lo .. mid - 1 : byte[a] = first[a], \A a \in mid .. hi - 1 : byte[a] = second[a]
    PROVE  After(After(memory, lo, mid, first), mid, hi, second) = After(memory, lo, hi, byte)
<1>1. memory \in [0 .. last -> Int]
    BY DEF IsMemory
<1>2. PICK m : m = After(memory, lo, mid, first)
    OBVIOUS
<1>3. /\ DOMAIN m = 0 .. last
      /\ \A a \in 0 .. last : m[a] = IF a \in lo .. mid - 1 THEN first[a] ELSE memory[a]
    BY <1>1, <1>2 DEF After
<1>4. ASSUME NEW a \in 0 .. last
      PROVE  (IF a \in mid .. hi - 1 THEN second[a] ELSE m[a])
                = IF a \in lo .. hi - 1 THEN byte[a] ELSE memory[a]
    <2>1. a \in mid .. hi - 1 \/ a \in lo .. mid - 1 <=> a \in lo .. hi - 1
        OBVIOUS
    <2>2. a \in mid .. hi - 1 => byte[a] = second[a]
        OBVIOUS
    <2>3. a \in lo .. mid - 1 => byte[a] = first[a]
        OBVIOUS
    <2> QED BY <1>3, <2>1, <2>2, <2>3
<1>5. After(m, mid, hi, second) = [a \in 0 .. last |-> IF a \in mid .. hi - 1 THEN second[a] ELSE m[a]]
    BY <1>3 DEF After
<1>6. After(memory, lo, hi, byte) = [a \in 0 .. last |-> IF a \in lo .. hi - 1 THEN byte[a] ELSE memory[a]]
    BY <1>1 DEF After
<1> QED BY <1>2, <1>4, <1>5, <1>6

\* strcpy copies the string with its end.
LEMMA StrcpyIs ==
    ASSUME NEW last, NEW memory, IsMemory(memory, last), NEW dest \in Int, NEW src,
           EndsAt(memory, src, Strlen(memory, src)),
           dest <= src \/ src + Strlen(memory, src) < dest
    PROVE  Strcpy(memory, dest, src)
             = After(memory, dest, dest + Strlen(memory, src) + 1, Shifted(memory, dest, src))
<1>1. PICK n \in Nat : n = Strlen(memory, src) /\ EndsAt(memory, src, n)
    BY DEF EndsAt
<1>2. src \in Nat /\ src + n \in 0 .. last /\ memory[src + n] = 0
    BY <1>1 DEF EndsAt, IsMemory
<1>3. PICK byte : byte = Shifted(memory, dest, src)
    OBVIOUS
<1>4. PICK mid \in Int, hi \in Int : mid = dest + n /\ hi = dest + n + 1
    OBVIOUS
<1>5. CopyBytes(memory, dest, src, UpTo(n)) = After(memory, dest, mid, byte)
    <2>1. InMemory(src, n, last)
        BY <1>2 DEF IsMemory, InMemory
    <2>2. dest <= src \/ src + n <= dest
        BY <1>1, <1>2
    <2>3. src \in Int
        BY <1>2
    <2>4. CopyBytes(memory, dest, src, UpTo(n)) = After(memory, dest, dest + n, Shifted(memory, dest, src))
        BY <2>1, <2>2, <2>3, CopyUpIs
    <2> QED BY <1>3, <1>4, <2>4
<1>6. PICK bytes : bytes = <<0>>
    OBVIOUS
<1>7. Fits(bytes, mid, hi, byte)
    <2>1. DOMAIN bytes = 1 .. hi - mid /\ \A i \in 1 .. hi - mid : i = 1 /\ mid + i - 1 = mid
        BY <1>4, <1>6
    <2>2. mid - dest + src = src + n
        BY <1>2, <1>4
    <2>3. byte[mid] = 0
        BY <1>2, <1>3, <2>2 DEF Shifted
    <2> QED BY <1>6, <2>1, <2>3 DEF Fits
<1>8. dest <= mid /\ mid <= hi /\ Addresses(memory)
    BY <1>4, OnlyAddresses
<1>9. Put(After(memory, dest, mid, byte), mid, bytes) = After(memory, dest, hi, byte)
    BY <1>7, <1>8, PutAfter
<1>10. Strcpy(memory, dest, src) = Put(CopyBytes(memory, dest, src, UpTo(n)), dest + n, <<0>>)
    BY <1>1 DEF Strcpy
<1>11. Strcpy(memory, dest, src) = After(memory, dest, hi, byte)
    BY <1>4, <1>5, <1>6, <1>9, <1>10
<1> QED BY <1>1, <1>3, <1>4, <1>11

\* strncpy copies n bytes of it, and zeros where it has fewer.
Padded(memory, dest, src, l) == [a \in Int |-> IF a < dest + l THEN memory[a - dest + src] ELSE 0]

\* strncpy copies the string and fills what is left of n with 0.
LEMMA StrncpyIs ==
    ASSUME NEW last, NEW memory, IsMemory(memory, last), NEW dest \in Int, NEW src, NEW n \in Nat,
           EndsAt(memory, src, Strlen(memory, src)),
           dest <= src \/ src + Strlen(memory, src) < dest
    PROVE  Strncpy(memory, dest, src, n)
             = After(memory, dest, dest + n, Padded(memory, dest, src, Strlen(memory, src)))
<1>1. PICK l \in Nat : l = Strlen(memory, src) /\ EndsAt(memory, src, l)
    BY DEF EndsAt
<1>2. src \in Nat /\ src + l \in 0 .. last
    BY <1>1 DEF EndsAt, IsMemory
<1>3. PICK copied \in Nat : copied = Min({n, l}) /\ copied = IF n < l THEN n ELSE l
    <2>1. PICK c \in {n, l} : c = IF n < l THEN n ELSE l
        OBVIOUS
    <2>2. c <= n /\ c <= l /\ {n, l} \subseteq Int /\ \A k \in {n, l} : c <= k
        BY <2>1
    <2>3. Min({n, l}) = c
        BY <2>2, MinIs
    <2> QED BY <2>1, <2>3
<1>4. PICK byte : byte = Padded(memory, dest, src, l)
    OBVIOUS
<1>5. PICK mid \in Int, hi \in Int : mid = dest + copied /\ hi = dest + n
    OBVIOUS
<1>6. PICK first : first = Shifted(memory, dest, src)
    OBVIOUS
<1>7. CopyBytes(memory, dest, src, UpTo(copied)) = After(memory, dest, mid, first)
    <2>1. InMemory(src, copied, last)
        <3>1. src + copied - 1 <= last /\ last \in Nat /\ 0 <= src
            BY <1>2, <1>3 DEF IsMemory
        <3> QED BY <1>2, <3>1 DEF InMemory
    <2>2. dest <= src \/ src + copied <= dest
        BY <1>1, <1>2, <1>3
    <2>3. src \in Int
        BY <1>2
    <2>4. CopyBytes(memory, dest, src, UpTo(copied))
            = After(memory, dest, dest + copied, Shifted(memory, dest, src))
        BY <2>1, <2>2, <2>3, CopyUpIs
    <2> QED BY <1>5, <1>6, <2>4
<1>8. PICK m : m = After(memory, dest, mid, first)
    OBVIOUS
<1>9. m \in [0 .. last -> Int]
    <2>1. \A a \in dest .. mid - 1 : a - dest + src \in 0 .. last
        BY <1>2, <1>3, <1>5 DEF IsMemory
    <2>2. \A a \in dest .. mid - 1 : first[a] = memory[a - dest + src]
        BY <1>6 DEF Shifted
    <2>3. \A a \in dest .. mid - 1 : first[a] \in Int
        BY <2>1, <2>2 DEF IsMemory
    <2> QED BY <1>8, <2>3 DEF IsMemory, After
<1>10. PICK unit : unit = <<0>> /\ unit \in Seq(Int) /\ Len(unit) = 1 /\ unit[1] = 0
    <2>1. <<0>> \in Seq(Int) /\ Len(<<0>>) = 1 /\ <<0>>[1] = 0
        OBVIOUS
    <2> QED BY <2>1
<1>11. PICK rest \in Nat : rest = n - copied /\ mid + rest * 1 = hi
    BY <1>3, <1>5
<1>12. PICK second : second = Repeated(unit, 1, mid)
    OBVIOUS
<1>13. Stos(m, mid, unit, rest) = After(m, mid, hi, second)
    <2>1. IsMemory(m, last) /\ unit # <<>> /\ unit \in Seq(Int)
        BY <1>9, <1>10 DEF IsMemory
    <2>2. Stos(m, mid, unit, rest) = After(m, mid, Beyond(mid, rest, unit), Repeated(unit, Len(unit), mid))
        BY <2>1, StosIs
    <2> QED BY <1>10, <1>11, <1>12, <2>2 DEF Beyond
<1>14. \A a \in dest .. mid - 1 : byte[a] = first[a]
    <2>1. \A a \in dest .. mid - 1 : a < dest + l
        BY <1>3, <1>5
    <2> QED BY <1>4, <1>6, <2>1 DEF Padded, Shifted
<1>15. \A a \in mid .. hi - 1 : byte[a] = second[a]
    <2>1. \A a \in mid .. hi - 1 : ~(a < dest + l) /\ ((a - mid) % 1) + 1 = 1
        BY <1>3, <1>5
    <2>2. \A a \in mid .. hi - 1 : second[a] = unit[((a - mid) % 1) + 1]
        BY <1>12 DEF Repeated
    <2> QED BY <1>4, <1>10, <2>1, <2>2 DEF Padded
<1>16. dest <= mid /\ mid <= hi
    BY <1>3, <1>5
<1>17. After(m, mid, hi, second) = After(memory, dest, hi, byte)
    BY <1>8, <1>14, <1>15, <1>16, TwoParts
<1>18. Strncpy(memory, dest, src, n)
         = Stos(CopyBytes(memory, dest, src, UpTo(copied)), dest + copied, <<0>>, n - copied)
    BY <1>1, <1>3 DEF Strncpy
<1>19. Strncpy(memory, dest, src, n) = After(memory, dest, hi, byte)
    BY <1>5, <1>7, <1>8, <1>10, <1>11, <1>13, <1>17, <1>18
<1> QED BY <1>1, <1>4, <1>5, <1>19

-----------------------------------------------------------------------------
\* strrev, reading a numeral and printf are folds.

\* One step of strrev, of a numeral read and of printf.
RevStep(m, s, n, beg) == Put(Put(m, s + n - 1 - beg, <<m[s + beg]>>), s + beg, <<m[s + n - 1 - beg]>>)

DigitStep(n, radix, c) == n * radix + DigitOf(c)

\* strrev: the memories after each exchange.
StrrevRun(h, memory, s, n) ==
    /\ h[0] = memory /\ h[n] = Strrev(memory, s)
    /\ \A k \in 1 .. n : h[k] = RevStep(h[k - 1], s, Strlen(memory, s), UpTo(Strlen(memory, s) \div 2)[k])

\* The loops are folds that exist, if their steps stay in a set, or lead
\* through sets.
LEMMA StrrevRuns ==
    ASSUME NEW memory, NEW s, NEW n, DOMAIN UpTo(Strlen(memory, s) \div 2) = 1 .. n, n \in Nat,
           NEW D, memory \in D, \A m \in D, k \in 1 .. n : RevStep(m, s, Strlen(memory, s), UpTo(Strlen(memory, s) \div 2)[k]) \in D
    PROVE  \E h : StrrevRun(h, memory, s, n)
<1> DEFINE body(m, x) == RevStep(m, s, Strlen(memory, s), x)
           F(f) == [S \in SUBSET (DOMAIN UpTo(Strlen(memory, s) \div 2)) |->
                      IF S = {} THEN memory ELSE body(f[S \ {Max(S)}], UpTo(Strlen(memory, s) \div 2)[Max(S)])]
           step == [p \in (1 .. n) \X D |-> body(p[2], UpTo(Strlen(memory, s) \div 2)[p[1]])]
           iter == CHOOSE f : f = F(f)
           h == [k \in 0 .. n |-> iter[1 .. k]]
<1>1. step \in [(1 .. n) \X D -> D]
    OBVIOUS
<1>2. Strrev(memory, s) = iter[DOMAIN UpTo(Strlen(memory, s) \div 2)]
    BY DEF Strrev, RevStep, FoldLeft, MapThenFoldSet
<1> HIDE DEF body
<1>3. PICK g \in [SUBSET (1 .. n) -> D] : Folds(g, n, memory, step)
    <2> HIDE DEF step
    <2> QED BY <1>1, FoldExists
<1>4. g = F(g)
    <2>1. ASSUME NEW S \in SUBSET (1 .. n), S # {}
          PROVE  step[<<Max(S), g[S \ {Max(S)}]>>] = body(g[S \ {Max(S)}], UpTo(Strlen(memory, s) \div 2)[Max(S)])
        <3>1. Max(S) \in 1 .. n
            BY <2>1, LastOf
        <3> QED BY <3>1
    <2> HIDE DEF step
    <2> QED BY <1>3, <2>1 DEF Folds
<1>5. iter = F(iter)
    <2> HIDE DEF F
    <2> QED BY <1>4
<1> HIDE DEF iter
<1>6. h[0] = memory
    BY <1>5
<1>7. ASSUME NEW k \in 1 .. n PROVE h[k] = body(h[k - 1], UpTo(Strlen(memory, s) \div 2)[k])
    <2>1. h[k] = iter[1 .. k] /\ h[k - 1] = iter[1 .. k - 1]
        OBVIOUS
    <2>2. iter[1 .. k] = body(iter[(1 .. k) \ {Max(1 .. k)}], UpTo(Strlen(memory, s) \div 2)[Max(1 .. k)])
        BY <1>5, Intervals, ZenonT(40)
    <2> QED BY <2>1, <2>2, Intervals
<1>8. h[n] = iter[1 .. n]
    OBVIOUS
<1> HIDE DEF h
<1> QED BY <1>2, <1>6, <1>7, <1>8 DEF body, StrrevRun

\* A numeral read: the numbers after each digit.
NumberRun(h, s, radix, n) ==
    /\ h[0] = 0 /\ h[n] = NumberOf(s, radix)
    /\ \A k \in 1 .. n : h[k] = DigitStep(h[k - 1], radix, s[k])

LEMMA NumberRuns ==
    ASSUME NEW s, NEW radix, NEW n \in Nat, DOMAIN s = 1 .. n,
           NEW D, 0 \in D, \A m \in D, k \in 1 .. n : DigitStep(m, radix, s[k]) \in D
    PROVE  \E h : NumberRun(h, s, radix, n)
<1> DEFINE body(m, x) == DigitStep(m, radix, x)
           F(f) == [S \in SUBSET (DOMAIN s) |->
                      IF S = {} THEN 0 ELSE body(f[S \ {Max(S)}], s[Max(S)])]
           step == [p \in (1 .. n) \X D |-> body(p[2], s[p[1]])]
           iter == CHOOSE f : f = F(f)
           h == [k \in 0 .. n |-> iter[1 .. k]]
<1>1. step \in [(1 .. n) \X D -> D]
    OBVIOUS
<1>2. NumberOf(s, radix) = iter[DOMAIN s]
    BY DEF NumberOf, DigitStep, FoldLeft, MapThenFoldSet
<1> HIDE DEF body
<1>3. PICK g \in [SUBSET (1 .. n) -> D] : Folds(g, n, 0, step)
    <2> HIDE DEF step
    <2> QED BY <1>1, FoldExists
<1>4. g = F(g)
    <2>1. ASSUME NEW S \in SUBSET (1 .. n), S # {}
          PROVE  step[<<Max(S), g[S \ {Max(S)}]>>] = body(g[S \ {Max(S)}], s[Max(S)])
        <3>1. Max(S) \in 1 .. n
            BY <2>1, LastOf
        <3> QED BY <3>1
    <2> HIDE DEF step
    <2> QED BY <1>3, <2>1 DEF Folds
<1>5. iter = F(iter)
    <2> HIDE DEF F
    <2> QED BY <1>4
<1> HIDE DEF iter
<1>6. h[0] = 0
    BY <1>5
<1>7. ASSUME NEW k \in 1 .. n PROVE h[k] = body(h[k - 1], s[k])
    <2>1. h[k] = iter[1 .. k] /\ h[k - 1] = iter[1 .. k - 1]
        OBVIOUS
    <2>2. iter[1 .. k] = body(iter[(1 .. k) \ {Max(1 .. k)}], s[Max(1 .. k)])
        BY <1>5, Intervals, ZenonT(40)
    <2> QED BY <2>1, <2>2, Intervals
<1>8. h[n] = iter[1 .. n]
    OBVIOUS
<1> HIDE DEF h
<1> QED BY <1>2, <1>6, <1>7, <1>8 DEF body, NumberRun

\* printf: the states after each character of the format.
Begin == [out |-> <<>>, next |-> 1, percent |-> FALSE, alternate |-> FALSE]

PrintfRun(h, format, values, modulus, n) ==
    /\ h[0] = Begin /\ h[n].out = Printf(format, values, modulus)
    /\ \A k \in 1 .. n : h[k] = PrintfStep(h[k - 1], format[k], values, modulus)

LEMMA PrintfRuns ==
    ASSUME NEW format, NEW values, NEW modulus, NEW n \in Nat, DOMAIN format = 1 .. n,
           NEW E, Begin \in E[0], \A k \in 1 .. n : \A m \in E[k - 1] : m \in E[n] /\ m \in E[k],
           \A k \in 1 .. n : \A m \in E[k - 1] : PrintfStep(m, format[k], values, modulus) \in E[k]
    PROVE  \E h : PrintfRun(h, format, values, modulus, n)
<1> DEFINE body(m, x) == PrintfStep(m, x, values, modulus)
           F(f) == [S \in SUBSET (DOMAIN format) |->
                      IF S = {} THEN Begin ELSE body(f[S \ {Max(S)}], format[Max(S)])]
           step == [p \in (1 .. n) \X E[n] |-> body(p[2], format[p[1]])]
           iter == CHOOSE f : f = F(f)
           h == [k \in 0 .. n |-> iter[1 .. k]]
<1>1. Levels(E, n, Begin, step)
    <2>1. ASSUME NEW k \in 1 .. n, NEW m \in E[k - 1] PROVE step[<<k, m>>] \in E[k]
        <3>1. m \in E[n]
            OBVIOUS
        <3>2. step[<<k, m>>] = PrintfStep(m, format[k], values, modulus)
            BY <3>1
        <3> HIDE DEF step
        <3> QED BY <3>2
    <2> HIDE DEF step
    <2> QED BY <2>1 DEF Levels
<1>2. Printf(format, values, modulus) = iter[DOMAIN format].out
    BY DEF Printf, Begin, FoldLeft, MapThenFoldSet
<1> HIDE DEF body
<1>3. PICK g \in [SUBSET (1 .. n) -> E[n]] : Folds(g, n, Begin, step)
    <2> HIDE DEF step
    <2> QED BY <1>1, LevelsFold
<1>4. g = F(g)
    <2>1. ASSUME NEW S \in SUBSET (1 .. n), S # {}
          PROVE  step[<<Max(S), g[S \ {Max(S)}]>>] = body(g[S \ {Max(S)}], format[Max(S)])
        <3>1. Max(S) \in 1 .. n
            BY <2>1, LastOf
        <3> QED BY <3>1
    <2> HIDE DEF step
    <2> QED BY <1>3, <2>1 DEF Folds
<1>5. iter = F(iter)
    <2> HIDE DEF F
    <2> QED BY <1>4
<1> HIDE DEF iter
<1>6. h[0] = Begin
    BY <1>5
<1>7. ASSUME NEW k \in 1 .. n PROVE h[k] = body(h[k - 1], format[k])
    <2>1. h[k] = iter[1 .. k] /\ h[k - 1] = iter[1 .. k - 1]
        OBVIOUS
    <2>2. iter[1 .. k] = body(iter[(1 .. k) \ {Max(1 .. k)}], format[Max(1 .. k)])
        BY <1>5, Intervals
    <2> QED BY <2>1, <2>2, Intervals
<1>8. h[n] = iter[1 .. n]
    OBVIOUS
<1> HIDE DEF h
<1> QED BY <1>2, <1>6, <1>7, <1>8 DEF body, PrintfRun

-----------------------------------------------------------------------------
\* strrev.

\* n bytes of memory of which the first k and the last k changed places.
Turned(memory, n, k) ==
    [a \in 0 .. n |-> IF a < n /\ (a < k \/ n - k <= a) THEN memory[n - 1 - a] ELSE memory[a]]

Half(n) == n \div 2

\* The middle of a string.
LEMMA HalfIs ==
    ASSUME NEW n \in Nat
    PROVE  Half(n) \in Nat /\ Half(n) + Half(n) <= n /\ n <= Half(n) + Half(n) + 1
BY DEF Half

\* One exchange of strrev, and all of them.
LEMMA OneExchange ==
    ASSUME NEW n \in Nat, NEW memory, memory \in [0 .. n -> Int], NEW k \in Nat, k < Half(n)
    PROVE  RevStep(Turned(memory, n, k), 0, n, k) = Turned(memory, n, k + 1)
<1>1. PICK m : m = Turned(memory, n, k)
    OBVIOUS
<1>2. DOMAIN m = 0 .. n /\ \A a \in 0 .. n : m[a] = IF a < n /\ (a < k \/ n - k <= a) THEN memory[n - 1 - a] ELSE memory[a]
    BY <1>1 DEF Turned
<1>3. PICK far \in 0 .. n : far = 0 + n - 1 - k /\ far = n - 1 - k /\ k \in 0 .. n /\ k < far /\ far < n /\ n - 1 - far = k
    <2>1. n - 1 - k \in 0 .. n /\ k < n - 1 - k
        BY HalfIs
    <2> QED BY <2>1
<1>4. m[k] = memory[k] /\ m[far] = memory[far]
    BY <1>2, <1>3
<1>5. PICK first, second : first = <<m[0 + k]>> /\ second = <<m[far]>>
    OBVIOUS
<1>6. /\ DOMAIN first = {1} /\ first[1] = memory[k]
      /\ DOMAIN second = {1} /\ second[1] = memory[far]
    BY <1>3, <1>4, <1>5
<1>7. PICK one : one = Put(m, far, first)
    OBVIOUS
<1>8. DOMAIN one = 0 .. n /\ \A a \in 0 .. n : one[a] = IF a = far THEN memory[k] ELSE m[a]
    <2>1. DOMAIN one = 0 .. n /\ \A a \in 0 .. n : one[a] = IF a - far + 1 \in {1} THEN first[a - far + 1] ELSE m[a]
        BY <1>2, <1>6, <1>7 DEF Put
    <2>2. ASSUME NEW a \in 0 .. n PROVE a - far + 1 \in {1} <=> a = far
        OBVIOUS
    <2>3. far - far + 1 = 1
        OBVIOUS
    <2> QED BY <1>6, <2>1, <2>2, <2>3
<1>9. PICK two : two = Put(one, 0 + k, second)
    OBVIOUS
<1>10. two = [a \in 0 .. n |-> IF a = k THEN memory[far] ELSE one[a]]
    <2>1. two = [a \in 0 .. n |-> IF a - k + 1 \in {1} THEN second[a - k + 1] ELSE one[a]]
        <3>1. 0 + k = k
            OBVIOUS
        <3> QED BY <1>6, <1>8, <1>9, <3>1 DEF Put
    <2>2. ASSUME NEW a \in 0 .. n PROVE a - k + 1 \in {1} <=> a = k
        OBVIOUS
    <2>3. k - k + 1 = 1
        OBVIOUS
    <2> QED BY <1>6, <2>1, <2>2, <2>3
<1>11. ASSUME NEW a \in 0 .. n
       PROVE  (IF a = k THEN memory[far] ELSE one[a])
                = IF a < n /\ (a < k + 1 \/ n - (k + 1) <= a) THEN memory[n - 1 - a] ELSE memory[a]
    <2>1. CASE a = k
        BY <1>3, <2>1
    <2>2. CASE a = far
        BY <1>3, <1>8, <2>2
    <2>3. CASE a # k /\ a # far
        <3>1. (a < k + 1 \/ n - (k + 1) <= a) <=> (a < k \/ n - k <= a)
            BY <1>3, <2>3
        <3> QED BY <1>2, <1>8, <2>3, <3>1
    <2> QED BY <2>1, <2>2, <2>3
<1>12. two = Turned(memory, n, k + 1)
    BY <1>10, <1>11 DEF Turned
<1>13. RevStep(m, 0, n, k) = two
    BY <1>3, <1>5, <1>7, <1>9 DEF RevStep
<1> QED BY <1>1, <1>12, <1>13

LEMMA StrrevIs ==
    ASSUME NEW n, NEW memory, IsMemory(memory, n), EndsAt(memory, 0, n), n = Strlen(memory, 0)
    PROVE  Strrev(memory, 0) = Turned(memory, n, Half(n))
<1>0. n \in Nat /\ memory \in [0 .. n -> Int]
    BY DEF IsMemory
<1>d. PICK half \in Nat : half = Half(n) /\ half + half <= n
    BY <1>0, HalfIs
<1>1. DOMAIN UpTo(Strlen(memory, 0) \div 2) = 1 .. half /\ \A k \in 1 .. half : UpTo(Strlen(memory, 0) \div 2)[k] = k - 1
    BY <1>d DEF UpTo, Half
<1> DEFINE M == [0 .. n -> Int]
<1>2. ASSUME NEW m \in M, NEW k \in 1 .. half
      PROVE  RevStep(m, 0, Strlen(memory, 0), UpTo(Strlen(memory, 0) \div 2)[k]) \in M
    <2>1. PICK b \in 0 .. n : b = k - 1 /\ 0 + b \in 0 .. n /\ 0 + n - 1 - b \in 0 .. n
        <3>1. k - 1 \in 0 .. n /\ 0 + (k - 1) \in 0 .. n /\ 0 + n - 1 - (k - 1) \in 0 .. n
            BY <1>0, <1>d
        <3> QED BY <3>1
    <2>2. PICK x \in Int, y \in Int : x = m[0 + b] /\ y = m[0 + n - 1 - b]
        BY <2>1
    <2>3. RevStep(m, 0, n, b) = Put(Put(m, 0 + n - 1 - b, <<x>>), 0 + b, <<y>>)
        BY <2>2 DEF RevStep
    <2>4. <<x>> \in [1 .. 1 -> Int] /\ <<y>> \in [1 .. 1 -> Int]
        <3>1. <<x>> = [i \in 1 .. 1 |-> x] /\ <<y>> = [i \in 1 .. 1 |-> y]
            OBVIOUS
        <3> QED BY <3>1
    <2>5. Put(m, 0 + n - 1 - b, <<x>>) \in M
        BY <2>4, PutInMemory
    <2>6. Put(Put(m, 0 + n - 1 - b, <<x>>), 0 + b, <<y>>) \in M
        BY <2>4, <2>5, PutInMemory
    <2> QED BY <1>1, <2>1, <2>3, <2>6
<1>3. memory \in M
    BY <1>0
<1> HIDE DEF M
<1>4. PICK h : StrrevRun(h, memory, 0, half)
    BY <1>1, <1>2, <1>3, StrrevRuns
<1>5. /\ h[0] = memory /\ h[half] = Strrev(memory, 0)
      /\ \A k \in 1 .. half : h[k] = RevStep(h[k - 1], 0, n, k - 1)
    BY <1>1, <1>4 DEF StrrevRun
<1> DEFINE H == {k \in Nat : k <= half => h[k] = Turned(memory, n, k)}
<1>6. 0 \in H
    <2>1. Turned(memory, n, 0) = memory
        <3>1. \A a \in 0 .. n : ~(a < n /\ (a < 0 \/ n - 0 <= a))
            BY <1>0
        <3> QED BY <1>0, <3>1 DEF Turned
    <2> QED BY <1>5, <2>1
<1>7. ASSUME NEW k \in Nat, k \in H PROVE k + 1 \in H
    <2> SUFFICES ASSUME k + 1 <= half PROVE h[k + 1] = Turned(memory, n, k + 1)
        OBVIOUS
    <2>1. k + 1 \in 1 .. half /\ k <= half /\ k + 1 - 1 = k /\ k < half
        OBVIOUS
    <2>2. h[k] = Turned(memory, n, k)
        BY <1>7, <2>1
    <2>3. h[k + 1] = RevStep(h[k], 0, n, k)
        BY <1>5, <2>1
    <2>4. RevStep(Turned(memory, n, k), 0, n, k) = Turned(memory, n, k + 1)
        BY <1>0, <1>d, <2>1, OneExchange
    <2> QED BY <2>2, <2>3, <2>4
<1> HIDE DEF H
<1>8. Nat \subseteq H
    BY <1>6, <1>7, Induction
<1> QED BY <1>5, <1>8, <1>d DEF H

\* strrev turns the string round.
LEMMA StringTurned ==
    ASSUME NEW n, NEW memory, IsMemory(memory, n), EndsAt(memory, 0, n), n = Strlen(memory, 0)
    PROVE  \A a \in 0 .. n - 1 : Strrev(memory, 0)[a] = memory[n - 1 - a]
<1>1. n \in Nat
    BY DEF IsMemory
<1> SUFFICES ASSUME NEW a \in 0 .. n - 1
             PROVE  Turned(memory, n, Half(n))[a] = memory[n - 1 - a]
    BY StrrevIs
<1>2. PICK half \in Nat : half = Half(n) /\ half + half <= n /\ n <= half + half + 1
    BY <1>1, HalfIs
<1>3. a \in 0 .. n /\ a < n /\ (~(a < half \/ n - half <= a) => n - 1 - a = a)
    BY <1>1, <1>2
<1> QED BY <1>2, <1>3 DEF Turned

-----------------------------------------------------------------------------
\* The loop of itoa divides until nothing is left.

\* f iterates the step from the base.
Iterates(f, base, step) == f = [i \in Nat |-> IF i = 0 THEN base ELSE step[f[i - 1]]]

\* The function whose value at 0 is base, and at each number the step from the
\* one before, is there.
LEMMA IterationExists ==
    ASSUME NEW D, NEW base \in D, NEW step \in [D -> D]
    PROVE  \E f \in [Nat -> D] : Iterates(f, base, step)
<1> DEFINE Next1(g, i) == IF i = 0 THEN base ELSE step[g[i - 1]]
           UpTo1(g, m) == g = [i \in 0 .. m |-> Next1(g, i)] /\ \A i \in 0 .. m : g[i] \in D
           Part(m) == CHOOSE g : UpTo1(g, m)
           Whole == [i \in Nat |-> Part(i)[i]]
<1>1. \A m \in Nat : \E g : UpTo1(g, m)
    <2> DEFINE H == {m \in Nat : \E g : UpTo1(g, m)}
    <2>1. 0 \in H
        <3>1. UpTo1([i \in 0 .. 0 |-> base], 0)
            OBVIOUS
        <3> QED BY <3>1
    <2>2. ASSUME NEW m \in Nat, m \in H PROVE m + 1 \in H
        <3>1. PICK g : UpTo1(g, m)
            BY <2>2
        <3> DEFINE h == [i \in 0 .. m + 1 |-> Next1(g, i)]
        <3> HIDE DEF Next1
        <3>2. \A i \in 0 .. m : g[i] = Next1(g, i) /\ g[i] \in D
            BY <3>1
        <3>3. \A i \in 0 .. m : i \in 0 .. m + 1 /\ h[i] = g[i]
            BY <3>2
        <3>4. h[m + 1] \in D
            <4>1. h[m + 1] = step[g[m]]
                <5>1. m + 1 \in 0 .. m + 1 /\ m + 1 # 0 /\ m + 1 - 1 = m
                    OBVIOUS
                <5> QED BY <5>1 DEF Next1
            <4>2. g[m] \in D
                BY <3>2
            <4> HIDE DEF h
            <4> QED BY <4>1, <4>2
        <3>5. h = [i \in 0 .. m + 1 |-> Next1(g, i)]
            OBVIOUS
        <3> HIDE DEF h
        <3>6. ASSUME NEW i \in 0 .. m + 1 PROVE Next1(g, i) = Next1(h, i)
            <4>1. i # 0 => i - 1 \in 0 .. m
                OBVIOUS
            <4>2. i # 0 => h[i - 1] = g[i - 1]
                BY <3>3, <4>1
            <4> QED BY <4>2 DEF Next1
        <3>7. ASSUME NEW i \in 0 .. m + 1 PROVE h[i] \in D
            <4>1. i \in 0 .. m \/ i = m + 1
                OBVIOUS
            <4> QED BY <3>2, <3>3, <3>4, <4>1
        <3>8. UpTo1(h, m + 1)
            BY <3>5, <3>6, <3>7
        <3> QED BY <3>8
    <2> HIDE DEF H
    <2>3. Nat \subseteq H
        BY <2>1, <2>2, Induction
    <2> QED BY <2>3 DEF H
<1>2. \A m \in Nat : UpTo1(Part(m), m)
    BY <1>1
<1>3. ASSUME NEW m \in Nat, NEW k \in Nat, m <= k
      PROVE  \A i \in 0 .. m : Part(m)[i] = Part(k)[i]
    <2> DEFINE H == {i \in Nat : i <= m => Part(m)[i] = Part(k)[i]}
    <2>0. UpTo1(Part(m), m) /\ UpTo1(Part(k), k)
        BY <1>2
    <2> HIDE DEF Part
    <2>1. 0 \in H
        BY <2>0
    <2>2. ASSUME NEW i \in Nat, i \in H PROVE i + 1 \in H
        BY <1>3, <2>0, <2>2
    <2> HIDE DEF H
    <2>3. Nat \subseteq H
        BY <2>1, <2>2, Induction
    <2> QED BY <2>3 DEF H
<1>4. Whole = [i \in Nat |-> Next1(Whole, i)]
    <2> HIDE DEF Part
    <2>1. ASSUME NEW i \in Nat PROVE Whole[i] = Next1(Whole, i)
        <3>1. Part(i)[i] = Next1(Part(i), i)
            BY <1>2
        <3>2. i # 0 => Part(i)[i - 1] = Part(i - 1)[i - 1] /\ i - 1 \in Nat
            BY <1>3
        <3> QED BY <3>1, <3>2
    <2> QED BY <2>1
<1>5. \A i \in Nat : Whole[i] \in D
    BY <1>2
<1>6. Whole \in [Nat -> D]
    BY <1>5
<1> HIDE DEF Whole
<1> QED BY <1>4, <1>6 DEF Iterates

\* Each rest is the one before divided by the radix.
Radix(r) == r \in Nat /\ r >= 2

\* What is left of a number gets smaller by the radix with every digit.
LEMMA LeftIs ==
    ASSUME NEW v \in Nat, NEW r, Radix(r)
    PROVE  /\ Left(v, r) \in [Nat -> Nat]
           /\ Left(v, r)[0] = v
           /\ \A k \in Nat : Left(v, r)[k + 1] = Left(v, r)[k] \div r
<1>0. r \in Nat \ {0}
    BY DEF Radix
<1>1. PICK step \in [Nat -> Nat] : \A d \in Nat : step[d] = d \div r
    <2>1. \A d \in Nat : d \div r \in Nat
        BY <1>0, QuotientAndRest
    <2>2. [d \in Nat |-> d \div r] \in [Nat -> Nat]
        BY <2>1
    <2> QED BY <2>2
<1>2. PICK g \in [Nat -> Nat] : g = [i \in Nat |-> IF i = 0 THEN v ELSE step[g[i - 1]]]
    <2>1. PICK g \in [Nat -> Nat] : Iterates(g, v, step)
        BY IterationExists
    <2> QED BY <2>1 DEF Iterates
<1> DEFINE F(f) == [k \in Nat |-> IF k = 0 THEN v ELSE f[k - 1] \div r]
<1>3. g = F(g)
    <2>1. ASSUME NEW k \in Nat PROVE (IF k = 0 THEN v ELSE step[g[k - 1]]) = IF k = 0 THEN v ELSE g[k - 1] \div r
        <3>1. CASE k = 0
            BY <3>1
        <3>2. CASE k # 0
            <4>1. k - 1 \in Nat
                BY <3>2
            <4>2. g[k - 1] \in Nat
                BY <4>1
            <4> QED BY <1>1, <3>2, <4>2
        <3> QED BY <3>1, <3>2
    <2> QED BY <1>2, <2>1
<1>4. Left(v, r) = CHOOSE f : f = F(f)
    BY DEF Left
<1>5. PICK f : f = Left(v, r) /\ f = F(f)
    <2> HIDE DEF F
    <2> QED BY <1>3, <1>4
<1>6. f[0] = v /\ DOMAIN f = Nat
    BY <1>5
<1>7. ASSUME NEW k \in Nat PROVE f[k + 1] = f[k] \div r
    <2>1. k + 1 \in Nat /\ k + 1 # 0 /\ k + 1 - 1 = k
        OBVIOUS
    <2>2. F(f)[k + 1] = f[k + 1 - 1] \div r
        BY <2>1
    <2> HIDE DEF F
    <2> QED BY <1>5, <2>1, <2>2
<1> DEFINE H == {k \in Nat : f[k] \in Nat}
<1>8. 0 \in H
    BY <1>6
<1>9. ASSUME NEW k \in Nat, k \in H PROVE k + 1 \in H
    <2>1. f[k] \div r \in Nat
        BY <1>0, <1>9, QuotientAndRest
    <2> QED BY <1>7, <2>1
<1> HIDE DEF H
<1>10. Nat \subseteq H
    BY <1>8, <1>9, Induction
<1>11. f \in [Nat -> Nat]
    <2>1. f = [k \in Nat |-> f[k]]
        BY <1>5
    <2>2. \A k \in Nat : f[k] \in Nat
        BY <1>10 DEF H
    <2> QED BY <2>1, <2>2
<1> QED BY <1>5, <1>6, <1>7, <1>11

\* The digit that is taken off.
LEMMA OneDigitOff ==
    ASSUME NEW v \in Nat, NEW r, Radix(r)
    PROVE  \E d \in Nat : \E m \in 0 .. r - 1 :
              d = v \div r /\ m = v % r /\ v = d * r + m /\ (v = 0 => d = 0) /\ (v # 0 => d < v)
<1>0. r \in Nat \ {0} /\ r >= 2
    BY DEF Radix
<1>1. PICK d \in Nat, m \in 0 .. r - 1 : d = v \div r /\ m = v % r /\ v = d * r + m
    BY <1>0, QuotientAndRest
<1>2. PICK q \in Nat : r = 2 + q
    <2>1. r - 2 \in Nat /\ r = 2 + (r - 2)
        BY <1>0
    <2> QED BY <2>1
<1>3. d * r = d + d + d * q /\ d * q \in Nat
    BY <1>2
<1>4. PICK p \in Nat : p = d * q
    BY <1>3
<1>5. v = d + d + p + m
    BY <1>1, <1>3, <1>4
<1>6. (v = 0 => d = 0) /\ (v # 0 => d < v)
    BY <1>5
<1> QED BY <1>1, <1>6, Zenon

\* After as many places as the number is large, nothing is left.
LEMMA LeftEnds ==
    ASSUME NEW v \in Nat, NEW r, Radix(r)
    PROVE  \E p \in 1 .. v + 1 : Left(v, r)[p] = 0
<1>1. PICK f \in [Nat -> Nat] : f = Left(v, r) /\ f[0] = v /\ \A k \in Nat : f[k + 1] = f[k] \div r
    BY LeftIs
<1> DEFINE H == {k \in Nat : f[k] = 0 \/ f[k] + k <= v}
<1>2. 0 \in H
    BY <1>1
<1>3. ASSUME NEW k \in Nat, k \in H PROVE k + 1 \in H
    <2>1. PICK x \in Nat : x = f[k]
        OBVIOUS
    <2>2. PICK y \in Nat : y = x \div r /\ (x = 0 => y = 0) /\ (x # 0 => y < x)
        BY OneDigitOff
    <2>3. f[k + 1] = y
        BY <1>1, <2>1, <2>2
    <2> QED BY <1>3, <2>1, <2>2, <2>3
<1> HIDE DEF H
<1>4. Nat \subseteq H
    BY <1>2, <1>3, Induction
<1>5. v + 1 \in H /\ v + 1 \in 1 .. v + 1
    BY <1>4
<1>6. f[v + 1] = 0
    BY <1>5 DEF H
<1> QED BY <1>1, <1>5, <1>6

\* The number of digits itoa writes: then nothing is left.
LEMMA PlacesAre ==
    ASSUME NEW v \in Nat, NEW r, Radix(r)
    PROVE  \E p \in Nat : /\ p = Places(v, r) /\ p >= 1 /\ Left(v, r)[p] = 0
                          /\ \A k \in 1 .. p - 1 : Left(v, r)[k] # 0
<1> DEFINE T == {n \in 1 .. v + 1 : Left(v, r)[n] = 0}
<1>1. T \subseteq Nat /\ T # {}
    BY LeftEnds
<1>2. PICK p \in T : \A n \in T : p <= n
    <2> HIDE DEF T
    <2> QED BY <1>1, LeastNatural
<1>3. p \in 1 .. v + 1 /\ Left(v, r)[p] = 0
    OBVIOUS
<1>4. ASSUME NEW k \in 1 .. p - 1 PROVE Left(v, r)[k] # 0
    <2>1. k \in 1 .. v + 1 /\ ~(p <= k)
        BY <1>3
    <2> QED BY <1>2, <2>1
<1> DEFINE NothingLeft(n) == /\ Left(v, r)[n] = 0
                       /\ \A k \in 1 .. n - 1 : Left(v, r)[k] # 0
<1>5. NothingLeft(p)
    BY <1>3, <1>4
<1>6. Places(v, r) = CHOOSE n \in 1 .. v + 1 : NothingLeft(n)
    BY DEF Places
<1> HIDE DEF NothingLeft
<1>7. PICK q \in 1 .. v + 1 : q = Places(v, r) /\ NothingLeft(q)
    BY <1>3, <1>5, <1>6, Zenon
<1> QED BY <1>7 DEF NothingLeft

-----------------------------------------------------------------------------
\* itoa writes the numeral of every number.

\* The last p digits of a number.
DigitsOf(v, r, p) == [k \in 1 .. p |-> Lookup(Left(v, r)[p - k] % r)]

\* The characters of lookup stand for their digits.
LEMMA LookedUp ==
    ASSUME NEW d \in Nat
    PROVE  Lookup(d) \in Nat /\ Lookup(d) # 0 /\ DigitOf(Lookup(d)) = d /\ (Lookup(d) = 48 => d = 0)
BY DEF Lookup, DigitOf

\* Every digit is a number.
LEMMA RestIs ==
    ASSUME NEW v \in Nat, NEW r, Radix(r), NEW k \in Nat
    PROVE  Left(v, r)[k] % r \in Nat
<1>1. PICK x \in Nat : x = Left(v, r)[k]
    <2>1. PICK left \in [Nat -> Nat] : left = Left(v, r)
        BY LeftIs
    <2> QED BY <2>1
<1>2. PICK m \in Nat : m = x % r
    BY OneDigitOff
<1> QED BY <1>1, <1>2

\* itoa: the places it fills are turned round.
LEMMA ItoaIs ==
    ASSUME NEW v \in Nat, NEW r, Radix(r)
    PROVE  Itoa(v, r) = DigitsOf(v, r, Places(v, r))
<1>1. PICK p \in Nat : p = Places(v, r) /\ p >= 1
    BY PlacesAre
<1>2. PICK low : low = [k \in 0 .. p |-> IF k = p THEN 0 ELSE Lookup(Left(v, r)[k] % r)]
    OBVIOUS
<1>3. ASSUME NEW k \in 0 .. p PROVE (IF k = p THEN 0 ELSE Lookup(Left(v, r)[k] % r)) \in Int
    <2>1. PICK x \in Nat : x = Left(v, r)[k] % r
        BY RestIs
    <2> QED BY <2>1, LookedUp
<1>4. IsMemory(low, p)
    BY <1>2, <1>3 DEF IsMemory
<1>5. low[p] = 0 /\ DOMAIN low = 0 .. p
    BY <1>2
<1>6. ASSUME NEW k \in 0 .. p - 1 PROVE low[k] # 0
    <2>1. PICK x \in Nat : x = Left(v, r)[k] % r
        BY RestIs
    <2>2. low[k] = Lookup(x)
        BY <1>2, <2>1
    <2> QED BY <2>1, <2>2, LookedUp
<1>7. PICK n : n = Strlen(low, 0) /\ EndsAt(low, 0, n)
    <2>1. p \in 0 .. p - 0 /\ low[0 + p] = 0
        BY <1>5
    <2>2. EndsAt(low, 0, Strlen(low, 0))
        BY <1>4, <2>1, StrlenIs
    <2> QED BY <2>2
<1>8. n = p
    <2>1. n \in Nat /\ low[0 + n] = 0 /\ 0 + n \in DOMAIN low
        BY <1>7 DEF EndsAt
    <2>2. n \in 0 .. p /\ low[n] = 0
        BY <1>5, <2>1
    <2> QED BY <1>6, <2>2
<1>9. \A a \in 0 .. p - 1 : Strrev(low, 0)[a] = low[p - 1 - a]
    <2>1. EndsAt(low, 0, p) /\ p = Strlen(low, 0)
        BY <1>7, <1>8
    <2> QED BY <1>4, <2>1, StringTurned
<1>10. ASSUME NEW k \in 1 .. p
       PROVE  Strrev(low, 0)[0 + k - 1] = Lookup(Left(v, r)[p - k] % r)
    <2>1. 0 + k - 1 \in 0 .. p - 1 /\ p - 1 - (0 + k - 1) = p - k /\ p - k \in 0 .. p /\ p - k # p
        OBVIOUS
    <2>2. Strrev(low, 0)[0 + k - 1] = low[p - k]
        BY <1>9, <2>1
    <2> QED BY <1>2, <2>1, <2>2
<1>11. Itoa(v, r) = Get(Strrev(low, 0), 0, p)
    BY <1>1, <1>2 DEF Itoa
<1>12. Get(Strrev(low, 0), 0, p) = DigitsOf(v, r, p)
    BY <1>10 DEF Get, DigitsOf
<1> QED BY <1>1, <1>11, <1>12

\* As many digits as leave nothing read back as the number.
LEMMA ReadsBack ==
    ASSUME NEW v \in Nat, NEW r, Radix(r), NEW p \in Nat, Left(v, r)[p] = 0
    PROVE  NumberOf(DigitsOf(v, r, p), r) = v
<1>0. r \in Nat
    BY DEF Radix
<1>1. PICK s : s = DigitsOf(v, r, p)
    OBVIOUS
<1>2. PICK left \in [Nat -> Nat] :
         left = Left(v, r) /\ left[0] = v /\ \A k \in Nat : left[k + 1] = left[k] \div r
    BY LeftIs
<1>3. ASSUME NEW k \in 1 .. p PROVE \E d \in Nat : d = left[p - k] % r /\ DigitOf(s[k]) = d
    <2>1. p - k \in Nat
        OBVIOUS
    <2>2. PICK d \in Nat : d = Left(v, r)[p - k] % r
        BY <2>1, RestIs
    <2>3. s[k] = Lookup(d)
        BY <1>1, <2>2 DEF DigitsOf
    <2> QED BY <1>2, <2>2, <2>3, LookedUp
<1>4. DOMAIN s = 1 .. p
    BY <1>1 DEF DigitsOf
<1>5. PICK h : NumberRun(h, s, r, p)
    <2>1. \A m \in Nat, k \in 1 .. p : DigitStep(m, r, s[k]) \in Nat
        <3> SUFFICES ASSUME NEW m \in Nat, NEW k \in 1 .. p PROVE DigitStep(m, r, s[k]) \in Nat
            OBVIOUS
        <3>1. PICK d \in Nat : DigitOf(s[k]) = d
            BY <1>3
        <3>2. PICK x \in Nat : x = m * r
            BY <1>0
        <3> QED BY <3>1, <3>2 DEF DigitStep
    <2> QED BY <1>4, <2>1, NumberRuns
<1>6. h[0] = 0 /\ h[p] = NumberOf(s, r) /\ \A k \in 1 .. p : h[k] = DigitStep(h[k - 1], r, s[k])
    BY <1>5 DEF NumberRun
<1> DEFINE H == {k \in Nat : k <= p => h[k] = left[p - k]}
<1>7. 0 \in H
    BY <1>2, <1>6
<1>8. ASSUME NEW k \in Nat, k \in H PROVE k + 1 \in H
    <2> SUFFICES ASSUME k + 1 <= p PROVE h[k + 1] = left[p - (k + 1)]
        OBVIOUS
    <2>1. k + 1 \in 1 .. p /\ k <= p /\ k + 1 - 1 = k
        OBVIOUS
    <2>2. PICK j \in Nat : j = p - (k + 1) /\ j + 1 = p - k
        <3>1. p - (k + 1) \in Nat /\ p - (k + 1) + 1 = p - k
            OBVIOUS
        <3> QED BY <3>1
    <2>3. PICK x \in Nat, y \in Nat : x = left[j] /\ y = left[p - k]
        BY <2>2
    <2>4. y = x \div r
        BY <1>2, <2>2, <2>3
    <2>5. PICK d \in Nat : \E m \in 0 .. r - 1 :
              d = x \div r /\ m = x % r /\ x = d * r + m /\ (x = 0 => d = 0) /\ (x # 0 => d < x)
        BY OneDigitOff, Zenon
    <2>6. PICK e \in Nat : e = x % r /\ DigitOf(s[k + 1]) = e
        BY <1>3, <2>1, <2>2, <2>3
    <2>7. x = y * r + e
        BY <2>4, <2>5, <2>6
    <2>8. h[k] = y
        BY <1>8, <2>1, <2>3
    <2>9. h[k + 1] = DigitStep(h[k], r, s[k + 1])
        BY <1>6, <2>1
    <2> QED BY <2>2, <2>3, <2>6, <2>7, <2>8, <2>9 DEF DigitStep
<1> HIDE DEF H
<1>9. Nat \subseteq H
    BY <1>7, <1>8, Induction
<1>10. h[p] = left[p - p]
    BY <1>9 DEF H
<1> QED BY <1>1, <1>2, <1>6, <1>10

\* What itoa makes is a numeral of the number.
THEOREM ItoaReadsBack ==
    ASSUME NEW v \in Nat, NEW r, Radix(r)
    PROVE  IsNumeral(Itoa(v, r), v, r)
<1>1. PICK p \in Nat : /\ p = Places(v, r) /\ p >= 1 /\ Left(v, r)[p] = 0
                       /\ \A k \in 1 .. p - 1 : Left(v, r)[k] # 0
    BY PlacesAre
<1>2. PICK s : s = Itoa(v, r) /\ s = DigitsOf(v, r, p)
    BY <1>1, ItoaIs
<1>3. NumberOf(s, r) = v
    BY <1>1, <1>2, ReadsBack
<1>4. DOMAIN s = 1 .. p /\ Len(s) = p /\ s # <<>>
    BY <1>1, <1>2 DEF DigitsOf
<1>5. ASSUME s[1] = 48 PROVE p = 1
    <2> SUFFICES ASSUME p # 1 PROVE FALSE
        OBVIOUS
    <2>1. PICK j \in Nat : j = p - 1 /\ j \in 1 .. p - 1 /\ j + 1 = p
        <3>1. p - 1 \in Nat /\ p - 1 \in 1 .. p - 1 /\ p - 1 + 1 = p
            BY <1>1
        <3> QED BY <3>1
    <2>2. PICK x \in Nat : x = Left(v, r)[j] /\ x # 0
        <3>1. PICK left \in [Nat -> Nat] : left = Left(v, r)
            BY LeftIs
        <3> QED BY <1>1, <2>1, <3>1
    <2>3. Left(v, r)[j + 1] = x \div r
        BY <2>2, LeftIs
    <2>4. PICK d \in Nat : \E m \in 0 .. r - 1 :
              d = x \div r /\ m = x % r /\ x = d * r + m /\ (x = 0 => d = 0) /\ (x # 0 => d < x)
        BY OneDigitOff, Zenon
    <2>5. d = 0
        BY <1>1, <2>1, <2>3, <2>4
    <2>6. PICK m \in Nat : m = x % r /\ x = m
        <3>1. r \in Nat
            BY DEF Radix
        <3>2. 0 * r = 0
            BY <3>1
        <3> QED BY <2>4, <2>5, <3>2
    <2>7. s[1] = Lookup(m)
        <3>1. 1 \in 1 .. p
            BY <1>1
        <3> QED BY <1>2, <2>1, <2>2, <2>6, <3>1 DEF DigitsOf
    <2> QED BY <1>5, <2>2, <2>6, <2>7, LookedUp
<1> QED BY <1>2, <1>3, <1>4, <1>5 DEF IsNumeral

\* Once nothing is left nothing comes back.
LEMMA LeftStays ==
    ASSUME NEW v \in Nat, NEW r, Radix(r), NEW p \in Nat, Left(v, r)[p] = 0
    PROVE  \A k \in Nat : Left(v, r)[p + k] = 0
<1>1. PICK left \in [Nat -> Nat] : left = Left(v, r) /\ \A k \in Nat : left[k + 1] = left[k] \div r
    BY LeftIs
<1> DEFINE H == {k \in Nat : left[p + k] = 0}
<1>2. 0 \in H
    BY <1>1
<1>3. ASSUME NEW k \in Nat, k \in H PROVE k + 1 \in H
    <2>1. PICK j \in Nat : j = p + k /\ p + (k + 1) = j + 1
        OBVIOUS
    <2>2. left[j] = 0
        BY <1>3, <2>1
    <2>3. 0 \div r = 0
        BY OneDigitOff
    <2> QED BY <1>1, <2>1, <2>2, <2>3
<1> HIDE DEF H
<1>4. Nat \subseteq H
    BY <1>2, <1>3, Induction
<1> QED BY <1>1, <1>4 DEF H

\* A number of 32 bits has no more than eight digits of sixteen.
Dword(v) == v \in Nat /\ v \div 65536 < 65536

\* 32 bits have at most eight hexadecimal digits, so the padding never is
\* negative.
LEMMA EightDigits ==
    ASSUME NEW v, Dword(v)
    PROVE  Left(v, 16)[8] = 0
<1>0. v \in Nat /\ Radix(16) /\ v < 4294967296
    BY SMT DEF Dword, Radix
<1>1. PICK left \in [Nat -> Nat] : left = Left(v, 16) /\ left[0] = v /\ \A k \in Nat : left[k + 1] = left[k] \div 16
    <2>1. PICK r : r = 16
        OBVIOUS
    <2>2. v \in Nat
        BY SMT, <1>0
    <2>4. Radix(r)
        BY <1>0, <2>1
    <2>3. PICK left \in [Nat -> Nat] : left = Left(v, r) /\ left[0] = v /\ \A k \in Nat : left[k + 1] = left[k] \div r
        BY <2>2, <2>4, LeftIs
    <2> QED BY <2>1, <2>3
<1>2. /\ left[1] = left[0] \div 16 /\ left[2] = left[1] \div 16 /\ left[3] = left[2] \div 16 /\ left[4] = left[3] \div 16
      /\ left[5] = left[4] \div 16 /\ left[6] = left[5] \div 16 /\ left[7] = left[6] \div 16 /\ left[8] = left[7] \div 16
    BY SMT, <1>1
<1>3. left[1] \in Nat /\ left[1] < 268435456
    BY SMT, <1>0, <1>1, <1>2
<1>4. left[2] \in Nat /\ left[2] < 16777216
    BY SMT, <1>1, <1>2, <1>3
<1>5. left[3] \in Nat /\ left[3] < 1048576
    BY SMT, <1>1, <1>2, <1>4
<1>6. left[4] \in Nat /\ left[4] < 65536
    BY SMT, <1>1, <1>2, <1>5
<1>7. left[5] \in Nat /\ left[5] < 4096
    BY SMT, <1>1, <1>2, <1>6
<1>8. left[6] \in Nat /\ left[6] < 256
    BY SMT, <1>1, <1>2, <1>7
<1>9. left[7] \in Nat /\ left[7] < 16
    BY SMT, <1>1, <1>2, <1>8
<1>10. left[8] = 0
    <2>1. PICK x \in Nat : x = left[7] /\ x < 16
        BY <1>9
    <2>2. x \div 16 = 0
        BY <2>1
    <2> QED BY <1>2, <2>1, <2>2
<1> QED BY SMT, <1>1, <1>10

LEMMA PaddedIs ==
    ASSUME NEW v, Dword(v)
    PROVE  Zeros(8 - Len(Itoa(v, 16))) \o Itoa(v, 16) = DigitsOf(v, 16, 8)
<1>0. v \in Nat /\ Radix(16)
    BY DEF Dword, Radix
<1>1. PICK p \in Nat : /\ p = Places(v, 16) /\ p >= 1 /\ Left(v, 16)[p] = 0
                       /\ \A k \in 1 .. p - 1 : Left(v, 16)[k] # 0
    BY <1>0, PlacesAre
<1>2. p <= 8
    <2>1. 8 \notin 1 .. p - 1
        BY <1>1, EightDigits
    <2> QED BY <2>1
<1>3. PICK s : s = Itoa(v, 16) /\ s = DigitsOf(v, 16, p)
    BY <1>0, <1>1, ItoaIs
<1>4. DOMAIN s = 1 .. p /\ Len(s) = p /\ s \in Seq({s[k] : k \in 1 .. p})
    <2>1. s = [k \in 1 .. p |-> s[k]]
        BY <1>3 DEF DigitsOf
    <2> QED BY <2>1
<1>5. PICK z : z = Zeros(8 - p)
    OBVIOUS
<1>6. DOMAIN z = 1 .. 8 - p /\ Len(z) = 8 - p /\ (\A k \in 1 .. 8 - p : z[k] = Lookup(0)) /\ z \in Seq({Lookup(0)})
    BY <1>2, <1>5 DEF Zeros
<1>7. z \o s = [k \in 1 .. 8 |-> IF k <= 8 - p THEN z[k] ELSE s[k - (8 - p)]]
    <2>1. Len(z) + Len(s) = 8
        BY <1>2, <1>4, <1>6
    <2>2. PICK S : z \in Seq(S) /\ s \in Seq(S)
        <3>1. /\ z \in Seq({Lookup(0)} \cup {s[k] : k \in 1 .. p})
              /\ s \in Seq({Lookup(0)} \cup {s[k] : k \in 1 .. p})
            BY <1>4, <1>6
        <3> QED BY <3>1
    <2>3. PICK t : t = z \o s
        OBVIOUS
    <2>4. t \in Seq(S) /\ Len(t) = Len(z) + Len(s)
        BY <2>2, <2>3
    <2>5. \A k \in 1 .. Len(z) + Len(s) : t[k] = IF k <= Len(z) THEN z[k] ELSE s[k - Len(z)]
        BY <2>2, <2>3
    <2>6. t = [k \in 1 .. 8 |-> t[k]]
        BY <2>1, <2>4
    <2> QED BY <1>6, <2>1, <2>3, <2>5, <2>6
<1>8. ASSUME NEW k \in 1 .. 8
      PROVE  (IF k <= 8 - p THEN z[k] ELSE s[k - (8 - p)]) = Lookup(Left(v, 16)[8 - k] % 16)
    <2>1. CASE k <= 8 - p
        <3>1. PICK j \in Nat : j = 8 - p - k /\ p + j = 8 - k
            <4>1. 8 - p - k \in Nat /\ p + (8 - p - k) = 8 - k
                BY <1>2, <2>1
            <4> QED BY <4>1
        <3>2. Left(v, 16)[8 - k] = 0
            BY <1>0, <1>1, <3>1, LeftStays
        <3> QED BY <1>2, <1>6, <2>1, <3>2
    <2>2. CASE ~(k <= 8 - p)
        <3>1. k - (8 - p) \in 1 .. p /\ p - (k - (8 - p)) = 8 - k
            BY <1>2, <2>2
        <3> QED BY <1>3, <2>2, <3>1 DEF DigitsOf
    <2> QED BY <2>1, <2>2
<1>9. z \o s = DigitsOf(v, 16, 8)
    BY <1>7, <1>8 DEF DigitsOf
<1> QED BY <1>3, <1>4, <1>5, <1>9

-----------------------------------------------------------------------------
\* printf, one character of the format after the other.

\* What can follow from the states of X with a character.
Further(X, c, values, modulus) == X \cup {PrintfStep(m, c, values, modulus) : m \in X}

\* The loop of printf is a fold that exists for formats of up to five
\* characters.
LEMMA FormatRuns ==
    ASSUME NEW format, NEW values, NEW modulus, NEW n \in 0 .. 5, DOMAIN format = 1 .. n
    PROVE  \E h : PrintfRun(h, format, values, modulus, n)
<1> DEFINE X0 == {Begin}
           X1 == Further(X0, format[1], values, modulus)
           X2 == Further(X1, format[2], values, modulus)
           X3 == Further(X2, format[3], values, modulus)
           X4 == Further(X3, format[4], values, modulus)
           X5 == Further(X4, format[5], values, modulus)
           E == [k \in 0 .. 5 |-> IF k = 0 THEN X0 ELSE IF k = 1 THEN X1 ELSE IF k = 2 THEN X2
                                  ELSE IF k = 3 THEN X3 ELSE IF k = 4 THEN X4 ELSE X5]
<1> HIDE DEF X0, X1, X2, X3, X4, X5
<1>1. /\ E[0] = X0 /\ E[1] = X1 /\ E[2] = X2 /\ E[3] = X3 /\ E[4] = X4 /\ E[5] = X5
    OBVIOUS
<1> HIDE DEF E
<1>2. ASSUME NEW k \in 1 .. 5
      PROVE  E[k] = Further(E[k - 1], format[k], values, modulus)
    BY <1>1 DEF X1, X2, X3, X4, X5
<1>3. ASSUME NEW k \in 1 .. 5 PROVE E[k - 1] \subseteq E[k]
    BY <1>2 DEF Further
<1>4. ASSUME NEW k \in 1 .. n PROVE E[k - 1] \subseteq E[n]
    <2>1. E[0] \subseteq E[1] /\ E[1] \subseteq E[2] /\ E[2] \subseteq E[3] /\ E[3] \subseteq E[4] /\ E[4] \subseteq E[5]
        BY <1>3
    <2>2. \A i, j \in 0 .. 5 : i < j => E[i] \subseteq E[j]
        BY <2>1
    <2>3. k - 1 \in 0 .. 5 /\ n \in 0 .. 5 /\ k - 1 < n
        OBVIOUS
    <2> QED BY <2>2, <2>3
<1>5. ASSUME NEW k \in 1 .. n, NEW m \in E[k - 1]
      PROVE  PrintfStep(m, format[k], values, modulus) \in E[k] /\ m \in E[n] /\ m \in E[k]
    <2>1. k \in 1 .. 5
        OBVIOUS
    <2> QED BY <1>2, <1>3, <1>4, <2>1 DEF Further
<1>6. Begin \in E[0]
    BY <1>1 DEF X0
<1>7. \A k \in 1 .. n : \A m \in E[k - 1] : m \in E[n] /\ m \in E[k]
    BY <1>5
<1>8. \A k \in 1 .. n : \A m \in E[k - 1] : PrintfStep(m, format[k], values, modulus) \in E[k]
    BY <1>5
<1>9. n \in Nat
    OBVIOUS
<1> QED BY <1>6, <1>7, <1>8, <1>9, PrintfRuns

-----------------------------------------------------------------------------
(* The cases of PrintfStep *)

Yes == TRUE

No == FALSE

Printing(printed, next, percent, alternate) ==
    [out |-> printed, next |-> next, percent |-> percent, alternate |-> alternate]

Letters == {LetterX, LetterU, LetterD, LetterC, LetterS}

Plain(c) == c # Percent

\* A character, the percent sign, the percent sign behind it, # and a letter.
LEMMA CharacterPrinted ==
    ASSUME NEW printed, NEW next, NEW alternate, NEW values, NEW modulus, NEW c, Plain(c)
    PROVE  PrintfStep(Printing(printed, next, No, alternate), c, values, modulus)
             = Printing(Append(printed, c), next, No, alternate)
BY DEF Plain, Yes, No, PrintfStep, Printing, Percent, Alternate, LetterX, LetterU, LetterD, LetterC, LetterS

First(c) == Append(<<>>, c)

LEMMA FirstPrinted ==
    ASSUME NEW values, NEW modulus, NEW c, Plain(c)
    PROVE  PrintfStep(Begin, c, values, modulus) = Printing(First(c), 1, No, No)
BY DEF Begin, First, Plain, Yes, No, PrintfStep, Printing, Percent, Alternate, LetterX, LetterU, LetterD, LetterC, LetterS

LEMMA PercentSeen ==
    ASSUME NEW printed, NEW next, NEW alternate, NEW values, NEW modulus
    PROVE  PrintfStep(Printing(printed, next, No, alternate), Percent, values, modulus)
             = Printing(printed, next, Yes, No)
BY DEF Yes, No, PrintfStep, Printing, Percent, Alternate, LetterX, LetterU, LetterD, LetterC, LetterS

LEMMA PercentPrinted ==
    ASSUME NEW printed, NEW next, NEW alternate, NEW values, NEW modulus
    PROVE  PrintfStep(Printing(printed, next, Yes, alternate), Percent, values, modulus)
             = Printing(Append(printed, Percent), next, No, alternate)
<1>1. Percent # Alternate
    BY DEF Percent, Alternate
<1>2. Alternate \notin {LetterX, LetterU, LetterD, LetterC, LetterS} /\ Percent \notin {LetterX, LetterU, LetterD, LetterC, LetterS}
    BY DEF Percent, Alternate, LetterX, LetterU, LetterD, LetterC, LetterS
<1> QED BY <1>1, <1>2, Zenon DEF Yes, No, PrintfStep, Printing

LEMMA AlternateSeen ==
    ASSUME NEW printed, NEW next, NEW alternate, NEW values, NEW modulus
    PROVE  PrintfStep(Printing(printed, next, Yes, alternate), Alternate, values, modulus)
             = Printing(printed, next, Yes, Yes)
<1>1. Percent # Alternate
    BY DEF Percent, Alternate
<1>2. Alternate \notin {LetterX, LetterU, LetterD, LetterC, LetterS} /\ Percent \notin {LetterX, LetterU, LetterD, LetterC, LetterS}
    BY DEF Percent, Alternate, LetterX, LetterU, LetterD, LetterC, LetterS
<1> QED BY <1>1, <1>2, Zenon DEF Yes, No, PrintfStep, Printing

LEMMA ValuePrinted ==
    ASSUME NEW printed, NEW next, NEW alternate, NEW values, NEW modulus, NEW c \in Letters
    PROVE  PrintfStep(Printing(printed, next, Yes, alternate), c, values, modulus)
             = Printing(printed \o (IF c = LetterS THEN values[next]
                                ELSE Converted(c, alternate, values[next], modulus)),
                        next + 1, No, alternate)
<1>1. c # Percent /\ c # Alternate
    BY DEF Letters, Percent, Alternate, LetterX, LetterU, LetterD, LetterC, LetterS
<1> QED BY <1>1, Zenon DEF Yes, No, PrintfStep, Printing, Letters

\* What lies between the first and the last character.
Between(printed) == SubSeq(printed, 2, Len(printed) - 1)

\* What was printed between two characters.
LEMMA TextBetween ==
    ASSUME NEW a \in Int, NEW b \in Int, NEW text \in Seq(Int)
    PROVE  Between(Append(First(a) \o text, b)) = text
<1>0. PICK S, printed : S = Int /\ printed = Append(First(a) \o text, b)
    OBVIOUS
<1>a. a \in S /\ b \in S /\ text \in Seq(S)
    BY <1>0
<1>1. PICK n \in Nat : n = Len(text)
    OBVIOUS
<1>2. PICK first : first = First(a)
    OBVIOUS
<1>3. first \in Seq(S) /\ Len(first) = 1
    BY <1>2, <1>a DEF First
<1>4. PICK front : front = first \o text
    OBVIOUS
<1>5. front \in Seq(S) /\ Len(front) = 1 + n /\ \A k \in 1 .. n : front[k + 1] = text[k]
    <2>1. front \in Seq(S) /\ Len(front) = 1 + n
        <3>1. first \in Seq(S)
            BY <1>3
        <3>2. front \in Seq(S) /\ Len(front) = Len(first) + Len(text)
            BY <1>4, <1>a, <3>1
        <3> QED BY <1>1, <1>3, <3>2
    <2>2. ASSUME NEW k \in 1 .. n PROVE front[k + 1] = text[k]
        <3>1. k + 1 \in 1 .. 1 + n /\ ~(k + 1 <= 1) /\ k + 1 - 1 = k
            OBVIOUS
        <3>2. first \in Seq(S)
            BY <1>3
        <3>3. \A i \in 1 .. Len(first) + Len(text) :
                 front[i] = IF i <= Len(first) THEN first[i] ELSE text[i - Len(first)]
            BY <1>4, <1>a, <3>2
        <3> QED BY <1>1, <1>3, <3>1, <3>3
    <2> QED BY <2>1, <2>2
<1>6. printed \in Seq(S) /\ Len(printed) = n + 2 /\ \A k \in 1 .. n : printed[k + 1] = front[k + 1]
    <2>1. printed = Append(front, b) /\ front \in Seq(S) /\ b \in S
        BY <1>0, <1>2, <1>4, <1>5, <1>a
    <2>2. Len(front) = 1 + n
        BY <1>5
    <2> QED BY <2>1, <2>2
<1>7. PICK t : t = SubSeq(printed, 2, n + 1)
    OBVIOUS
<1>8. t \in Seq(S) /\ Len(t) = n /\ \A k \in 1 .. n : t[k] = printed[k + 1]
    BY <1>6, <1>7
<1>9. \A k \in 1 .. n : t[k] = text[k]
    BY <1>5, <1>6, <1>8
<1>10. t = text
    BY <1>1, <1>8, <1>9
<1>11. Len(printed) - 1 = n + 1
    BY <1>6
<1> QED BY <1>0, <1>7, <1>10, <1>11 DEF Between

\* The parts of a format.
LEMMA FormatParts ==
    ASSUME NEW x \in Seq(Int), Len(x) = 2, NEW y \in Seq(Int), NEW z \in Seq(Int), Len(z) = 1
    PROVE  /\ DOMAIN (x \o y \o z) = 1 .. Len(y) + 3
           /\ (x \o y \o z)[1] = x[1] /\ (x \o y \o z)[2] = x[2]
           /\ \A k \in 1 .. Len(y) : (x \o y \o z)[k + 2] = y[k]
           /\ (x \o y \o z)[Len(y) + 3] = z[1]
<1>1. PICK n \in Nat : n = Len(y)
    OBVIOUS
<1>2. PICK p : p = x \o y
    OBVIOUS
<1>3. /\ p \in Seq(Int) /\ Len(p) = Len(x) + Len(y)
      /\ \A i \in 1 .. Len(x) + Len(y) : p[i] = IF i <= Len(x) THEN x[i] ELSE y[i - Len(x)]
    BY <1>2, Joined
<1>4. Len(p) = n + 2
    BY <1>1, <1>3
<1>5. PICK q : q = p \o z
    OBVIOUS
<1>6. /\ q \in Seq(Int) /\ Len(q) = Len(p) + Len(z)
      /\ \A i \in 1 .. Len(p) + Len(z) : q[i] = IF i <= Len(p) THEN p[i] ELSE z[i - Len(p)]
    <2>1. p \in Seq(Int)
        BY <1>3
    <2> QED BY <1>5, <2>1, Joined
<1>7. Len(q) = n + 3 /\ DOMAIN q = 1 .. n + 3
    BY <1>4, <1>6
<1>8. p[1] = x[1] /\ p[2] = x[2] /\ \A k \in 1 .. n : p[k + 2] = y[k]
    <2>1. \A i \in 1 .. 2 + n : p[i] = IF i <= 2 THEN x[i] ELSE y[i - 2]
        BY <1>1, <1>3
    <2>2. ASSUME NEW k \in 1 .. n PROVE p[k + 2] = y[k]
        <3>1. k + 2 \in 1 .. 2 + n /\ ~(k + 2 <= 2) /\ k + 2 - 2 = k
            OBVIOUS
        <3> QED BY <2>1, <3>1
    <2>3. 1 \in 1 .. 2 + n /\ 2 \in 1 .. 2 + n
        OBVIOUS
    <2> QED BY <2>1, <2>2, <2>3
<1>9. \A i \in 1 .. n + 3 : q[i] = IF i <= n + 2 THEN p[i] ELSE z[i - (n + 2)]
    BY <1>4, <1>6
<1>10. q[1] = x[1] /\ q[2] = x[2] /\ q[n + 3] = z[1] /\ \A k \in 1 .. n : q[k + 2] = y[k]
    <2>1. q[1] = p[1] /\ q[2] = p[2]
        BY <1>9
    <2>2. q[n + 3] = z[1]
        <3>1. n + 3 \in 1 .. n + 3 /\ ~(n + 3 <= n + 2) /\ n + 3 - (n + 2) = 1
            OBVIOUS
        <3> QED BY <1>9, <3>1
    <2>3. ASSUME NEW k \in 1 .. n PROVE q[k + 2] = y[k]
        <3>1. k + 2 \in 1 .. n + 3 /\ k + 2 <= n + 2
            OBVIOUS
        <3> QED BY <1>8, <1>9, <3>1
    <2> QED BY <1>8, <2>1, <2>2, <2>3
<1> QED BY <1>1, <1>2, <1>5, <1>7, <1>10

-----------------------------------------------------------------------------
\* The text of one conversion in a format.

\* What is printed for a letter alone.
Gives(text, c, alternate, values, modulus) ==
    text = IF c = LetterS THEN values[1] ELSE Converted(c, alternate, values[1], modulus)

Written(format, a, c, b) ==
    DOMAIN format = 1 .. 4 /\ format[1] = a /\ format[2] = Percent /\ format[3] = c /\ format[4] = b

\* Formats with one letter, with #x and with %%.
LEMMA OneLetter ==
    ASSUME NEW a, Plain(a), NEW b, Plain(b), NEW c \in Letters, NEW format,
           Written(format, a, c, b), NEW values, NEW modulus, NEW text,
           Gives(text, c, No, values, modulus)
    PROVE  Printf(format, values, modulus) = Append(First(a) \o text, b)
<1>1. DOMAIN format = 1 .. 4 /\ format[1] = a /\ format[2] = Percent /\ format[3] = c /\ format[4] = b
    BY DEF Written
<1>2. PICK h : PrintfRun(h, format, values, modulus, 4)
    <2>1. 4 \in 0 .. 5
        OBVIOUS
    <2> QED BY <1>1, <2>1, FormatRuns
<1>3. /\ h[0] = Begin /\ h[4].out = Printf(format, values, modulus)
      /\ \A k \in 1 .. 4 : h[k] = PrintfStep(h[k - 1], format[k], values, modulus)
    BY <1>2 DEF PrintfRun
<1>4. /\ h[1] = PrintfStep(h[0], a, values, modulus) /\ h[2] = PrintfStep(h[1], Percent, values, modulus)
      /\ h[3] = PrintfStep(h[2], c, values, modulus) /\ h[4] = PrintfStep(h[3], b, values, modulus)
    BY <1>1, <1>3
<1>5. h[1] = Printing(First(a), 1, No, No)
    <2>1. PrintfStep(Begin, a, values, modulus) = Printing(First(a), 1, No, No)
        BY FirstPrinted
    <2> QED BY <2>1, <1>3, <1>4
<1>6. h[2] = Printing(First(a), 1, Yes, No)
    <2>1. PrintfStep(Printing(First(a), 1, No, No), Percent, values, modulus)
            = Printing(First(a), 1, Yes, No)
        BY PercentSeen
    <2> QED BY <2>1, <1>4, <1>5
<1>7. h[3] = Printing(First(a) \o text, 1 + 1, No, No)
    <2>1. PrintfStep(Printing(First(a), 1, Yes, No), c, values, modulus)
            = Printing(First(a) \o text, 1 + 1, No, No)
        <3>1. PrintfStep(Printing(First(a), 1, Yes, No), c, values, modulus)
                = Printing(First(a) \o (IF c = LetterS THEN values[1]
                                               ELSE Converted(c, No, values[1], modulus)),
                           1 + 1, No, No)
            BY ValuePrinted
        <3> QED BY <3>1 DEF Gives
    <2> QED BY <2>1, <1>4, <1>6
<1>8. h[4] = Printing(Append(First(a) \o text, b), 1 + 1, No, No)
    <2>1. PrintfStep(Printing(First(a) \o text, 1 + 1, No, No), b, values, modulus)
            = Printing(Append(First(a) \o text, b), 1 + 1, No, No)
        BY CharacterPrinted
    <2> QED BY <2>1, <1>4, <1>7
<1> QED
    <2>1. h[4].out = Append(First(a) \o text, b)
        BY <1>8 DEF Printing
    <2> QED BY <1>3, <2>1

WrittenAlternate(format, a, b) ==
    /\ DOMAIN format = 1 .. 5 /\ format[1] = a /\ format[2] = Percent /\ format[3] = Alternate
    /\ format[4] = LetterX /\ format[5] = b

LEMMA AlternateLetter ==
    ASSUME NEW a, Plain(a), NEW b, Plain(b), NEW format,
           WrittenAlternate(format, a, b), NEW values, NEW modulus, NEW text,
           Gives(text, LetterX, Yes, values, modulus)
    PROVE  Printf(format, values, modulus) = Append(First(a) \o text, b)
<1>1. /\ DOMAIN format = 1 .. 5 /\ format[1] = a /\ format[2] = Percent /\ format[3] = Alternate
      /\ format[4] = LetterX /\ format[5] = b
    BY DEF WrittenAlternate
<1>2. PICK h : PrintfRun(h, format, values, modulus, 5)
    <2>1. 5 \in 0 .. 5
        OBVIOUS
    <2> QED BY <1>1, <2>1, FormatRuns
<1>3. /\ h[0] = Begin /\ h[5].out = Printf(format, values, modulus)
      /\ \A k \in 1 .. 5 : h[k] = PrintfStep(h[k - 1], format[k], values, modulus)
    BY <1>2 DEF PrintfRun
<1>4. /\ h[1] = PrintfStep(h[0], a, values, modulus) /\ h[2] = PrintfStep(h[1], Percent, values, modulus)
      /\ h[3] = PrintfStep(h[2], Alternate, values, modulus) /\ h[4] = PrintfStep(h[3], LetterX, values, modulus)
      /\ h[5] = PrintfStep(h[4], b, values, modulus)
    BY <1>1, <1>3
<1>5. h[1] = Printing(First(a), 1, No, No)
    <2>1. PrintfStep(Begin, a, values, modulus) = Printing(First(a), 1, No, No)
        BY FirstPrinted
    <2> QED BY <2>1, <1>3, <1>4
<1>6. h[2] = Printing(First(a), 1, Yes, No)
    <2>1. PrintfStep(Printing(First(a), 1, No, No), Percent, values, modulus)
            = Printing(First(a), 1, Yes, No)
        BY PercentSeen
    <2> QED BY <2>1, <1>4, <1>5
<1>7. h[3] = Printing(First(a), 1, Yes, Yes)
    <2>1. PrintfStep(Printing(First(a), 1, Yes, No), Alternate, values, modulus)
            = Printing(First(a), 1, Yes, Yes)
        BY AlternateSeen
    <2> QED BY <2>1, <1>4, <1>6
<1>8. LetterX \in Letters /\ LetterX # LetterS
    BY DEF Letters, LetterX, LetterS
<1>9. h[4] = Printing(First(a) \o text, 1 + 1, No, Yes)
    <2>1. PrintfStep(Printing(First(a), 1, Yes, Yes), LetterX, values, modulus)
            = Printing(First(a) \o text, 1 + 1, No, Yes)
        <3>1. PrintfStep(Printing(First(a), 1, Yes, Yes), LetterX, values, modulus)
                = Printing(First(a) \o (IF LetterX = LetterS THEN values[1]
                                               ELSE Converted(LetterX, Yes, values[1], modulus)),
                           1 + 1, No, Yes)
            BY <1>8, ValuePrinted
        <3> QED BY <1>8, <3>1 DEF Gives
    <2> QED BY <2>1, <1>4, <1>7
<1>10. h[5] = Printing(Append(First(a) \o text, b), 1 + 1, No, Yes)
    <2>1. PrintfStep(Printing(First(a) \o text, 1 + 1, No, Yes), b, values, modulus)
            = Printing(Append(First(a) \o text, b), 1 + 1, No, Yes)
        BY CharacterPrinted
    <2> QED BY <2>1, <1>4, <1>9
<1> QED
    <2>1. h[5].out = Append(First(a) \o text, b)
        BY <1>10 DEF Printing
    <2> QED BY <1>3, <2>1

LEMMA PercentItself ==
    ASSUME NEW a, Plain(a), NEW b, Plain(b), NEW format,
           Written(format, a, Percent, b), NEW values, NEW modulus
    PROVE  Printf(format, values, modulus) = Append(Append(First(a), Percent), b)
<1>1. /\ DOMAIN format = 1 .. 4 /\ format[1] = a /\ format[2] = Percent /\ format[3] = Percent
      /\ format[4] = b
    BY DEF Written
<1>2. PICK h : PrintfRun(h, format, values, modulus, 4)
    <2>1. 4 \in 0 .. 5
        OBVIOUS
    <2> QED BY <1>1, <2>1, FormatRuns
<1>3. /\ h[0] = Begin /\ h[4].out = Printf(format, values, modulus)
      /\ \A k \in 1 .. 4 : h[k] = PrintfStep(h[k - 1], format[k], values, modulus)
    BY <1>2 DEF PrintfRun
<1>4. /\ h[1] = PrintfStep(h[0], a, values, modulus) /\ h[2] = PrintfStep(h[1], Percent, values, modulus)
      /\ h[3] = PrintfStep(h[2], Percent, values, modulus) /\ h[4] = PrintfStep(h[3], b, values, modulus)
    BY <1>1, <1>3
<1>5. h[1] = Printing(First(a), 1, No, No)
    <2>1. PrintfStep(Begin, a, values, modulus) = Printing(First(a), 1, No, No)
        BY FirstPrinted
    <2> QED BY <2>1, <1>3, <1>4
<1>6. h[2] = Printing(First(a), 1, Yes, No)
    <2>1. PrintfStep(Printing(First(a), 1, No, No), Percent, values, modulus)
            = Printing(First(a), 1, Yes, No)
        BY PercentSeen
    <2> QED BY <2>1, <1>4, <1>5
<1>7. h[3] = Printing(Append(First(a), Percent), 1, No, No)
    <2>1. PrintfStep(Printing(First(a), 1, Yes, No), Percent, values, modulus)
            = Printing(Append(First(a), Percent), 1, No, No)
        BY PercentPrinted
    <2> QED BY <2>1, <1>4, <1>6
<1>8. h[4] = Printing(Append(Append(First(a), Percent), b), 1, No, No)
    <2>1. PrintfStep(Printing(Append(First(a), Percent), 1, No, No), b, values, modulus)
            = Printing(Append(Append(First(a), Percent), b), 1, No, No)
        BY CharacterPrinted
    <2> QED BY <2>1, <1>4, <1>7
<1> QED
    <2>1. h[4].out = Append(Append(First(a), Percent), b)
        BY <1>8 DEF Printing
    <2> QED BY <1>3, <2>1

-----------------------------------------------------------------------------
(* The texts of the conversions *)

\* A numeral is a text.
LEMMA DigitsAreNumbers ==
    ASSUME NEW v \in Nat, NEW r, Radix(r), NEW p \in Nat
    PROVE  DigitsOf(v, r, p) \in Seq(Int) /\ Len(DigitsOf(v, r, p)) = p
<1>1. ASSUME NEW k \in 1 .. p PROVE Lookup(Left(v, r)[p - k] % r) \in Int
    <2>1. p - k \in Nat
        OBVIOUS
    <2>2. PICK x \in Nat : x = Left(v, r)[p - k] % r
        BY <2>1, RestIs
    <2> QED BY <2>2, LookedUp
<1> QED BY <1>1 DEF DigitsOf

LEMMA ItoaIsText ==
    ASSUME NEW v \in Nat, NEW r, Radix(r)
    PROVE  Itoa(v, r) \in Seq(Int) /\ IsNumeral(Itoa(v, r), v, r)
<1>1. PICK p \in Nat : p = Places(v, r)
    BY PlacesAre
<1>2. Itoa(v, r) = DigitsOf(v, r, p)
    BY <1>1, ItoaIs
<1>3. DigitsOf(v, r, p) \in Seq(Int)
    BY DigitsAreNumbers
<1> QED BY <1>2, <1>3, ItoaReadsBack

\* An int and the unsigned number of the same bits.
Int32(value, modulus) ==
    /\ modulus \in Nat \ {0} /\ (modulus - 1) \div 65536 < 65536
    /\ value \in -(modulus \div 2) .. (modulus \div 2) - 1

\* A value as unsigned, and a negative one without its sign.
LEMMA UnsignedIs ==
    ASSUME NEW value, NEW modulus, Int32(value, modulus)
    PROVE  \E u \in Nat : u = value % modulus /\ Dword(u)
<1>1. modulus \in Nat \ {0} /\ (modulus - 1) \div 65536 < 65536 /\ value \in Int
    BY SMT DEF Int32
<1>2. PICK u \in Nat : u = value % modulus /\ u <= modulus - 1
    <2>1. value % modulus \in 0 .. modulus - 1
        BY SMT, <1>1
    <2> QED BY <1>1, <2>1
<1>3. u \div 65536 <= (modulus - 1) \div 65536
    BY SMT, <1>1, <1>2
<1>4. Dword(u)
    BY SMT, <1>1, <1>3 DEF Dword
<1> QED BY <1>2, <1>4

LEMMA NegatedIs ==
    ASSUME NEW value, NEW modulus, Int32(value, modulus)
    PROVE  /\ value \in Int
           /\ value < 0 => -value \in Nat /\ (-value) % modulus = -value
           /\ ~(value < 0) => value \in Nat
<1>1. modulus \in Nat \ {0} /\ value \in Int /\ -value <= modulus \div 2
    BY SMT DEF Int32
<1>2. modulus \div 2 < modulus
    BY SMT, <1>1
<1>3. ASSUME value < 0 PROVE -value \in Nat /\ (-value) % modulus = -value
    <2>1. PICK n \in Nat : n = -value /\ n < modulus
        BY <1>1, <1>2, <1>3
    <2>2. n % modulus = n
        BY <1>1, <2>1
    <2> QED BY <2>1, <2>2
<1> QED BY <1>1, <1>3

-----------------------------------------------------------------------------
\* The text of each conversion.

\* The text of %x, of %#x, of %u, of %d and of %c.
LEMMA HexadecimalText ==
    ASSUME NEW value, NEW modulus, Int32(value, modulus)
    PROVE  \E text \in Seq(Int) : /\ text = Converted(LetterX, No, value, modulus)
                                  /\ IsNumeral(text, value % modulus, 16)
<1>1. PICK u \in Nat : u = value % modulus
    BY UnsignedIs
<1>2. PICK r \in Nat : r = 16
    OBVIOUS
<1>3. Radix(r)
    BY <1>2 DEF Radix
<1>4. Itoa(u, r) \in Seq(Int) /\ IsNumeral(Itoa(u, r), u, r)
    BY <1>3, ItoaIsText
<1>5. Converted(LetterX, No, value, modulus) = Itoa(value % modulus, 16)
    BY DEF Converted, No, LetterX, LetterU, LetterD, LetterC, LetterS
<1> QED BY <1>1, <1>2, <1>4, <1>5

LEMMA PaddedText ==
    ASSUME NEW value, NEW modulus, Int32(value, modulus)
    PROVE  \E text \in Seq(Int) : /\ text = Converted(LetterX, Yes, value, modulus)
                                  /\ Len(text) = 8 /\ NumberOf(text, 16) = value % modulus
<1>1. PICK u \in Nat : u = value % modulus /\ Dword(u)
    BY UnsignedIs
<1>2. PICK r \in Nat : r = 16
    OBVIOUS
<1>3. Radix(r)
    BY <1>2 DEF Radix
<1>4. PICK e \in Nat : e = 8
    OBVIOUS
<1>5. Left(u, r)[e] = 0
    <2>1. Dword(u)
        BY <1>1
    <2>2. Left(u, 16)[8] = 0
        BY <2>1, EightDigits
    <2> QED BY <1>2, <1>4, <2>2
<1>6. DigitsOf(u, r, e) \in Seq(Int) /\ Len(DigitsOf(u, r, e)) = e
    BY <1>3, DigitsAreNumbers
<1>7. NumberOf(DigitsOf(u, r, e), r) = u
    BY <1>3, <1>5, ReadsBack
<1>8. Converted(LetterX, Yes, value, modulus) = Zeros(8 - Len(Itoa(u, 16))) \o Itoa(u, 16)
    <2>1. Converted(LetterX, Yes, value, modulus)
            = Zeros(8 - Len(Itoa(value % modulus, 16))) \o Itoa(value % modulus, 16)
        BY DEF Converted, Yes, LetterX, LetterU, LetterD, LetterC, LetterS
    <2> QED BY <1>1, <2>1
<1>9. Converted(LetterX, Yes, value, modulus) = DigitsOf(u, 16, 8)
    <2>1. Dword(u)
        BY <1>1
    <2>2. Zeros(8 - Len(Itoa(u, 16))) \o Itoa(u, 16) = DigitsOf(u, 16, 8)
        BY <2>1, PaddedIs
    <2> QED BY <1>8, <2>2
<1> QED BY <1>1, <1>2, <1>4, <1>6, <1>7, <1>9

LEMMA UnsignedText ==
    ASSUME NEW value, NEW modulus, Int32(value, modulus)
    PROVE  \E text \in Seq(Int) : /\ text = Converted(LetterU, No, value, modulus)
                                  /\ IsNumeral(text, value % modulus, 10)
<1>1. PICK u \in Nat : u = value % modulus
    BY UnsignedIs
<1>2. PICK r \in Nat : r = 10
    OBVIOUS
<1>3. Radix(r)
    BY <1>2 DEF Radix
<1>4. Itoa(u, r) \in Seq(Int) /\ IsNumeral(Itoa(u, r), u, r)
    BY <1>3, ItoaIsText
<1>5. Converted(LetterU, No, value, modulus) = Itoa(value % modulus, 10)
    BY DEF Converted, No, LetterX, LetterU, LetterD, LetterC, LetterS
<1> QED BY <1>1, <1>2, <1>4, <1>5

\* What stands behind the minus sign.
LEMMA BehindMinus ==
    ASSUME NEW digits \in Seq(Int)
    PROVE  /\ <<Minus>> \o digits \in Seq(Int)
           /\ (<<Minus>> \o digits)[1] = Minus
           /\ Tail(<<Minus>> \o digits) = digits
<1>1. PICK m \in Int : m = Minus
    BY DEF Minus
<1>2. PICK f : f = <<m>>
    OBVIOUS
<1>3. f \in Seq(Int) /\ Len(f) = 1 /\ f[1] = m
    BY <1>2
<1>4. PICK t : t = f \o digits
    OBVIOUS
<1>5. t \in Seq(Int) /\ Len(t) = 1 + Len(digits)
    <2>1. f \in Seq(Int)
        BY <1>3
    <2>2. t \in Seq(Int) /\ Len(t) = Len(f) + Len(digits)
        BY <1>4, <2>1
    <2> QED BY <1>3, <2>2
<1>6. \A i \in 1 .. 1 + Len(digits) : t[i] = IF i <= 1 THEN f[i] ELSE digits[i - 1]
    <2>1. f \in Seq(Int)
        BY <1>3
    <2>2. \A i \in 1 .. Len(f) + Len(digits) : t[i] = IF i <= Len(f) THEN f[i] ELSE digits[i - Len(f)]
        BY <1>4, <2>1
    <2> QED BY <1>3, <2>2
<1>7. t[1] = m
    BY <1>3, <1>6
<1>8. PICK s : s = Tail(t)
    OBVIOUS
<1>9. s \in Seq(Int) /\ Len(s) = Len(digits) /\ \A i \in 1 .. Len(digits) : s[i] = t[i + 1]
    <2>1. t # <<>>
        BY <1>5
    <2> QED BY <1>5, <1>8, <2>1
<1>10. ASSUME NEW i \in 1 .. Len(digits) PROVE s[i] = digits[i]
    <2>1. i + 1 \in 1 .. 1 + Len(digits) /\ ~(i + 1 <= 1) /\ i + 1 - 1 = i
        OBVIOUS
    <2>2. t[i + 1] = digits[i + 1 - 1]
        BY <1>6, <2>1
    <2> QED BY <1>9, <2>1, <2>2
<1>11. s = digits
    <2>1. s \in Seq(Int) /\ digits \in Seq(Int) /\ Len(s) = Len(digits)
        BY <1>9
    <2>2. \A i \in 1 .. Len(s) : s[i] = digits[i]
        BY <1>10, <2>1
    <2> QED BY <2>1, <2>2, SeqEqual
<1> QED BY <1>1, <1>2, <1>4, <1>5, <1>7, <1>8, <1>11

LEMMA DecimalText ==
    ASSUME NEW value, NEW modulus, Int32(value, modulus)
    PROVE  \E text \in Seq(Int) : /\ text = Converted(LetterD, No, value, modulus)
                                  /\ IF value < 0 THEN text[1] = Minus /\ IsNumeral(Tail(text), -value, 10)
                                                  ELSE IsNumeral(text, value, 10)
<1>1. /\ value \in Int
      /\ value < 0 => -value \in Nat /\ (-value) % modulus = -value
      /\ ~(value < 0) => value \in Nat
    BY NegatedIs
<1>2. PICK r \in Nat : r = 10
    OBVIOUS
<1>3. Radix(r)
    BY <1>2 DEF Radix
<1>4. Converted(LetterD, No, value, modulus)
        = IF value < 0 THEN <<Minus>> \o Itoa((-value) % modulus, 10) ELSE Itoa(value, 10)
    BY DEF Converted, No, LetterX, LetterU, LetterD, LetterC, LetterS
<1>5. CASE value < 0
    <2>1. PICK u \in Nat : u = -value /\ u = (-value) % modulus
        BY <1>1, <1>5
    <2>2. PICK digits \in Seq(Int) : digits = Itoa(u, r) /\ IsNumeral(digits, u, r)
        <3>1. Itoa(u, r) \in Seq(Int) /\ IsNumeral(Itoa(u, r), u, r)
            BY <1>3, ItoaIsText
        <3> QED BY <3>1
    <2>3. Converted(LetterD, No, value, modulus) = <<Minus>> \o digits
        BY <1>2, <1>4, <1>5, <2>1, <2>2
    <2>4. PICK text : text = <<Minus>> \o digits
        OBVIOUS
    <2>5. text \in Seq(Int) /\ text[1] = Minus /\ Tail(text) = digits
        BY <2>4, BehindMinus
    <2>6. IsNumeral(Tail(text), -value, 10)
        BY <1>2, <2>1, <2>2, <2>5
    <2> QED BY <1>5, <2>3, <2>4, <2>5, <2>6
<1>6. CASE ~(value < 0)
    <2>1. PICK u \in Nat : u = value
        BY <1>1, <1>6
    <2>2. Itoa(u, r) \in Seq(Int) /\ IsNumeral(Itoa(u, r), u, r)
        BY <1>3, ItoaIsText
    <2>3. Converted(LetterD, No, value, modulus) = Itoa(u, r)
        BY <1>2, <1>4, <1>6, <2>1
    <2> QED BY <1>2, <1>6, <2>1, <2>2, <2>3
<1> QED BY <1>5, <1>6

LEMMA CharacterText ==
    ASSUME NEW value, NEW modulus, Int32(value, modulus)
    PROVE  \E text \in Seq(Int) : /\ text = Converted(LetterC, No, value, modulus)
                                  /\ text = <<value % 256>>
<1>1. value \in Int
    BY NegatedIs
<1>2. <<value % 256>> \in Seq(Int)
    BY <1>1
<1>3. Converted(LetterC, No, value, modulus) = <<value % 256>>
    BY DEF Converted, No, LetterX, LetterU, LetterD, LetterC, LetterS
<1> QED BY <1>2, <1>3

-----------------------------------------------------------------------------
\* Formats of one conversion between two characters.

\* The letters are different numbers.
LEMMA LetterNumbers ==
    /\ Letters \subseteq Int /\ Percent \in Int /\ Alternate \in Int /\ Percent \notin Letters
    /\ LetterX \in Letters /\ LetterU \in Letters /\ LetterD \in Letters /\ LetterC \in Letters
    /\ LetterS \in Letters
    /\ LetterX # LetterS /\ LetterU # LetterS /\ LetterD # LetterS /\ LetterC # LetterS
BY DEF Letters, Percent, Alternate, LetterX, LetterU, LetterD, LetterC, LetterS

\* format is a, the percent sign, the spelling and b.
Around(format, a, spelling, b) == format = <<a, Percent>> \o spelling \o <<b>>

\* The characters of a format.
LEMMA FormatOf ==
    ASSUME NEW a \in Int, NEW b \in Int, NEW spelling \in Seq(Int), NEW format,
           Around(format, a, spelling, b)
    PROVE  /\ DOMAIN format = 1 .. Len(spelling) + 3
           /\ format[1] = a /\ format[2] = Percent
           /\ \A k \in 1 .. Len(spelling) : format[k + 2] = spelling[k]
           /\ format[Len(spelling) + 3] = b
<1>1. PICK x : x = <<a, Percent>>
    OBVIOUS
<1>2. x \in Seq(Int) /\ Len(x) = 2 /\ x[1] = a /\ x[2] = Percent
    BY <1>1, LetterNumbers
<1>3. PICK z : z = <<b>>
    OBVIOUS
<1>4. z \in Seq(Int) /\ Len(z) = 1 /\ z[1] = b
    BY <1>3
<1>5. format = x \o spelling \o z
    BY <1>1, <1>3 DEF Around
<1>6. /\ DOMAIN (x \o spelling \o z) = 1 .. Len(spelling) + 3
      /\ (x \o spelling \o z)[1] = x[1] /\ (x \o spelling \o z)[2] = x[2]
      /\ \A k \in 1 .. Len(spelling) : (x \o spelling \o z)[k + 2] = spelling[k]
      /\ (x \o spelling \o z)[Len(spelling) + 3] = z[1]
    BY <1>2, <1>4, FormatParts
<1> QED BY <1>2, <1>4, <1>5, <1>6

\* A format with one character behind the percent sign, and with #x there.
LEMMA OneCharacter ==
    ASSUME NEW a \in Int, NEW b \in Int, NEW c \in Int, NEW format, Around(format, a, <<c>>, b)
    PROVE  Written(format, a, c, b)
<1>1. PICK spelling : spelling = <<c>>
    OBVIOUS
<1>2. spelling \in Seq(Int) /\ Len(spelling) = 1 /\ spelling[1] = c
    BY <1>1
<1>3. Around(format, a, spelling, b)
    BY <1>1
<1>4. /\ DOMAIN format = 1 .. Len(spelling) + 3
      /\ format[1] = a /\ format[2] = Percent
      /\ \A k \in 1 .. Len(spelling) : format[k + 2] = spelling[k]
      /\ format[Len(spelling) + 3] = b
    <2>1. spelling \in Seq(Int)
        BY <1>2
    <2> QED BY <1>3, <2>1, FormatOf
<1>5. format[1 + 2] = c
    BY <1>2, <1>4
<1> QED BY <1>2, <1>4, <1>5 DEF Written

LEMMA TwoCharacters ==
    ASSUME NEW a \in Int, NEW b \in Int, NEW format, Around(format, a, <<Alternate, LetterX>>, b)
    PROVE  WrittenAlternate(format, a, b)
<1>1. PICK spelling : spelling = <<Alternate, LetterX>>
    OBVIOUS
<1>2. spelling \in Seq(Int) /\ Len(spelling) = 2 /\ spelling[1] = Alternate /\ spelling[2] = LetterX
    <2>1. Alternate \in Int /\ LetterX \in Int
        BY LetterNumbers
    <2> QED BY <1>1, <2>1
<1>3. Around(format, a, spelling, b)
    BY <1>1
<1>4. /\ DOMAIN format = 1 .. Len(spelling) + 3
      /\ format[1] = a /\ format[2] = Percent
      /\ \A k \in 1 .. Len(spelling) : format[k + 2] = spelling[k]
      /\ format[Len(spelling) + 3] = b
    <2>1. spelling \in Seq(Int)
        BY <1>2
    <2> QED BY <1>3, <2>1, FormatOf
<1>5. format[1 + 2] = Alternate /\ format[2 + 2] = LetterX
    BY <1>2, <1>4
<1> QED BY <1>2, <1>4, <1>5 DEF WrittenAlternate

\* What stands between the two characters is what the letter gives.
LEMMA LetterBetween ==
    ASSUME NEW a \in Int, Plain(a), NEW b \in Int, Plain(b), NEW c \in Letters, NEW format,
           Around(format, a, <<c>>, b), NEW values, NEW modulus, NEW text \in Seq(Int),
           Gives(text, c, No, values, modulus)
    PROVE  Between(Printf(format, values, modulus)) = text
<1>1. c \in Int
    BY LetterNumbers
<1>2. Written(format, a, c, b)
    BY <1>1, OneCharacter
<1>3. Printf(format, values, modulus) = Append(First(a) \o text, b)
    BY <1>2, OneLetter
<1> QED BY <1>3, TextBetween

\* What stands between the two characters for #x and for %%.
LEMMA AlternateBetween ==
    ASSUME NEW a \in Int, Plain(a), NEW b \in Int, Plain(b), NEW format,
           Around(format, a, <<Alternate, LetterX>>, b), NEW values, NEW modulus, NEW text \in Seq(Int),
           Gives(text, LetterX, Yes, values, modulus)
    PROVE  Between(Printf(format, values, modulus)) = text
<1>1. WrittenAlternate(format, a, b)
    BY TwoCharacters
<1>2. Printf(format, values, modulus) = Append(First(a) \o text, b)
    BY <1>1, AlternateLetter
<1> QED BY <1>2, TextBetween

LEMMA PercentBetween ==
    ASSUME NEW a \in Int, Plain(a), NEW b \in Int, Plain(b), NEW format,
           Around(format, a, <<Percent>>, b), NEW values, NEW modulus
    PROVE  Between(Printf(format, values, modulus)) = <<Percent>>
<1>1. PICK p \in Int : p = Percent
    BY LetterNumbers
<1>2. Written(format, a, Percent, b)
    BY <1>1, OneCharacter
<1>3. Printf(format, values, modulus) = Append(Append(First(a), Percent), b)
    BY <1>2, PercentItself
<1>4. PICK text : text = <<Percent>>
    OBVIOUS
<1>5. text \in Seq(Int)
    BY <1>1, <1>4
<1>6. Append(First(a), Percent) = First(a) \o text
    BY <1>4 DEF First
<1>7. Between(Append(First(a) \o text, b)) = text
    BY <1>5, TextBetween
<1> QED BY <1>3, <1>4, <1>6, <1>7

\* printf: between the two characters of the format stands the numeral, the
\* string or the character that the conversion is for.
LEMMA ConversionPrinted ==
    ASSUME NEW task, OneConversion(task)
    PROVE  PrintsConversion(task, Between(Printf(task.format, task.values, task.modulus)))
<1>0. PICK value, modulus, values, format, a, b :
         /\ values = task.values /\ value = values[1] /\ modulus = task.modulus /\ format = task.format
         /\ a = task.format[1] /\ b = task.format[Len(task.format)]
    OBVIOUS
<1>1. /\ a \in Int /\ b \in Int /\ Plain(a) /\ Plain(b)
      /\ Around(format, a, Spelling(task.conversion), b)
      /\ task.conversion \in {"x", "#x", "u", "d", "c", "s", "%"}
    <2>1. a \in Nat \ {Percent} /\ b \in Nat \ {Percent}
        BY <1>0, SMT DEF OneConversion
    <2>2. format = Formatted(a, task.conversion, b)
        BY <1>0, SMT DEF OneConversion
    <2>3. task.conversion \in {"x", "#x", "u", "d", "c", "s", "%"}
        BY SMT DEF OneConversion
    <2> QED BY <2>1, <2>2, <2>3 DEF Around, Formatted, Plain
<1>2. task.conversion # "s" => Int32(value, modulus)
    BY <1>0, SMT DEF OneConversion, Int32
<1>3. task.conversion = "s" => value \in Seq(Int)
    BY <1>0, SMT DEF OneConversion
<1>4. PICK text : text = Between(Printf(format, values, modulus))
    OBVIOUS
<1>5. CASE task.conversion = "x"
    <2>1. PICK t \in Seq(Int) : t = Converted(LetterX, No, value, modulus) /\ IsNumeral(t, value % modulus, 16)
        BY <1>2, <1>5, HexadecimalText
    <2>2. Gives(t, LetterX, No, values, modulus)
        BY <1>0, <2>1, LetterNumbers DEF Gives
    <2>3. Around(format, a, <<LetterX>>, b)
        BY <1>1, <1>5 DEF Spelling
    <2>4. text = t
        BY <1>1, <1>4, <2>2, <2>3, LetterBetween, LetterNumbers
    <2> QED BY <1>0, <1>4, <1>5, <2>1, <2>4 DEF PrintsConversion
<1>6. CASE task.conversion = "#x"
    <2>1. PICK t \in Seq(Int) : /\ t = Converted(LetterX, Yes, value, modulus)
                                /\ Len(t) = 8 /\ NumberOf(t, 16) = value % modulus
        BY <1>2, <1>6, PaddedText
    <2>2. Gives(t, LetterX, Yes, values, modulus)
        BY <1>0, <2>1, LetterNumbers DEF Gives
    <2>3. Around(format, a, <<Alternate, LetterX>>, b)
        BY <1>1, <1>6 DEF Spelling
    <2>4. text = t
        BY <1>1, <1>4, <2>2, <2>3, AlternateBetween
    <2> QED BY <1>0, <1>4, <1>6, <2>1, <2>4 DEF PrintsConversion
<1>7. CASE task.conversion = "u"
    <2>1. PICK t \in Seq(Int) : t = Converted(LetterU, No, value, modulus) /\ IsNumeral(t, value % modulus, 10)
        BY <1>2, <1>7, UnsignedText
    <2>2. Gives(t, LetterU, No, values, modulus)
        BY <1>0, <2>1, LetterNumbers DEF Gives
    <2>3. Around(format, a, <<LetterU>>, b)
        BY <1>1, <1>7 DEF Spelling
    <2>4. text = t
        BY <1>1, <1>4, <2>2, <2>3, LetterBetween, LetterNumbers
    <2> QED BY <1>0, <1>4, <1>7, <2>1, <2>4 DEF PrintsConversion
<1>8. CASE task.conversion = "d"
    <2>1. PICK t \in Seq(Int) : /\ t = Converted(LetterD, No, value, modulus)
                                /\ IF value < 0 THEN t[1] = Minus /\ IsNumeral(Tail(t), -value, 10)
                                                ELSE IsNumeral(t, value, 10)
        BY <1>2, <1>8, DecimalText
    <2>2. Gives(t, LetterD, No, values, modulus)
        BY <1>0, <2>1, LetterNumbers DEF Gives
    <2>3. Around(format, a, <<LetterD>>, b)
        BY <1>1, <1>8 DEF Spelling
    <2>4. text = t
        BY <1>1, <1>4, <2>2, <2>3, LetterBetween, LetterNumbers
    <2> QED BY <1>0, <1>4, <1>8, <2>1, <2>4 DEF PrintsConversion
<1>9. CASE task.conversion = "c"
    <2>1. PICK t \in Seq(Int) : t = Converted(LetterC, No, value, modulus) /\ t = <<value % 256>>
        BY <1>2, <1>9, CharacterText
    <2>2. Gives(t, LetterC, No, values, modulus)
        BY <1>0, <2>1, LetterNumbers DEF Gives
    <2>3. Around(format, a, <<LetterC>>, b)
        BY <1>1, <1>9 DEF Spelling
    <2>4. text = t
        BY <1>1, <1>4, <2>2, <2>3, LetterBetween, LetterNumbers
    <2> QED BY <1>0, <1>4, <1>9, <2>1, <2>4 DEF PrintsConversion
<1>10. CASE task.conversion = "s"
    <2>1. PICK t \in Seq(Int) : t = value
        BY <1>3, <1>10
    <2>2. Gives(t, LetterS, No, values, modulus)
        BY <1>0, <2>1 DEF Gives
    <2>3. Around(format, a, <<LetterS>>, b)
        BY <1>1, <1>10 DEF Spelling
    <2>4. text = t
        BY <1>1, <1>4, <2>2, <2>3, LetterBetween, LetterNumbers
    <2> QED BY <1>0, <1>4, <1>10, <2>1, <2>4 DEF PrintsConversion
<1>11. CASE task.conversion = "%"
    <2>1. Around(format, a, <<Percent>>, b)
        BY <1>1, <1>11 DEF Spelling
    <2>2. text = <<Percent>>
        BY <1>1, <1>4, <2>1, PercentBetween
    <2> QED BY <1>0, <1>4, <1>11, <2>2 DEF PrintsConversion
<1> QED BY <1>1, <1>5, <1>6, <1>7, <1>8, <1>9, <1>10, <1>11

-----------------------------------------------------------------------------
\* The calls that are tried.

OfMemory(task, memory, last, dest, src, n, c) ==
    /\ memory = task.memory /\ dest = task.dest /\ src = task.src /\ n = task.n /\ c = task.c
    /\ IsMemory(memory, last) /\ DOMAIN memory = 0 .. last /\ Max(DOMAIN memory) = last
    /\ \A a \in 0 .. last : memory[a] \in Int

\* The memory, the addresses and the numbers of a call.
LEMMA TaskMemory ==
    ASSUME NEW task, OnMemory(task)
    PROVE  \E memory, last : \E dest \in Nat, src \in Nat, n \in Nat, c \in Int :
              OfMemory(task, memory, last, dest, src, n, c)
<1>0. PICK memory : memory = task.memory
    OBVIOUS
<1>1. PICK last \in DOMAIN memory :
         /\ last \in Nat /\ DOMAIN memory = 0 .. last
         /\ memory = [a \in 0 .. last |-> memory[a]]
         /\ \A a \in 0 .. last : memory[a] \in 0 .. 255
    BY <1>0 DEF OnMemory
<1>2. PICK dest \in Nat, src \in Nat, n \in Nat, c \in Int :
         dest = task.dest /\ src = task.src /\ n = task.n /\ c = task.c
    BY DEF OnMemory
<1>3. \A a \in 0 .. last : memory[a] \in Int
    <2>1. 0 .. 255 \subseteq Int
        OBVIOUS
    <2> QED BY <1>1, <2>1, Zenon
<1>4. memory \in [0 .. last -> Int]
    <2>1. memory = [a \in 0 .. last |-> memory[a]]
        BY <1>1, Zenon
    <2>2. [a \in 0 .. last |-> memory[a]] \in [0 .. last -> Int]
        BY <1>3, Zenon
    <2> QED BY <2>1, <2>2, Zenon
<1>5. IsMemory(memory, last)
    BY <1>1, <1>4, Zenon DEF IsMemory
<1>6. Max(DOMAIN memory) = last
    BY <1>5, LastAddress
<1>7. DOMAIN memory = 0 .. last
    BY <1>1
<1>8. OfMemory(task, memory, last, dest, src, n, c)
    BY <1>0, <1>2, <1>3, <1>5, <1>6, <1>7, Zenon DEF OfMemory
<1> QED BY <1>8, Zenon

\* The value of each call on memory is what its comment says.
LEMMA MemsetTask ==
    ASSUME NEW task, task.fn = "memset", OnMemory(task)
    PROVE  Value(task) = [a \in DOMAIN task.memory |->
              IF a \in task.dest .. task.dest + task.n - 1 THEN task.c % 256 ELSE task.memory[a]]
<1>1. PICK memory, last : \E dest \in Nat, src \in Nat, n \in Nat, c \in Int :
         OfMemory(task, memory, last, dest, src, n, c)
    BY TaskMemory
<1>2. PICK dest \in Nat, src \in Nat, n \in Nat, c \in Int : OfMemory(task, memory, last, dest, src, n, c)
    BY <1>1
<1>3. /\ memory = task.memory /\ dest = task.dest /\ src = task.src /\ n = task.n /\ c = task.c
      /\ IsMemory(memory, last)
    BY <1>2 DEF OfMemory
<1>4. Value(task) = Memset(memory, dest, c, n)
    BY <1>3 DEF Value
<1>5. Memset(memory, dest, c, n) = After(memory, dest, dest + n, Always(c % 256))
    <2>1. IsMemory(memory, last)
        BY <1>3
    <2> QED BY <2>1, MemsetIs
<1>6. After(memory, dest, dest + n, Always(c % 256))
        = [a \in DOMAIN memory |-> IF a \in dest .. dest + n - 1 THEN c % 256 ELSE memory[a]]
    <2>1. ASSUME NEW a \in DOMAIN memory
          PROVE  (IF a \in dest .. dest + n - 1 THEN Always(c % 256)[a] ELSE memory[a])
                   = IF a \in dest .. dest + n - 1 THEN c % 256 ELSE memory[a]
        <3>1. a \in Int
            BY <1>3 DEF IsMemory
        <3> QED BY <3>1 DEF Always
    <2> QED BY <2>1 DEF After
<1> QED BY <1>3, <1>4, <1>5, <1>6, ZenonT(40)

LEMMA MemsetWordTask ==
    ASSUME NEW task, task.fn = "memset_word", OnMemory(task)
    PROVE  Value(task) = [a \in DOMAIN task.memory |->
              IF a \in task.dest .. task.dest + 2 * task.n - 1
                THEN (task.c \div <<1, 256>>[((a - task.dest) % 2) + 1]) % 256 ELSE task.memory[a]]
<1>1. PICK memory, last : \E dest \in Nat, src \in Nat, n \in Nat, c \in Int :
         OfMemory(task, memory, last, dest, src, n, c)
    BY TaskMemory
<1>2. PICK dest \in Nat, src \in Nat, n \in Nat, c \in Int : OfMemory(task, memory, last, dest, src, n, c)
    BY <1>1
<1>3. /\ memory = task.memory /\ dest = task.dest /\ src = task.src /\ n = task.n /\ c = task.c
      /\ IsMemory(memory, last) /\ Max(DOMAIN memory) = last
    BY <1>2 DEF OfMemory
<1>4. PICK unit : unit = <<c % 256, (c \div 256) % 256>>
    OBVIOUS
<1>5. unit \in Seq(Int) /\ unit # <<>> /\ Len(unit) = 2 /\ unit[1] = c % 256 /\ unit[2] = (c \div 256) % 256
    BY <1>4
<1>6. Value(task) = Stos(memory, dest, unit, n)
    BY <1>3, <1>4 DEF Value, MemsetWord
<1>7. Stos(memory, dest, unit, n) = After(memory, dest, Beyond(dest, n, unit), Repeated(unit, Len(unit), dest))
    <2>1. IsMemory(memory, last)
        BY <1>3
    <2>2. unit \in Seq(Int) /\ unit # <<>>
        BY <1>5
    <2> QED BY <2>1, <2>2, StosIs
<1>8. Beyond(dest, n, unit) = dest + 2 * n
    BY <1>5 DEF Beyond
<1>9. After(memory, dest, dest + 2 * n, Repeated(unit, 2, dest))
        = [a \in DOMAIN memory |-> IF a \in dest .. dest + 2 * n - 1
              THEN (c \div <<1, 256>>[((a - dest) % 2) + 1]) % 256 ELSE memory[a]]
    <2>1. ASSUME NEW a \in DOMAIN memory
          PROVE  Repeated(unit, 2, dest)[a] = (c \div <<1, 256>>[((a - dest) % 2) + 1]) % 256
        <3>1. a \in Int
            BY <1>3 DEF IsMemory
        <3>2. PICK k \in 0 .. 1 : k = (a - dest) % 2
            BY <3>1
        <3>3. Repeated(unit, 2, dest)[a] = unit[k + 1]
            BY <3>1, <3>2 DEF Repeated
        <3>4. unit[k + 1] = (c \div <<1, 256>>[k + 1]) % 256
            <4>1. CASE k = 0
                <5>1. c \div 1 = c
                    OBVIOUS
                <5> QED BY <1>5, <4>1, <5>1
            <4>2. CASE k = 1
                BY <1>5, <4>2
            <4> QED BY <4>1, <4>2
        <3> QED BY <3>2, <3>3, <3>4
    <2> QED BY <2>1 DEF After
<1> QED BY <1>3, <1>5, <1>6, <1>7, <1>8, <1>9

LEMMA MemsetDwordTask ==
    ASSUME NEW task, task.fn = "memset_dword", OnMemory(task)
    PROVE  Value(task) = [a \in DOMAIN task.memory |->
              IF a \in task.dest .. task.dest + 4 * task.n - 1
                THEN (task.c \div <<1, 256, 65536, 16777216>>[((a - task.dest) % 4) + 1]) % 256
                ELSE task.memory[a]]
<1>1. PICK memory, last : \E dest \in Nat, src \in Nat, n \in Nat, c \in Int :
         OfMemory(task, memory, last, dest, src, n, c)
    BY TaskMemory
<1>2. PICK dest \in Nat, src \in Nat, n \in Nat, c \in Int : OfMemory(task, memory, last, dest, src, n, c)
    BY <1>1
<1>3. /\ memory = task.memory /\ dest = task.dest /\ src = task.src /\ n = task.n /\ c = task.c
      /\ IsMemory(memory, last) /\ Max(DOMAIN memory) = last
    BY <1>2 DEF OfMemory
<1> DEFINE unit == <<c % 256, (c \div 256) % 256, (c \div 65536) % 256, (c \div 16777216) % 256>>
<1>4. unit = <<c % 256, (c \div 256) % 256, (c \div 65536) % 256, (c \div 16777216) % 256>>
    BY SMT
<1> HIDE DEF unit
<1>5. /\ unit \in Seq(Int) /\ unit # <<>> /\ Len(unit) = 4
      /\ unit[1] = c % 256 /\ unit[2] = (c \div 256) % 256
      /\ unit[3] = (c \div 65536) % 256 /\ unit[4] = (c \div 16777216) % 256
    BY SMT, <1>4
<1>6. Value(task) = Stos(memory, dest, unit, n)
    BY SMT, <1>3, <1>4 DEF Value, MemsetDword
<1>7. Stos(memory, dest, unit, n) = After(memory, dest, Beyond(dest, n, unit), Repeated(unit, Len(unit), dest))
    <2>1. IsMemory(memory, last)
        BY <1>3
    <2>2. unit \in Seq(Int) /\ unit # <<>>
        BY SMT, <1>5
    <2> QED BY <2>1, <2>2, StosIs
<1>8. Beyond(dest, n, unit) = dest + 4 * n
    BY SMT, <1>5 DEF Beyond
<1>9. After(memory, dest, dest + 4 * n, Repeated(unit, 4, dest))
        = [a \in DOMAIN memory |-> IF a \in dest .. dest + 4 * n - 1
              THEN (c \div <<1, 256, 65536, 16777216>>[((a - dest) % 4) + 1]) % 256 ELSE memory[a]]
    <2>1. ASSUME NEW a \in DOMAIN memory
          PROVE  Repeated(unit, 4, dest)[a] = (c \div <<1, 256, 65536, 16777216>>[((a - dest) % 4) + 1]) % 256
        <3>1. a \in Int
            BY <1>3 DEF IsMemory
        <3>2. PICK k \in 0 .. 3 : k = (a - dest) % 4
            BY <3>1
        <3>3. Repeated(unit, 4, dest)[a] = unit[k + 1]
            BY <3>1, <3>2 DEF Repeated
        <3>4. unit[k + 1] = (c \div <<1, 256, 65536, 16777216>>[k + 1]) % 256
            <4>1. CASE k = 0
                <5>1. c \div 1 = c
                    OBVIOUS
                <5> QED BY SMT, <1>5, <4>1, <5>1
            <4>2. CASE k = 1
                BY SMT, <1>5, <4>2
            <4>3. CASE k = 2
                BY SMT, <1>5, <4>3
            <4>4. CASE k = 3
                BY SMT, <1>5, <4>4
            <4> QED BY SMT, <4>1, <4>2, <4>3, <4>4
        <3> QED BY SMT, <3>2, <3>3, <3>4
    <2> QED BY SMT, <2>1 DEF After
<1> QED BY SMT, <1>3, <1>5, <1>6, <1>7, <1>8, <1>9

\* The bytes of the source at the addresses of the destination.
LEMMA ShiftedIs ==
    ASSUME NEW last, NEW memory, IsMemory(memory, last), NEW dest \in Int, NEW src \in Int, NEW hi \in Int
    PROVE  After(memory, dest, hi, Shifted(memory, dest, src))
             = [a \in DOMAIN memory |-> IF a \in dest .. hi - 1 THEN memory[src + (a - dest)] ELSE memory[a]]
<1>1. ASSUME NEW a \in DOMAIN memory
      PROVE  Shifted(memory, dest, src)[a] = memory[src + (a - dest)]
    <2>1. a \in Int
        BY DEF IsMemory
    <2>2. a - dest + src = src + (a - dest)
        BY <2>1
    <2> QED BY <2>1, <2>2 DEF Shifted
<1> QED BY <1>1 DEF After

\* What is read lies in memory.
LEMMA SourceInMemory ==
    ASSUME NEW task, NEW memory, NEW last \in Nat, NEW dest, NEW src \in Nat, NEW n \in Nat, NEW c,
           OfMemory(task, memory, last, dest, src, n, c), ReadsMemory(task, src)
    PROVE  src + n <= last + 1 /\ InMemory(src, n, last)
<1>1. src + n <= last + 1
    BY DEF OfMemory, ReadsMemory
<1> QED BY <1>1 DEF InMemory

\* The same for the copies, the strings and the comparison.
LEMMA CopyTask ==
    ASSUME NEW task, OnMemory(task), ReadsMemory(task, task.src),
           \/ task.fn = "memcpy" /\ (task.dest <= task.src \/ task.src + task.n <= task.dest)
           \/ task.fn = "memmove"
    PROVE  Value(task) = [a \in DOMAIN task.memory |->
              IF a \in task.dest .. task.dest + task.n - 1
                THEN task.memory[task.src + (a - task.dest)] ELSE task.memory[a]]
<1>1. PICK memory, last : \E dest \in Nat, src \in Nat, n \in Nat, c \in Int :
         OfMemory(task, memory, last, dest, src, n, c)
    BY TaskMemory
<1>2. PICK dest \in Nat, src \in Nat, n \in Nat, c \in Int : OfMemory(task, memory, last, dest, src, n, c)
    BY <1>1
<1>3. /\ memory = task.memory /\ dest = task.dest /\ src = task.src /\ n = task.n /\ c = task.c
      /\ IsMemory(memory, last) /\ Max(DOMAIN memory) = last
    BY <1>2 DEF OfMemory
<1>4. last \in Nat /\ InMemory(src, n, last)
    <2>1. last \in Nat
        BY <1>3 DEF IsMemory
    <2>2. ReadsMemory(task, src)
        BY <1>3
    <2> QED BY <1>2, <2>1, <2>2, SourceInMemory
<1>m. IsMemory(memory, last)
    BY <1>3
<1>5. Value(task) = After(memory, dest, dest + n, Shifted(memory, dest, src))
    <2>1. CASE task.fn = "memcpy" /\ (dest <= src \/ src + n <= dest)
        <3>1. Value(task) = Memcpy(memory, dest, src, n)
            BY <1>3, <2>1 DEF Value
        <3>2. InMemory(src, n, last) /\ (dest <= src \/ src + n <= dest)
            BY <1>4, <2>1
        <3>3. Memcpy(memory, dest, src, n) = After(memory, dest, dest + n, Shifted(memory, dest, src))
            BY <1>m, <3>2, MemcpyIs
        <3> QED BY <3>1, <3>3
    <2>2. CASE task.fn = "memmove" /\ src >= dest
        <3>1. Value(task) = CopyBytes(memory, dest, src, UpTo(n))
            BY <1>3, <2>2 DEF Value, Memmove
        <3>2. InMemory(src, n, last) /\ (dest <= src \/ src + n <= dest)
            BY <1>4, <2>2
        <3>3. CopyBytes(memory, dest, src, UpTo(n)) = After(memory, dest, dest + n, Shifted(memory, dest, src))
            BY <1>m, <3>2, CopyUpIs
        <3> QED BY <3>1, <3>3
    <2>3. CASE task.fn = "memmove" /\ src < dest
        <3>1. Value(task) = CopyBytes(memory, dest, src, Reverse(UpTo(n)))
            BY <1>3, <2>3 DEF Value, Memmove
        <3>2. InMemory(src, n, last) /\ src < dest
            BY <1>4, <2>3
        <3>3. CopyBytes(memory, dest, src, Reverse(UpTo(n)))
                = After(memory, dest, dest + n, Shifted(memory, dest, src))
            BY <1>m, <3>2, CopyDownIs
        <3> QED BY <3>1, <3>3
    <2> QED BY <1>3, <2>1, <2>2, <2>3
<1>6. After(memory, dest, dest + n, Shifted(memory, dest, src))
        = [a \in DOMAIN memory |-> IF a \in dest .. dest + n - 1 THEN memory[src + (a - dest)] ELSE memory[a]]
    BY <1>m, ShiftedIs
<1> QED BY <1>3, <1>5, <1>6, Zenon

\* A string in memory, as long as strlen says.
LEMMA TaskString ==
    ASSUME NEW task, NEW memory, NEW last, NEW dest, NEW src, NEW n, NEW c,
           OfMemory(task, memory, last, dest, src, n, c), NEW s, StringAt(memory, s)
    PROVE  /\ EndsAt(memory, s, Strlen(memory, s))
           /\ Strlen(memory, s) \in Nat
           /\ Len(Str(memory, s)) = Strlen(memory, s)
<1>1. s \in Nat /\ \E k \in 0 .. last - s : memory[s + k] = 0
    BY DEF StringAt, OfMemory
<1>2. IsMemory(memory, last)
    BY DEF OfMemory
<1>3. EndsAt(memory, s, Strlen(memory, s))
    BY <1>1, <1>2, StrlenIs
<1>4. Len(Str(memory, s)) = Strlen(memory, s)
    BY <1>3, StringIs
<1> QED BY <1>3, <1>4 DEF EndsAt

LEMMA StringCopyTask ==
    ASSUME NEW task, OnMemory(task), StringAt(task.memory, task.src),
           task.dest <= task.src \/ task.src + Len(Str(task.memory, task.src)) < task.dest
    PROVE  /\ task.fn = "strcpy" =>
                Value(task) = [a \in DOMAIN task.memory |->
                  IF a \in task.dest .. task.dest + (Len(Str(task.memory, task.src)) + 1) - 1
                    THEN task.memory[task.src + (a - task.dest)] ELSE task.memory[a]]
           /\ task.fn = "strncpy" =>
                Value(task) = [a \in DOMAIN task.memory |->
                  IF a \in task.dest .. task.dest + task.n - 1
                    THEN IF a - task.dest < Len(Str(task.memory, task.src))
                           THEN task.memory[task.src + (a - task.dest)] ELSE 0
                    ELSE task.memory[a]]
<1>1. PICK memory, last : \E dest \in Nat, src \in Nat, n \in Nat, c \in Int :
         OfMemory(task, memory, last, dest, src, n, c)
    BY TaskMemory
<1>2. PICK dest \in Nat, src \in Nat, n \in Nat, c \in Int : OfMemory(task, memory, last, dest, src, n, c)
    BY <1>1
<1>3. /\ memory = task.memory /\ dest = task.dest /\ src = task.src /\ n = task.n /\ c = task.c
      /\ IsMemory(memory, last) /\ Max(DOMAIN memory) = last
    BY <1>2 DEF OfMemory
<1>m. IsMemory(memory, last)
    BY <1>3
<1>4. PICK l \in Nat : l = Strlen(memory, src) /\ l = Len(Str(memory, src)) /\ EndsAt(memory, src, l)
    <2>1. StringAt(memory, src)
        BY <1>3
    <2> QED BY <1>2, <2>1, TaskString
<1>5. dest <= src \/ src + l < dest
    BY <1>3, <1>4
<1>6. EndsAt(memory, src, Strlen(memory, src)) /\ (dest <= src \/ src + Strlen(memory, src) < dest)
    BY <1>4, <1>5
<1>7. Strcpy(memory, dest, src) = After(memory, dest, dest + l + 1, Shifted(memory, dest, src))
    <2>1. Strcpy(memory, dest, src)
            = After(memory, dest, dest + Strlen(memory, src) + 1, Shifted(memory, dest, src))
        BY <1>m, <1>6, StrcpyIs
    <2> QED BY <1>4, <2>1
<1>8. Strncpy(memory, dest, src, n) = After(memory, dest, dest + n, Padded(memory, dest, src, l))
    <2>1. Strncpy(memory, dest, src, n)
            = After(memory, dest, dest + n, Padded(memory, dest, src, Strlen(memory, src)))
        BY <1>m, <1>6, StrncpyIs
    <2> QED BY <1>4, <2>1
<1>9. After(memory, dest, dest + l + 1, Shifted(memory, dest, src))
        = [a \in DOMAIN memory |-> IF a \in dest .. dest + (l + 1) - 1 THEN memory[src + (a - dest)] ELSE memory[a]]
    <2>1. PICK hi \in Int : hi = dest + l + 1 /\ hi = dest + (l + 1)
        OBVIOUS
    <2>2. After(memory, dest, hi, Shifted(memory, dest, src))
            = [a \in DOMAIN memory |-> IF a \in dest .. hi - 1 THEN memory[src + (a - dest)] ELSE memory[a]]
        BY <1>m, ShiftedIs
    <2> QED BY <2>1, <2>2
<1>10. After(memory, dest, dest + n, Padded(memory, dest, src, l))
        = [a \in DOMAIN memory |-> IF a \in dest .. dest + n - 1
              THEN IF a - dest < l THEN memory[src + (a - dest)] ELSE 0 ELSE memory[a]]
    <2>1. ASSUME NEW a \in DOMAIN memory
          PROVE  Padded(memory, dest, src, l)[a] = IF a - dest < l THEN memory[src + (a - dest)] ELSE 0
        <3>1. a \in Int
            BY <1>m DEF IsMemory
        <3>2. a - dest + src = src + (a - dest) /\ (a < dest + l <=> a - dest < l)
            BY <3>1
        <3> QED BY <3>1, <3>2 DEF Padded
    <2> QED BY <2>1 DEF After
<1>11. task.fn = "strcpy" => Value(task) = Strcpy(memory, dest, src)
    BY <1>3 DEF Value
<1>12. task.fn = "strncpy" => Value(task) = Strncpy(memory, dest, src, n)
    BY <1>3 DEF Value
<1>13. ASSUME task.fn = "strcpy"
       PROVE  Value(task) = [a \in DOMAIN memory |-> IF a \in dest .. dest + (l + 1) - 1
                 THEN memory[src + (a - dest)] ELSE memory[a]]
    BY <1>7, <1>9, <1>11, <1>13, Zenon
<1>14. ASSUME task.fn = "strncpy"
       PROVE  Value(task) = [a \in DOMAIN memory |-> IF a \in dest .. dest + n - 1
                 THEN IF a - dest < l THEN memory[src + (a - dest)] ELSE 0 ELSE memory[a]]
    BY <1>8, <1>10, <1>12, <1>14, Zenon
<1>15. l = Len(Str(task.memory, task.src))
    BY <1>3, <1>4
<1>16. memory = task.memory /\ dest = task.dest /\ src = task.src /\ n = task.n
    BY <1>3
<1> QED BY <1>13, <1>14, <1>15, <1>16

LEMMA CompareTask ==
    ASSUME NEW task, task.fn = "strncmp", OnMemory(task),
           \A s \in {task.dest, task.src} : StringAt(task.memory, s) /\ ReadsMemory(task, s)
    PROVE  (Value(task) = 0) = (Cut(Str(task.memory, task.dest), task.n)
                                  = Cut(Str(task.memory, task.src), task.n))
<1>1. PICK memory, last : \E dest \in Nat, src \in Nat, n \in Nat, c \in Int :
         OfMemory(task, memory, last, dest, src, n, c)
    BY TaskMemory
<1>2. PICK dest \in Nat, src \in Nat, n \in Nat, c \in Int : OfMemory(task, memory, last, dest, src, n, c)
    BY <1>1
<1>3. /\ memory = task.memory /\ dest = task.dest /\ src = task.src /\ n = task.n /\ c = task.c
      /\ IsMemory(memory, last) /\ Max(DOMAIN memory) = last
    BY <1>2 DEF OfMemory
<1>m. IsMemory(memory, last)
    BY <1>3
<1>4. last \in Nat
    BY <1>3 DEF IsMemory
<1>5. EndsAt(memory, dest, Strlen(memory, dest)) /\ EndsAt(memory, src, Strlen(memory, src))
    <2>1. StringAt(memory, dest) /\ StringAt(memory, src)
        BY <1>3
    <2> QED BY <1>2, <2>1, TaskString
<1>6. dest + n <= last + 1 /\ src + n <= last + 1
    <2>1. ReadsMemory(task, dest) /\ ReadsMemory(task, src)
        BY <1>3
    <2> QED BY <1>3, <2>1 DEF ReadsMemory
<1>7. (Strncmp(memory, dest, src, n) = 0) = (Cut(Str(memory, dest), n) = Cut(Str(memory, src), n))
    BY <1>m, <1>5, <1>6, StrncmpIs
<1>8. Value(task) = Strncmp(memory, dest, src, n)
    BY <1>3 DEF Value
<1> QED BY <1>3, <1>7, <1>8

-----------------------------------------------------------------------------
\* What is documented holds of every call.

\* A call of lib.c that was tried, and its value once it returned.
LibraryInv ==
    program = "library" /\ pc \in {"call", "returned"} =>
        local \in Tasks /\ (pc = "returned" => out = Value(local))

\* Programs begin without a call.
LEMMA InitLibrary == UserInit => LibraryInv
BY DEF UserInit, LibraryInv

\* Programs do not become a call of lib.c.
LEMMA OtherSteps ==
    ASSUME UserNext
    PROVE  program' # "library" \/ pc' = "main" \/ LibraryCall
<1>1. CASE Shell
    BY <1>1 DEF Shell
<1>2. CASE Ends \/ Faults \/ Wild
    BY <1>2 DEF Ends, Faults, Wild, Halt
<1>3. CASE Cat \/ Ls
    BY <1>3 DEF Cat, Ls, At
<1>4. CASE Grep
    BY <1>4 DEF Grep, GrepMain, GrepOpen, GrepRead, GrepLine, GrepClose, At
<1>5. CASE HelloProgram \/ Testprint \/ Sigtest
    BY <1>5 DEF HelloProgram, Testprint, Sigtest, At
<1>6. CASE Counter
    BY <1>6 DEF Counter, At
<1>7. CASE Pingpong
    BY <1>7 DEF Pingpong, At
<1>8. CASE Fish
    BY <1>8 DEF Fish, FishMain, FishOpen, FishRead, FishRow, At
<1>9. CASE Syserr
    BY <1>9 DEF Syserr, At
<1>10. CASE LibraryCall
    BY <1>10
<1>11. CASE AnyClient
    BY <1>11 DEF AnyClient, user
<1> QED BY <1>1, <1>2, <1>3, <1>4, <1>5, <1>6, <1>7, <1>8, <1>9, <1>10, <1>11 DEF UserNext

\* Every step leaves the call, and its value.
LEMMA NextLibrary == LibraryInv /\ [UserNext]_uvars => LibraryInv'
<1> SUFFICES ASSUME LibraryInv, [UserNext]_uvars PROVE LibraryInv'
    OBVIOUS
<1>1. CASE UNCHANGED uvars
    BY <1>1 DEF LibraryInv, uvars, user
<1>2. CASE LibraryCall
    BY <1>2 DEF LibraryCall, LibraryInv
<1>3. CASE UserNext /\ ~LibraryCall
    BY <1>3, OtherSteps DEF LibraryInv
<1> QED BY <1>1, <1>2, <1>3

\* The value of a call the functions are made for is the documented one.
LEMMA ValueIsDocumented ==
    ASSUME ValidTask(local), out = Value(local)
    PROVE  Documented(local)
<1>0. PICK task : task = local
    OBVIOUS
<1>1. CASE task.fn = "memset" /\ OnMemory(task)
    <2>1. out = [a \in DOMAIN task.memory |->
              IF a \in task.dest .. task.dest + task.n - 1 THEN task.c % 256 ELSE task.memory[a]]
        BY <1>0, <1>1, MemsetTask
    <2> QED BY <1>0, <1>1, <2>1 DEF Documented, Becomes
<1>2. CASE task.fn = "memset_word" /\ OnMemory(task)
    <2>1. out = [a \in DOMAIN task.memory |->
              IF a \in task.dest .. task.dest + 2 * task.n - 1
                THEN (task.c \div <<1, 256>>[((a - task.dest) % 2) + 1]) % 256 ELSE task.memory[a]]
        BY <1>0, <1>2, MemsetWordTask
    <2> QED BY <1>0, <1>2, <2>1 DEF Documented, Becomes
<1>3. CASE task.fn = "memset_dword" /\ OnMemory(task)
    <2>1. out = [a \in DOMAIN task.memory |->
              IF a \in task.dest .. task.dest + 4 * task.n - 1
                THEN (task.c \div <<1, 256, 65536, 16777216>>[((a - task.dest) % 4) + 1]) % 256
                ELSE task.memory[a]]
        BY SMT, <1>0, <1>3, MemsetDwordTask
    <2>2. BecomesDwords(task)
        BY SMT, <1>0, <2>1 DEF BecomesDwords, Becomes
    <2> QED BY <1>0, <1>3, <2>2 DEF Documented
<1>4. CASE /\ task.fn \in {"memcpy", "memmove"} /\ OnMemory(task) /\ ReadsMemory(task, task.src)
           /\ task.fn = "memcpy" => task.dest <= task.src \/ task.src + task.n <= task.dest
    <2>1. out = [a \in DOMAIN task.memory |->
              IF a \in task.dest .. task.dest + task.n - 1
                THEN task.memory[task.src + (a - task.dest)] ELSE task.memory[a]]
        BY <1>0, <1>4, CopyTask
    <2>2. CASE task.fn = "memcpy"
        BY <1>0, <2>1, <2>2 DEF Documented, Becomes
    <2>3. CASE task.fn = "memmove"
        BY <1>0, <2>1, <2>3 DEF Documented, Becomes
    <2> QED BY <1>4, <2>2, <2>3
<1>5. CASE /\ task.fn \in {"strcpy", "strncpy"} /\ OnMemory(task) /\ StringAt(task.memory, task.src)
           /\ task.dest <= task.src \/ task.src + Len(Str(task.memory, task.src)) < task.dest
    <2>1. CASE task.fn = "strcpy"
        <3>1. out = [a \in DOMAIN task.memory |->
                  IF a \in task.dest .. task.dest + (Len(Str(task.memory, task.src)) + 1) - 1
                    THEN task.memory[task.src + (a - task.dest)] ELSE task.memory[a]]
            BY <1>0, <1>5, <2>1, StringCopyTask
        <3> QED BY <1>0, <2>1, <3>1 DEF Documented, Becomes
    <2>2. CASE task.fn = "strncpy"
        <3>1. out = [a \in DOMAIN task.memory |->
                  IF a \in task.dest .. task.dest + task.n - 1
                    THEN IF a - task.dest < Len(Str(task.memory, task.src))
                           THEN task.memory[task.src + (a - task.dest)] ELSE 0
                    ELSE task.memory[a]]
            BY <1>0, <1>5, <2>2, StringCopyTask
        <3> QED BY <1>0, <2>2, <3>1 DEF Documented, Becomes
    <2> QED BY <1>5, <2>1, <2>2
<1>6. CASE /\ task.fn = "strncmp" /\ OnMemory(task)
           /\ \A s \in {task.dest, task.src} : StringAt(task.memory, s) /\ ReadsMemory(task, s)
    <2>1. (out = 0) = (Cut(Str(task.memory, task.dest), task.n) = Cut(Str(task.memory, task.src), task.n))
        BY <1>0, <1>6, CompareTask
    <2>2. Compares(task)
        BY <2>1 DEF Compares
    <2> QED BY <1>0, <1>6, <2>2 DEF Documented
<1>7. CASE task.fn = "printf" /\ OneConversion(task)
    <2>1. out = Printf(task.format, task.values, task.modulus)
        BY <1>0, <1>7 DEF Value
    <2>2. PrintsConversion(task, Between(out))
        BY <1>7, <2>1, ConversionPrinted
    <2>3. PrintsConversion(task, SubSeq(out, 2, Len(out) - 1))
        BY <2>2 DEF Between
    <2> QED BY <1>0, <1>7, <2>3 DEF Documented
<1>8. ValidTask(task)
    BY <1>0
<1> QED BY <1>1, <1>2, <1>3, <1>4, <1>5, <1>6, <1>7, <1>8 DEF ValidTask

\* The functions of lib.c do what their comments say, for memory of any size,
\* strings and lengths of any length, at any alignment, and printf prints a
\* numeral of every number that 32 bits can hold.
THEOREM LibraryIsAsDocumented == UserSpec => []LibraryAsDocumented
<1>1. LibraryInv => LibraryAsDocumented
    <2> SUFFICES ASSUME LibraryInv, program = "library", pc = "returned" PROVE LibraryAsDocumented
        BY DEF LibraryAsDocumented
    <2>1. ValidTask(local)
        BY TasksAssumption DEF LibraryInv
    <2>2. out = Value(local)
        BY DEF LibraryInv
    <2>3. Documented(local)
        BY <2>1, <2>2, ValueIsDocumented
    <2> QED BY <2>3 DEF LibraryAsDocumented
<1> QED BY <1>1, InitLibrary, NextLibrary, PTL DEF UserSpec
=============================================================================
