----------------------------- MODULE FileSystem -----------------------------
(***************************************************************************)
(* The read-only file system (file_system.c) as one program sees it        *)
(* through its descriptors (open, read and close of system_call.c): open   *)
(* by name, read a file piece by piece, list the directory.  The image     *)
(* never changes; a position belongs to a descriptor.                      *)
(*                                                                         *)
(* A byte of the image is the place it is stored at, <<block, offset>>, so *)
(* that no two bytes are equal and a read that copies from the wrong place *)
(* cannot pass for a right one.                                            *)
(***************************************************************************)
EXTENDS Integers, Sequences

CONSTANTS
    BlockSize,   \* 4096
    NameLen,     \* bytes of a file name, 32
    LastFd,      \* the last descriptor, 7; open hands out 2 and up
    HighBit,     \* 2^31: an int32 is below it, a uint32 below its double
    Images,      \* the file systems considered: sequences of directory entries
    Requests,    \* the nbytes programs ask for, int32
    Queries      \* the names programs open

Fds == 2 .. LastFd
CStrings == Seq(Nat \ {0})

ASSUME FileSystemAssumption ==
    /\ BlockSize \in Nat \ {0}
    /\ NameLen \in Nat \ {0}
    /\ LastFd \in Nat
    /\ HighBit \in Nat
    /\ Requests \subseteq -HighBit .. HighBit - 1
    /\ Queries \subseteq CStrings
    /\ \A image \in Images :
         /\ Len(image) \in Nat
         /\ \A f \in 1 .. Len(image) :
              /\ image[f].length_in_bytes \in 0 .. HighBit - 1
              /\ image[f].name \in CStrings /\ Len(image[f].name) \in 1 .. NameLen

VARIABLES
    dir_entries,    \* [name, file_type, length_in_bytes, data_block_num] of each entry
    inode,          \* by descriptor: the entry that is open, 0: the descriptor is free
    file_position,  \* by descriptor
    result,         \* what the last call returned
    got             \* history: by descriptor, what was read since the open, bytes
                    \* or names, less what a negative size took back

vars == <<dir_entries, inode, file_position, result, got>>

-----------------------------------------------------------------------------
(* read_data *)

\* Mutant: the offset within the first block is used for every block.
CopyAtSameOffset(entry, offset, copied, i) ==
    LET remaining == offset % BlockSize
        n == IF copied.left + remaining > BlockSize THEN BlockSize - remaining ELSE copied.left IN
    [left |-> copied.left - n,
     buf |-> copied.buf \o [k \in 1 .. n |-> <<entry.data_block_num[i], remaining + k - 1>>]]

\* One iteration of the loop over blocks.
CopyBlock(entry, offset, copied, i) ==
    LET remaining == IF i = offset \div BlockSize THEN offset % BlockSize ELSE 0
        n == IF copied.left + remaining > BlockSize THEN BlockSize - remaining ELSE copied.left IN
    [left |-> copied.left - n,
     buf |-> copied.buf \o [k \in 1 .. n |-> <<entry.data_block_num[i], remaining + k - 1>>]]

\* Mutant: a read ends at the end of a block.
LengthToBlockEnd(entry, offset, length) ==
    LET rest == BlockSize - (offset % BlockSize)
        most == IF offset >= entry.length_in_bytes THEN 0 ELSE entry.length_in_bytes - offset IN
    IF length > most THEN (IF most > rest THEN rest ELSE most)
                     ELSE (IF length > rest THEN rest ELSE length)

\* Mutant: the range is cut one byte behind the end of the file.
LengthOneMore(entry, offset, length) ==
    LET most == entry.length_in_bytes - offset + 1 IN
    IF offset >= entry.length_in_bytes THEN 0 ELSE IF length > most THEN most ELSE length

\* The bytes to copy, which is also the value returned.
LengthCopied(entry, offset, length) ==
    IF offset >= entry.length_in_bytes THEN 0
    ELSE IF offset + length > entry.length_in_bytes THEN entry.length_in_bytes - offset
    ELSE length

\* What the first iterations have copied, from the block that offset lies in.
Copied(entry, offset, n) ==
    LET copied[iterations \in Nat] ==
          IF iterations = 0 THEN [left |-> n, buf |-> <<>>]
          ELSE CopyBlock(entry, offset, copied[iterations - 1], offset \div BlockSize + iterations - 1)
    IN copied

\* The last block is the one the end of the range lies in: when that is the
\* first byte of a block, an iteration that copies nothing.
ReadData(entry, offset, length) ==
    LET n == LengthCopied(entry, offset, length) IN
    IF n = 0 THEN <<>>
    ELSE Copied(entry, offset, n)[(offset + n) \div BlockSize - offset \div BlockSize + 1].buf

-----------------------------------------------------------------------------
(* read_dentry_by_name *)

CharAt(s, i) == IF i <= Len(s) THEN s[i] ELSE 0

\* Mutant: compares only as far as the shorter of the two names.
MatchesPrefix(name, file_name) ==
    \A i \in 1 .. IF Len(name) < Len(file_name) THEN Len(name) ELSE Len(file_name) :
        CharAt(name, i) = CharAt(file_name, i)

\* strncmp over the longer of the two, at most NameLen: a name that fills its
\* entry has no terminator.
Matches(name, file_name) ==
    LET longer == IF Len(name) >= Len(file_name) THEN Len(name) ELSE Len(file_name) IN
    \A i \in 1 .. IF longer > NameLen THEN NameLen ELSE longer :
        CharAt(name, i) = CharAt(file_name, i)

\* The first entry that matches.
Found(name, f) ==
    /\ Matches(name, dir_entries[f].name)
    /\ \A g \in 1 .. f - 1 : ~Matches(name, dir_entries[g].name)

-----------------------------------------------------------------------------
Directory(fd) == inode[fd] # 0 /\ dir_entries[inode[fd]].file_type = "directory"
Regular(fd) == inode[fd] # 0 /\ dir_entries[inode[fd]].file_type = "file"

Init ==
    /\ dir_entries \in Images
    /\ inode = [fd \in Fds |-> 0]
    /\ file_position = [fd \in Fds |-> 0]
    /\ result = 0
    /\ got = [fd \in Fds |-> <<>>]

LowestFree(fd) == inode[fd] = 0 /\ \A lower \in 2 .. fd - 1 : inode[lower] # 0

Opens(name, f, fd) ==
    /\ Len(name) \in 1 .. NameLen
    /\ Found(name, f)
    /\ LowestFree(fd)

\* Long and empty names are refused before any entry is compared, and a full
\* table after.
Open(name) ==
    /\ \/ \E f \in 1 .. Len(dir_entries), fd \in Fds :
            /\ Opens(name, f, fd)
            /\ inode' = [inode EXCEPT ![fd] = f]
            /\ file_position' = [file_position EXCEPT ![fd] = 0]
            /\ got' = [got EXCEPT ![fd] = <<>>]
            /\ result' = fd
       \/ /\ ~ \E f \in 1 .. Len(dir_entries), fd \in Fds : Opens(name, f, fd)
          /\ result' = -1
          /\ UNCHANGED <<inode, file_position, got>>
    /\ UNCHANGED dir_entries

Close(fd) ==
    /\ IF inode[fd] = 0
         THEN result' = -1 /\ UNCHANGED <<inode, file_position, got>>
         ELSE /\ inode' = [inode EXCEPT ![fd] = 0]
              /\ file_position' = [file_position EXCEPT ![fd] = 0]
              /\ got' = [got EXCEPT ![fd] = <<>>]
              /\ result' = 0
    /\ UNCHANGED dir_entries

\* file_read and read pass their int32 to read_data, which takes a uint32.
Unsigned(nbytes) == IF nbytes < 0 THEN 2 * HighBit + nbytes ELSE nbytes

\* offset + length is beyond 32 bits: a negative size, not below -offset.
Wraps(fd, nbytes) ==
    /\ Regular(fd)
    /\ file_position[fd] < dir_entries[inode[fd]].length_in_bytes
    /\ file_position[fd] + Unsigned(nbytes) >= 2 * HighBit

Delivers(fd, length) ==
    /\ Regular(fd)
    /\ LET entry == dir_entries[inode[fd]]
           offset == file_position[fd] IN
       /\ result' = LengthCopied(entry, offset, length)
       /\ got' = [got EXCEPT ![fd] = @ \o ReadData(entry, offset, length)]
       /\ file_position' = [file_position EXCEPT ![fd] = @ + result']
    /\ UNCHANGED <<dir_entries, inode>>

\* file_read; a size below -offset reads the rest of the file.
FileRead(fd, nbytes) == ~Wraps(fd, nbytes) /\ Delivers(fd, Unsigned(nbytes))

\* The block of the wrapped end, where the loop over blocks is to stop.
BlockOfEnd(fd, nbytes) == (file_position[fd] + nbytes) \div BlockSize

\* That block comes before the first: the loop copies nothing, and the length
\* is returned, and added to the position, as the negative number it was.
ReadBack(fd, nbytes) ==
    /\ Wraps(fd, nbytes)
    /\ BlockOfEnd(fd, nbytes) < file_position[fd] \div BlockSize
    /\ result' = nbytes
    /\ got' = [got EXCEPT ![fd] = SubSeq(@, 1, file_position[fd] + nbytes)]
    /\ file_position' = [file_position EXCEPT ![fd] = @ + nbytes]
    /\ UNCHANGED <<dir_entries, inode>>

\* The descriptors of the next program.
ClearTable ==
    /\ inode' = [fd \in Fds |-> 0]
    /\ file_position' = [fd \in Fds |-> 0]
    /\ got' = [fd \in Fds |-> <<>>]
    /\ UNCHANGED dir_entries

\* It is the first: memcpy of almost 4GB faults, and the program ends.
ReadFaults(fd, nbytes) ==
    /\ Wraps(fd, nbytes)
    /\ BlockOfEnd(fd, nbytes) = file_position[fd] \div BlockSize
    /\ ClearTable
    /\ result' = 256

Listed(fd) ==
    LET entry == dir_entries[file_position[fd] + 1] IN
    /\ file_position[fd] < Len(dir_entries)
    /\ got' = [got EXCEPT ![fd] = Append(@, entry.name)]
    /\ file_position' = [file_position EXCEPT ![fd] = @ + 1]
    /\ result' = Len(entry.name)

\* Mutant: the position stays at the end of the directory.
DirReadOnce(fd) ==
    /\ Directory(fd)
    /\ \/ Listed(fd)
       \/ /\ file_position[fd] = Len(dir_entries)
          /\ result' = 0
          /\ UNCHANGED <<got, file_position>>
    /\ UNCHANGED <<dir_entries, inode>>

\* dir_read, with read_dentry_by_index: entries without a name end the list,
\* and the position starts over.
DirRead(fd) ==
    /\ Directory(fd)
    /\ \/ Listed(fd)
       \/ /\ file_position[fd] >= Len(dir_entries)
          /\ got' = [got EXCEPT ![fd] = <<>>]
          /\ file_position' = [file_position EXCEPT ![fd] = 0]
          /\ result' = 0
    /\ UNCHANGED <<dir_entries, inode>>

\* read of a descriptor that is not open, or of an open one into no buffer.
ReadRefused ==
    /\ result' = -1
    /\ UNCHANGED <<dir_entries, inode, file_position, got>>

Next == \/ \E name \in Queries : Open(name)
        \/ \E fd \in Fds :
              \/ Close(fd)
              \/ \E nbytes \in Requests :
                    FileRead(fd, nbytes) \/ ReadBack(fd, nbytes) \/ ReadFaults(fd, nbytes)
              \/ DirRead(fd)
        \/ ReadRefused

Spec == Init /\ [][Next]_vars

-----------------------------------------------------------------------------
(* Properties *)

\* The bytes of a file in order, whatever blocks they lie in.
Content(entry) ==
    [k \in 1 .. entry.length_in_bytes |->
        <<entry.data_block_num[(k - 1) \div BlockSize], (k - 1) % BlockSize>>]

Names == [f \in 1 .. Len(dir_entries) |-> dir_entries[f].name]

EndPosition(fd) ==
    IF inode[fd] = 0 THEN 0
    ELSE IF Directory(fd) THEN Len(dir_entries)
    ELSE dir_entries[inode[fd]].length_in_bytes

\* Type invariant.  A position (file_position of fd_array) stays inside its
\* file or directory, so that read_data never subtracts below 0.
PositionInFile ==
    /\ dir_entries \in Images
    /\ inode \in [Fds -> 0 .. Len(dir_entries)]
    /\ file_position \in [Fds -> Nat]
    /\ \A fd \in Fds : file_position[fd] <= EndPosition(fd)

\* Whatever int32 sizes are read through whatever descriptors (file_read), what
\* a program has read up to a position is the file from its start, no byte of
\* it missing, twice or from elsewhere; only a negative size, which the code
\* takes for a huge one, leads back, and what it took back is then read again.
\* The names of a directory come in order too (dir_read).
ReadsInOrder ==
    \A fd \in Fds :
        got[fd] = IF Regular(fd)
                    THEN SubSeq(Content(dir_entries[inode[fd]]), 1, file_position[fd])
                    ELSE SubSeq(Names, 1, file_position[fd])

\* A read that delivers less than was asked for has reached the end of the
\* file (file_read): what cat and grep rely on to stop.
ShortOnlyAtEnd ==
    [][\A fd \in Fds, nbytes \in Requests :
         FileRead(fd, nbytes) => result' = nbytes \/ file_position'[fd] = EndPosition(fd)]_vars

\* A directory read returns 0 only after all names were listed, and the next
\* listing starts from the first name again (dir_read): what ls relies on.
ListingComplete ==
    [][\A fd \in Fds :
         DirRead(fd) /\ result' = 0 => got[fd] = Names /\ file_position'[fd] = 0]_vars

\* open finds a file by its whole name and by nothing else
\* (read_dentry_by_name), as long as a descriptor is free.
OpensWhatIsNamed ==
    [][\A name \in Queries : Open(name) =>
         IF (\E f \in 1 .. Len(dir_entries) : Names[f] = name) /\ (\E fd \in Fds : inode[fd] = 0)
           THEN result' \in Fds /\ inode[result'] = 0 /\ Names[inode'[result']] = name
           ELSE result' = -1]_vars
=============================================================================
