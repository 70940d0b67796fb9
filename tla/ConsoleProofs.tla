---------------------------- MODULE ConsoleProofs ----------------------------
(***************************************************************************)
(* The screen under any keys, writes and switches, for a screen of any     *)
(* size.  When no putc runs the position is on the screen, but for a       *)
(* column and a row for each putc that Ctrl+C or Alt+F has cut short       *)
(* (BackOnScreen).  With as many spare cells behind the rows as keys can   *)
(* fall into a putc, no saved screen changes but by a switch               *)
(* (SavedScreensKept).  A line typed in one go stands before the cursor    *)
(* (TypedBeforeCursor).  And as long as no key falls into a putc, the      *)
(* screen implements the single steps of TextScreens.                      *)
(***************************************************************************)
EXTENDS Console, TLAPS

IsWrite(v) ==
    v = [out |-> v.out, pc |-> v.pc, fn |-> v.fn, r |-> v.r, ax |-> v.ax, ay |-> v.ay, k |-> v.k]

\* The registers of a write after c cuts.
Registers(v, c) ==
    /\ IsWrite(v)
    /\ v.r \in Nat /\ v.ax \in Nat /\ v.ay \in Nat
    /\ v.ax < NumCols + c /\ v.ay < NumRows + c
    /\ v.pc = "store_x" => v.r <= NumCols + c
    /\ v.pc = "store_y" => v.r <= NumRows + c
    /\ v.pc = "store_mod_x" => v.r < NumCols
    /\ v.pc = "store_mod_y" => v.r < NumRows

\* Where putc may have gone a column, or a row, too far.
PastColumn == {"wrap", "load_y", "store_y", "zero_x"}
PastRow == {"zero_x", "full", "scroll", "compare", "set_x", "set_y"}

Position(v, x, y, c) ==
    /\ x \in Nat /\ y \in Nat
    /\ x <= NumCols + c /\ y <= NumRows + c
    /\ v.pc \notin PastColumn => x < NumCols + c
    /\ v.pc \notin PastRow => y < NumRows + c

Stored ==
    \A t \in Terminals :
        LET to == screen_coord_storage[t] IN
        /\ to.x \in Nat /\ to.y \in Nat
        /\ to.x < NumCols + cuts /\ to.y < NumRows + cuts

IInv ==
    /\ cuts \in Nat
    /\ screen_coord_storage = [t \in Terminals |-> screen_coord_storage[t]]
    /\ suspended = [t \in Terminals |-> suspended[t]]
    /\ terminal_active_id \in Terminals
    /\ Registers(w, cuts)
    /\ \A t \in Terminals : Registers(suspended[t], cuts)
    /\ Position(w, screen_x, screen_y, cuts)
    /\ Stored

-----------------------------------------------------------------------------
(* The operators on screens *)

LEMMA ModBounded ==
    ASSUME NEW a \in Nat, NEW b \in Nat \ {0}
    PROVE  a % b \in Nat /\ a % b < b
OBVIOUS

LEMMA Sizes == NumRows \in Nat \ {0, 1} /\ NumCols \in Nat \ {0}
BY ConsoleAssumption

IsScreen(s) == s \in [mem : {s.mem}, x : Nat, y : Nat, crt : {s.crt}]

\* Screen s lies nowhere it was not on the way from s0: a coordinate is on the
\* screen or no farther off than it was.
Nearer(s, s0) ==
    /\ IsScreen(s)
    /\ s.x < NumCols \/ s.x <= s0.x
    /\ s.y < NumRows \/ s.y <= s0.y

LEMMA LocatedAt ==
    ASSUME NEW s, IsScreen(s), NEW x \in Nat, NEW y \in Nat
    PROVE  /\ IsScreen(Located(s, x, y))
           /\ Located(s, x, y).x = x /\ Located(s, x, y).y = y
<1>1. PICK cursor : cursor = Cursor(Cell(x, y))
  OBVIOUS
<1>2. PICK z : z = Located(s, x, y)
  OBVIOUS
<1>3. z = [s EXCEPT !.x = x, !.y = y, !.crt = cursor]
  BY <1>1, <1>2 DEF Located
<1>4. IsScreen(z) /\ z.x = x /\ z.y = y
  BY <1>3 DEF IsScreen
<1> QED
  BY <1>2, <1>4

LEMMA ScrolledAt ==
    ASSUME NEW s, IsScreen(s)
    PROVE  IsScreen(Scrolled(s)) /\ Scrolled(s).x = 0 /\ Scrolled(s).y = NumRows - 1
<1> DEFINE moved == [i \in DOMAIN s.mem |->
                       IF i < (NumRows - 1) * NumCols THEN s.mem[i + NumCols] ELSE s.mem[i]]
<1>1. PICK mem : mem = Cleared(moved, LastRow)
  OBVIOUS
<1>2. PICK z : z = [s EXCEPT !.mem = mem]
  OBVIOUS
<1>3. Scrolled(s) = Located(z, 0, NumRows - 1)
  BY <1>1, <1>2, Zenon DEF Scrolled
<1>4. IsScreen(z)
  BY <1>2 DEF IsScreen
<1> QED
  BY <1>3, <1>4, LocatedAt, Sizes

LEMMA NewLineOnScreen ==
    ASSUME NEW s, IsScreen(s)
    PROVE  IsScreen(NewLine(s)) /\ NewLine(s).x = 0 /\ NewLine(s).y < NumRows
<1>1. PICK below : below = [s EXCEPT !.x = 0, !.y = @ + 1]
  OBVIOUS
<1>2. IsScreen(below) /\ below.x = 0 /\ below.y \in Nat
  <2>1. PICK y \in Nat : y = s.y + 1
    BY DEF IsScreen
  <2>2. below = [s EXCEPT !.x = 0, !.y = y]
    BY <1>1, <2>1
  <2> QED
    BY <2>2 DEF IsScreen
<1>3. PICK there : there = IF below.y >= NumRows THEN Scrolled(below) ELSE below
  OBVIOUS
<1>4. IsScreen(there) /\ there.x = 0 /\ there.y \in Nat /\ there.y < NumRows
  BY <1>2, <1>3, ScrolledAt, Sizes
<1>5. NewLine(s) = Located(there, there.x, there.y)
  BY <1>1, <1>3, Zenon DEF NewLine
<1> QED
  BY <1>4, <1>5, LocatedAt

LEMMA WrappedOnScreen ==
    ASSUME NEW s, IsScreen(s)
    PROVE  IsScreen(Wrapped(s)) /\ Wrapped(s).x < NumCols /\ Wrapped(s).y < NumRows
<1>1. PICK next : next = IF s.x >= NumCols THEN NewLine(s) ELSE s
  OBVIOUS
<1>2. IsScreen(next)
  BY <1>1, NewLineOnScreen
<1>3. Wrapped(s) = Located(next, next.x % NumCols, next.y % NumRows)
  BY <1>1, Zenon DEF Wrapped
<1>4. PICK x \in Nat, y \in Nat :
        /\ x = next.x % NumCols /\ x < NumCols
        /\ y = next.y % NumRows /\ y < NumRows
  BY <1>2, ModBounded, Sizes DEF IsScreen
<1>5. Wrapped(s) = Located(next, x, y)
  BY <1>3, <1>4, Zenon
<1>6. /\ IsScreen(Located(next, x, y))
      /\ Located(next, x, y).x = x /\ Located(next, x, y).y = y
  BY <1>2, LocatedAt
<1>7. x < NumCols /\ y < NumRows
  BY <1>4
<1> QED
  BY <1>5, <1>6, <1>7

LEMMA PutcNearer ==
    ASSUME NEW s, IsScreen(s), NEW c
    PROVE  Nearer(Putc(s, c), s)
<1>1. CASE c = "nul"
  <2>1. Putc(s, c) = s
    BY <1>1 DEF Putc
  <2>2. Nearer(s, s)
    BY DEF Nearer, IsScreen
  <2> QED
    BY <2>1, <2>2
<1>2. CASE c = "nl"
  <2>1. Putc(s, c) = NewLine(s)
    BY <1>2 DEF Putc
  <2> QED
    BY <2>1, NewLineOnScreen, Sizes DEF Nearer
<1>3. CASE c # "nul" /\ c # "nl"
  <2>1. PICK put : put = [s EXCEPT !.mem[Cell(s.x, s.y)] = c, !.x = @ + 1]
    OBVIOUS
  <2>2. PICK mem : mem = [s.mem EXCEPT ![Cell(s.x, s.y)] = c]
    OBVIOUS
  <2>3. PICK x \in Nat : x = s.x + 1
    BY DEF IsScreen
  <2>4. put = [s EXCEPT !.mem = mem, !.x = x]
    BY <2>1, <2>2, <2>3
  <2>5. IsScreen(put)
    BY <2>4 DEF IsScreen
  <2>6. Putc(s, c) = Wrapped(put)
    BY <1>3, <2>1 DEF Putc
  <2> QED
    BY <2>5, <2>6, WrappedOnScreen DEF Nearer
<1> QED
  BY <1>1, <1>2, <1>3

LEMMA DeleteCNearer ==
    ASSUME NEW s, IsScreen(s)
    PROVE  Nearer(DeleteC(s), s)
<1> DEFINE here == [s EXCEPT !.mem[Cell(s.x, s.y)] = "nul"]
           x == IF s.x # 0 THEN s.x - 1 ELSE IF s.y # 0 THEN NumCols - 1 ELSE 0
           y == IF s.x = 0 /\ s.y # 0 THEN s.y - 1 ELSE s.y
           gone == [here EXCEPT !.mem[Cell(x, y)] = "blank"]
<1>1. IsScreen(here)
  BY DEF IsScreen
<1>2. IsScreen(gone)
  <2> HIDE DEF here, x, y
  <2> QED
    BY <1>1 DEF IsScreen
<1>3. /\ x \in Nat /\ (x < NumCols \/ x <= s.x)
      /\ y \in Nat /\ y <= s.y
  BY Sizes DEF IsScreen
<1>4. DeleteC(s) = Located(gone, x, y)
  BY Zenon DEF DeleteC
<1> HIDE DEF gone, x, y
<1> QED
  BY <1>2, <1>3, <1>4, LocatedAt DEF Nearer

LEMMA NearerTwice ==
    ASSUME NEW a, NEW b, NEW c, IsScreen(c), Nearer(b, c), Nearer(a, b)
    PROVE  Nearer(a, c)
BY Sizes DEF Nearer, IsScreen

LEMMA PutcAgain ==
    ASSUME NEW s, NEW s0, IsScreen(s0), Nearer(s, s0), NEW c
    PROVE  Nearer(Putc(s, c), s0)
BY PutcNearer, NearerTwice DEF Nearer

-----------------------------------------------------------------------------
(* Cuts only widen the bounds *)

LEMMA RegistersWiden ==
    ASSUME NEW v, NEW c \in Nat, NEW d \in Nat, c <= d, Registers(v, c)
    PROVE  Registers(v, d)
BY Sizes DEF Registers

LEMMA IdleRegisters ==
    ASSUME NEW c \in Nat
    PROVE  Registers(Idle, c) /\ Idle.pc = "rest"
BY Sizes DEF Registers, IsWrite, Idle

LEMMA WritingRegisters ==
    ASSUME NEW c \in Nat, NEW text
    PROVE  Registers(Writing(text), c) /\ Writing(text).pc = "rest"
BY Sizes DEF Registers, IsWrite, Idle, Writing

LEMMA DoneRegisters ==
    ASSUME NEW c \in Nat, NEW v
    PROVE  Registers(Done(v), c) /\ Done(v).pc = "rest"
<1>1. Done(v) = Writing(Tail(v.out))
  BY Zenon DEF Done, Writing
<1> QED
  BY <1>1, WritingRegisters

\* A step that moves to pc and sets the register r.
LEMMA MoveRegisters ==
    ASSUME NEW v, NEW c \in Nat, Registers(v, c), NEW pc, NEW r \in Nat,
           pc = "store_x" => r <= NumCols + c,
           pc = "store_y" => r <= NumRows + c,
           pc = "store_mod_x" => r < NumCols,
           pc = "store_mod_y" => r < NumRows,
           NEW u, u = [v EXCEPT !.pc = pc, !.r = r]
    PROVE  Registers(u, c) /\ u.pc = pc
BY DEF Registers, IsWrite

LEMMA NearPosition ==
    ASSUME NEW v, NEW c \in Nat, NEW x \in Nat, NEW y \in Nat, x < NumCols + c, y < NumRows + c
    PROVE  Position(v, x, y, c)
BY Sizes DEF Position

LEMMA RowIsNat ==
    ASSUME NEW a \in Nat, NEW b \in Nat, NEW c \in Nat \ {0}
    PROVE  a + (b \div c) \in Nat
OBVIOUS

\* What a step of putc leaves to show.
LEMMA PutcStepKeeps ==
    ASSUME IInv, UNCHANGED <<terminals, cuts>>,
           Registers(w', cuts), Position(w', screen_x', screen_y', cuts)
    PROVE  IInv'
BY DEF IInv, Stored, terminals, Registers, IsWrite, Position, PastColumn, PastRow

\* What a key that leaves the running putc as it is leaves to show.
LEMMA EchoKeeps ==
    ASSUME IInv, NEW s, Nearer(s, Screen), SetScreen(s), GoesOn,
           UNCHANGED <<screen_coord_storage, terminal_active_id>>
    PROVE  IInv'
<1>1. screen_x' = s.x /\ screen_y' = s.y /\ Screen.x = screen_x /\ Screen.y = screen_y
  BY DEF SetScreen, Screen
<1>2. w' = w /\ cuts' = cuts /\ suspended' = suspended
  BY DEF GoesOn
<1>3. Position(w, s.x, s.y, cuts)
  BY <1>1, Sizes DEF IInv, Position, Nearer, IsScreen
<1> QED
  BY <1>1, <1>2, <1>3 DEF IInv, Stored, Registers, IsWrite, Position

\* A key that also leaves the screen as it is.
LEMMA NothingKeeps ==
    ASSUME IInv, UNCHANGED <<screen_x, screen_y, screen_coord_storage, terminal_active_id, w, cuts, suspended>>
    PROVE  IInv'
BY DEF IInv, Stored, Registers, IsWrite, Position

-----------------------------------------------------------------------------
(* The steps of putc *)

LEMMA AddressSteps ==
    ASSUME IInv, PutcStart \/ PutCell \/ Wrap \/ Full \/ ScrollCell
    PROVE  IInv'
<1>1. UNCHANGED <<terminals, cuts, screen_x, screen_y>>
  BY DEF PutcStart, PutCell, Wrap, Full, ScrollCell, At, counters, screen
<1>2. Registers(w', cuts) /\ Position(w', screen_x, screen_y, cuts)
  <2> USE Sizes DEF IInv, Registers, IsWrite, Position, PastColumn, PastRow
  <2>1. CASE PutcStart
    <3>1. CASE w' = Done(w)
      BY <2>1, <3>1, DoneRegisters DEF PutcStart, At
    <3>2. CASE w' = [w EXCEPT !.pc = IF Head(w.out) = "nl" THEN "load_y" ELSE "cell"]
      BY <2>1, <3>2 DEF PutcStart, At
    <3> QED
      BY <2>1, <3>1, <3>2 DEF PutcStart, Finish
  <2>2. CASE PutCell
    BY <2>2 DEF PutCell, At
  <2>3. CASE Wrap
    BY <2>3 DEF Wrap, At, Go
  <2>4. CASE Full
    <3>1. CASE screen_y >= NumRows
      BY <2>4, <3>1 DEF Full, At, Go
    <3>2. CASE ~(screen_y >= NumRows)
      <4>1. w' = [w EXCEPT !.pc = "arg_y", !.fn = "newline"] /\ w.pc = "full"
        BY <2>4, <3>2 DEF Full, At, Go
      <4>2. Registers(w', cuts) /\ w'.pc = "arg_y"
        BY <4>1
      <4>3. screen_y < NumRows + cuts /\ screen_x < NumCols + cuts
        BY <3>2, <4>1
      <4> QED
        BY <4>2, <4>3, NearPosition
    <3> QED
      BY <3>1, <3>2
  <2>5. CASE ScrollCell
    <3>1. CASE w.k + 1 \in Shown
      BY <2>5, <3>1 DEF ScrollCell, At, Go
    <3>2. CASE w.k + 1 \notin Shown
      <4>1. w' = [w EXCEPT !.pc = "compare", !.fn = "scroll", !.ax = 0, !.ay = NumRows - 1]
        BY <2>5, <3>2 DEF ScrollCell, Go
      <4>2. w.pc = "scroll"
        BY <2>5 DEF ScrollCell, At
      <4>3. PICK row \in Nat : row = NumRows - 1 /\ row < NumRows + cuts /\ 0 < NumCols + cuts
        OBVIOUS
      <4>4. w' = [w EXCEPT !.pc = "compare", !.fn = "scroll", !.ax = 0, !.ay = row]
        BY <4>1, <4>3
      <4>5. Registers(w', cuts) /\ w'.pc = "compare"
        BY <4>3, <4>4
      <4> QED
        BY <4>2, <4>5
    <3> QED
      BY <3>1, <3>2
  <2> QED
    BY <2>1, <2>2, <2>3, <2>4, <2>5
<1>3. screen_x' = screen_x /\ screen_y' = screen_y
  BY <1>1
<1> QED
  BY <1>1, <1>2, <1>3, PutcStepKeeps

LEMMA ColumnSteps ==
    ASSUME IInv, LoadX \/ StoreX \/ ZeroX \/ LoadModX \/ StoreModX
    PROVE  IInv'
<1>1. UNCHANGED <<terminals, cuts>>
  BY DEF LoadX, StoreX, ZeroX, LoadModX, StoreModX, At, counters
<1>2. Registers(w', cuts) /\ Position(w', screen_x', screen_y', cuts)
  <2> USE Sizes DEF IInv, Registers, IsWrite, Position, PastColumn, PastRow
  <2>1. CASE LoadX
    <3>1. w' = [w EXCEPT !.pc = "store_x", !.r = screen_x + 1] /\ w.pc = "load_x" /\ UNCHANGED screen
      BY <2>1 DEF LoadX, At, Go
    <3>2. screen_x + 1 \in Nat /\ screen_x + 1 <= NumCols + cuts
      BY <3>1
    <3>3. Registers(w', cuts) /\ w'.pc = "store_x"
      BY <3>1, <3>2, MoveRegisters
    <3> QED
      BY <3>1, <3>3 DEF screen
  <2>2. CASE StoreX
    BY <2>2 DEF StoreX, At, Go
  <2>3. CASE ZeroX
    BY <2>3 DEF ZeroX, At, Go
  <2>4. CASE LoadModX
    <3>1. screen_x % NumCols \in Nat /\ screen_x % NumCols < NumCols
      BY ModBounded
    <3> QED
      BY <2>4, <3>1 DEF LoadModX, At, Go, screen
  <2>5. CASE StoreModX
    BY <2>5 DEF StoreModX, At, Go
  <2> QED
    BY <2>1, <2>2, <2>3, <2>4, <2>5
<1> QED
  BY <1>1, <1>2, PutcStepKeeps

LEMMA RowSteps ==
    ASSUME IInv, LoadY \/ StoreY \/ LoadModY \/ StoreModY
    PROVE  IInv'
<1>1. UNCHANGED <<terminals, cuts>>
  BY DEF LoadY, StoreY, LoadModY, StoreModY, At, counters
<1>2. Registers(w', cuts) /\ Position(w', screen_x', screen_y', cuts)
  <2> USE Sizes DEF IInv, Registers, IsWrite, Position, PastColumn, PastRow
  <2>1. CASE LoadY
    <3>1. w' = [w EXCEPT !.pc = "store_y", !.r = screen_y + 1] /\ w.pc = "load_y" /\ UNCHANGED screen
      BY <2>1 DEF LoadY, At, Go
    <3>2. screen_y + 1 \in Nat /\ screen_y + 1 <= NumRows + cuts
      BY <3>1
    <3>3. Registers(w', cuts) /\ w'.pc = "store_y"
      BY <3>1, <3>2, MoveRegisters
    <3> QED
      BY <3>1, <3>3 DEF screen
  <2>2. CASE StoreY
    BY <2>2 DEF StoreY, At, Go
  <2>3. CASE LoadModY
    <3> DEFINE row == (screen_y + screen_x \div NumCols) % NumRows
    <3>1. screen_y + screen_x \div NumCols \in Nat
      BY RowIsNat
    <3>2. row \in Nat /\ row < NumRows
      BY <3>1, ModBounded
    <3>3. w' = [w EXCEPT !.pc = "store_mod_y", !.r = row] /\ w.pc = "load_mod_y" /\ UNCHANGED screen
      BY <2>3 DEF LoadModY, At, Go
    <3> HIDE DEF row
    <3> QED
      BY <3>2, <3>3 DEF screen
  <2>4. CASE StoreModY
    <3>1. /\ screen_y' = w.r /\ screen_x' = screen_x /\ w.pc = "store_mod_y"
          /\ w' = [w EXCEPT !.pc = "arg_y", !.fn = "putc"]
      BY <2>4 DEF StoreModY, At, Go
    <3>2. Registers(w', cuts) /\ w'.pc = "arg_y"
      BY <3>1
    <3>3. Position(w', screen_x', screen_y', cuts)
      BY <3>1, NearPosition
    <3> QED
      BY <3>2, <3>3
  <2> QED
    BY <2>1, <2>2, <2>3, <2>4
<1> QED
  BY <1>1, <1>2, PutcStepKeeps

LEMMA LocationSteps ==
    ASSUME IInv, ArgY \/ ArgX \/ Compare \/ SetX \/ SetY
    PROVE  IInv'
<1>1. UNCHANGED <<terminals, cuts>>
  BY DEF ArgY, ArgX, Compare, SetX, SetY, At, counters
<1>2. Registers(w', cuts) /\ Position(w', screen_x', screen_y', cuts)
  <2> USE Sizes DEF IInv, Registers, IsWrite, Position, PastColumn, PastRow
  <2>1. CASE ArgY
    BY <2>1 DEF ArgY, At, Go, screen
  <2>2. CASE ArgX
    BY <2>2 DEF ArgX, At, Go, screen
  <2>3. CASE Compare
    BY <2>3 DEF Compare, At, Go, screen
  <2>4. CASE SetX
    BY <2>4 DEF SetX, At, Go
  <2>5. CASE SetY
    BY <2>5 DEF SetY, At, Go
  <2> QED
    BY <2>1, <2>2, <2>3, <2>4, <2>5
<1> QED
  BY <1>1, <1>2, PutcStepKeeps

CursorStep == CursorPosition \/ Select("select_lo", "lo", 15) \/ CursorLo
              \/ Select("select_hi", "hi", 14) \/ CursorHi

LEMMA CursorSteps ==
    ASSUME IInv, CursorStep
    PROVE  IInv'
<1>1. UNCHANGED <<terminals, cuts, screen_x, screen_y>>
  BY DEF CursorStep, CursorPosition, Select, CursorLo, CursorHi, At, counters, screen
<1>2. Registers(w', cuts) /\ Position(w', screen_x, screen_y, cuts)
  <2> USE Sizes DEF IInv, Registers, IsWrite, Position, PastColumn, PastRow
  <2>1. CASE CursorPosition
    BY <2>1 DEF CursorPosition, At, Go
  <2>2. CASE Select("select_lo", "lo", 15) \/ Select("select_hi", "hi", 14)
    BY <2>2 DEF Select, At, Go
  <2>3. CASE CursorLo
    BY <2>3 DEF CursorLo, At, Go
  <2>4. CASE CursorHi
    <3>1. \/ w' = [w EXCEPT !.pc = "arg_y", !.fn = "newline"]
          \/ w' = [w EXCEPT !.pc = "load_mod_x"]
          \/ w' = Done(w)
      BY <2>4 DEF CursorHi, Go, Finish
    <3>2. w.pc = "hi"
      BY <2>4 DEF CursorHi, At
    <3>3. CASE w' = Done(w)
      BY <3>2, <3>3, DoneRegisters
    <3>4. CASE w' # Done(w)
      BY <3>1, <3>2, <3>4
    <3> QED
      BY <3>3, <3>4
  <2> QED
    BY <2>1, <2>2, <2>3, <2>4 DEF CursorStep
<1>3. screen_x' = screen_x /\ screen_y' = screen_y
  BY <1>1
<1> QED
  BY <1>1, <1>2, <1>3, PutcStepKeeps

-----------------------------------------------------------------------------
(* The keys *)

LEMMA ScreenIs ==
    ASSUME IInv
    PROVE  IsScreen(Screen) /\ Nearer(Screen, Screen)
BY DEF IInv, Position, IsScreen, Nearer, Screen

LEMMA TypeKeyKeeps ==
    ASSUME IInv, NEW code \in KeyCodes, TypeKey(code)
    PROVE  IInv'
<1>1. UNCHANGED <<screen_coord_storage, terminal_active_id>> /\ GoesOn
  BY DEF TypeKey
<1>2. UNCHANGED screen \/ \E c \in {"nul", "key"} : SetScreen(Putc(Screen, c))
  BY DEF TypeKey
<1>3. CASE UNCHANGED screen
  BY <1>1, <1>3, NothingKeeps DEF GoesOn, screen
<1>4. CASE \E c \in {"nul", "key"} : SetScreen(Putc(Screen, c))
  <2>1. PICK c \in {"nul", "key"} : SetScreen(Putc(Screen, c))
    BY <1>4
  <2>2. Nearer(Putc(Screen, c), Screen)
    BY PutcNearer, ScreenIs
  <2> QED
    BY <1>1, <2>1, <2>2, EchoKeeps
<1> QED
  BY <1>2, <1>3, <1>4

LEMMA EnterKeyKeeps ==
    ASSUME IInv, EnterKey
    PROVE  IInv'
<1>1. UNCHANGED <<screen_coord_storage, terminal_active_id>> /\ GoesOn
  BY DEF EnterKey
<1>2. \/ UNCHANGED screen
      \/ SetScreen(Putc(Screen, "nl"))
      \/ SetScreen(Putc(Putc(Screen, "nl"), "nl"))
  BY DEF EnterKey
<1>3. CASE UNCHANGED screen
  BY <1>1, <1>3, NothingKeeps DEF GoesOn, screen
<1>4. Nearer(Putc(Screen, "nl"), Screen) /\ Nearer(Putc(Putc(Screen, "nl"), "nl"), Screen)
  BY PutcNearer, PutcAgain, ScreenIs
<1> QED
  BY <1>1, <1>2, <1>3, <1>4, EchoKeeps

LEMMA BackspaceKeeps ==
    ASSUME IInv, Backspace
    PROVE  IInv'
<1>1. UNCHANGED <<screen_coord_storage, terminal_active_id>> /\ GoesOn
  BY DEF Backspace
<1>2. UNCHANGED screen \/ SetScreen(DeleteC(Screen))
  BY DEF Backspace
<1>3. CASE UNCHANGED screen
  BY <1>1, <1>3, NothingKeeps DEF GoesOn, screen
<1>4. Nearer(DeleteC(Screen), Screen)
  BY DeleteCNearer, ScreenIs
<1> QED
  BY <1>1, <1>2, <1>3, <1>4, EchoKeeps

LEMMA TabKeeps ==
    ASSUME IInv, Tab
    PROVE  IInv'
<1>1. UNCHANGED <<screen_coord_storage, terminal_active_id>> /\ GoesOn
  BY DEF Tab
<1>2. SetScreen(Putc(Putc(Putc(Putc(Screen, "tab"), "tab"), "tab"), "tab"))
  BY DEF Tab
<1>3. Nearer(Putc(Putc(Putc(Putc(Screen, "tab"), "tab"), "tab"), "tab"), Screen)
  BY PutcNearer, PutcAgain, ScreenIs
<1> QED
  BY <1>1, <1>2, <1>3, EchoKeeps

LEMMA CtrlLKeeps ==
    ASSUME IInv, CtrlL
    PROVE  IInv'
<1> DEFINE s == [Screen EXCEPT !.mem = Clear(memory)]
<1>1. UNCHANGED <<screen_coord_storage, terminal_active_id>> /\ GoesOn /\ SetScreen(Located(s, 0, 0))
  BY DEF CtrlL
<1>2. IsScreen(s)
  BY ScreenIs DEF IsScreen
<1> HIDE DEF s
<1>3. Nearer(Located(s, 0, 0), Screen)
  BY <1>2, LocatedAt, Sizes DEF Nearer
<1> QED
  BY <1>1, <1>3, EchoKeeps

\* A putc that is cut short leaves its position a column and a row more.
LEMMA CutWidens ==
    ASSUME IInv, cuts' = IF MidPutc THEN cuts + 1 ELSE cuts
    PROVE  /\ cuts' \in Nat /\ cuts <= cuts'
           /\ screen_x \in Nat /\ screen_x < NumCols + cuts'
           /\ screen_y \in Nat /\ screen_y < NumRows + cuts'
<1>1. CASE MidPutc
  BY <1>1, Sizes DEF IInv, Position
<1>2. CASE ~MidPutc
  BY <1>2, Sizes DEF IInv, Position, MidPutc, PastColumn, PastRow
<1> QED
  BY <1>1, <1>2

LEMMA CtrlCKeeps ==
    ASSUME IInv, CtrlC
    PROVE  IInv'
<1>1. /\ w' = Idle /\ UNCHANGED <<screen_x, screen_y, terminals>>
      /\ cuts' = IF MidPutc THEN cuts + 1 ELSE cuts
  BY DEF CtrlC, screen
<1>2. /\ cuts' \in Nat /\ cuts <= cuts' /\ cuts \in Nat
      /\ screen_x \in Nat /\ screen_x < NumCols + cuts'
      /\ screen_y \in Nat /\ screen_y < NumRows + cuts'
  BY <1>1, CutWidens DEF IInv
<1>3. Registers(Idle, cuts')
  BY <1>2, IdleRegisters
<1>4. \A t \in Terminals : Registers(suspended[t], cuts')
  BY <1>2, RegistersWiden DEF IInv
<1>5. Position(Idle, screen_x, screen_y, cuts')
  BY <1>2, NearPosition
<1>6. Stored'
  BY <1>1, <1>2, Sizes DEF IInv, Stored, terminals
<1> QED
  BY <1>1, <1>2, <1>3, <1>4, <1>5, <1>6 DEF IInv, terminals, Registers, IsWrite, Position

LEMMA AltFKeeps ==
    ASSUME IInv, NEW t \in Terminals, AltF(t)
    PROVE  IInv'
<1>1. CASE t = terminal_active_id
  BY <1>1, NothingKeeps DEF AltF, GoesOn, screen, terminals
<1>2. CASE t # terminal_active_id
  <2> DEFINE to == screen_coord_storage[t]
             s0 == [Screen EXCEPT !.mem = Swapped(terminal_active_id, t)]
             left == [suspended EXCEPT ![terminal_active_id] = w]
  <2>1. /\ screen_coord_storage' = [screen_coord_storage EXCEPT ![terminal_active_id] =
                                      [x |-> screen_x, y |-> screen_y]]
        /\ SetScreen(Located(s0, to.x, to.y))
        /\ terminal_active_id' = t
        /\ cuts' = IF MidPutc THEN cuts + 1 ELSE cuts
        /\ \/ w' = Writing(Welcome) /\ suspended' = left
           \/ w' = Idle /\ suspended' = left
           \/ \E u \in Terminals : w' = left[u] /\ suspended' = [left EXCEPT ![u] = Idle]
    BY <1>2 DEF AltF
  <2>2. /\ cuts' \in Nat /\ cuts <= cuts' /\ cuts \in Nat
        /\ screen_x \in Nat /\ screen_x < NumCols + cuts'
        /\ screen_y \in Nat /\ screen_y < NumRows + cuts'
    BY <2>1, CutWidens DEF IInv
  <2>3. /\ to.x \in Nat /\ to.x < NumCols + cuts'
        /\ to.y \in Nat /\ to.y < NumRows + cuts'
    BY <2>2, Sizes DEF IInv, Stored
  <2>4. screen_x' = to.x /\ screen_y' = to.y
    <3>1. IsScreen(s0)
      BY ScreenIs DEF IsScreen
    <3> HIDE DEF s0, to
    <3>2. PICK z : z = Located(s0, to.x, to.y)
      OBVIOUS
    <3>3. z.x = to.x /\ z.y = to.y
      BY <2>3, <3>1, <3>2, LocatedAt, ZenonT(40)
    <3> QED
      BY <2>1, <3>2, <3>3 DEF SetScreen
  <2>5. /\ left = [v \in Terminals |-> left[v]]
        /\ \A v \in Terminals : Registers(left[v], cuts')
    <3>1. \A v \in Terminals : left[v] = IF v = terminal_active_id THEN w ELSE suspended[v]
      BY DEF IInv
    <3>2. left = [v \in Terminals |-> left[v]]
      BY DEF IInv
    <3> HIDE DEF left
    <3> QED
      BY <2>2, <3>1, <3>2, RegistersWiden DEF IInv
  <2>6. Registers(Idle, cuts') /\ Registers(Writing(Welcome), cuts')
    BY <2>2, IdleRegisters, WritingRegisters
  <2> HIDE DEF left
  <2>7. /\ Registers(w', cuts')
        /\ suspended' = [v \in Terminals |-> suspended'[v]]
        /\ \A v \in Terminals : Registers(suspended'[v], cuts')
    BY <2>1, <2>5, <2>6
  <2>8. Position(w', screen_x', screen_y', cuts')
    BY <2>2, <2>3, <2>4, Sizes DEF Position
  <2>9. Stored' /\ screen_coord_storage' = [v \in Terminals |-> screen_coord_storage'[v]]
    <3>1. screen_coord_storage' = [v \in Terminals |-> screen_coord_storage'[v]]
      BY <2>1 DEF IInv
    <3>2. \A v \in Terminals : screen_coord_storage'[v] =
             IF v = terminal_active_id THEN [x |-> screen_x, y |-> screen_y] ELSE screen_coord_storage[v]
      BY <2>1 DEF IInv
    <3> QED
      BY <2>2, <3>1, <3>2, Sizes DEF IInv, Stored
  <2> QED
    BY <2>1, <2>2, <2>7, <2>8, <2>9 DEF IInv, Registers, IsWrite, Position
<1> QED
  BY <1>1, <1>2

-----------------------------------------------------------------------------
LEMMA Initially == Init => IInv
<1> SUFFICES ASSUME Init PROVE IInv
  OBVIOUS
<1>1. /\ cuts = 0 /\ screen_x = 0 /\ screen_y = 0 /\ w = Idle /\ terminal_active_id = 0
      /\ screen_coord_storage = [t \in Terminals |-> [x |-> 0, y |-> 0]]
      /\ suspended = [t \in Terminals |-> Idle]
  BY DEF Init
<1>2. Registers(Idle, 0) /\ Idle.pc = "rest"
  BY IdleRegisters
<1>3. 0 \in Terminals
  BY ConsoleAssumption DEF Terminals
<1>4. Stored /\ Position(w, screen_x, screen_y, cuts)
  BY <1>1, Sizes DEF Stored, Position
<1> QED
  BY <1>1, <1>2, <1>3, <1>4 DEF IInv

LEMMA Inductive == IInv /\ [Next]_vars => IInv'
<1> SUFFICES ASSUME IInv, [Next]_vars PROVE IInv'
  OBVIOUS
<1>1. ASSUME NEW text \in Texts, Write(text) PROVE IInv'
  <2>1. w' = Writing(text) /\ w = Idle /\ UNCHANGED <<terminals, cuts, screen_x, screen_y>>
    BY <1>1 DEF Write, screen
  <2>2. Registers(Writing(text), cuts) /\ Writing(text).pc = "rest" /\ w.pc = "rest"
    BY <2>1, WritingRegisters, IdleRegisters DEF IInv
  <2>3. Position(w', screen_x', screen_y', cuts)
    BY <2>1, <2>2 DEF IInv, Position, PastColumn, PastRow
  <2> QED
    BY <2>1, <2>2, <2>3, PutcStepKeeps
<1>2. CASE PutcStep
  BY <1>2, AddressSteps, ColumnSteps, RowSteps, LocationSteps, CursorSteps DEF PutcStep, CursorStep
<1>3. ASSUME NEW code \in KeyCodes, TypeKey(code) PROVE IInv'
  BY <1>3, TypeKeyKeeps
<1>4. CASE EnterKey
  BY <1>4, EnterKeyKeeps
<1>5. CASE Backspace
  BY <1>5, BackspaceKeeps
<1>6. CASE Tab
  BY <1>6, TabKeeps
<1>7. CASE CtrlL
  BY <1>7, CtrlLKeeps
<1>8. CASE CtrlC
  BY <1>8, CtrlCKeeps
<1>9. ASSUME NEW t \in Terminals, AltF(t) PROVE IInv'
  BY <1>9, AltFKeeps
<1>10. CASE ReadLine
  BY <1>10, NothingKeeps DEF ReadLine, screen, terminals, counters
<1>11. CASE UNCHANGED vars
  BY <1>11, NothingKeeps DEF vars, screen, terminals, counters
<1> QED
  BY <1>1, <1>2, <1>3, <1>4, <1>5, <1>6, <1>7, <1>8, <1>9, <1>10, <1>11 DEF Next

\* When no putc runs the position is on the screen, but for a column and a row
\* for each putc cut short, on a screen of any size with any keys, writes,
\* switches and interleavings of putc and the keyboard handler.
THEOREM PositionReturns == Spec => []BackOnScreen
<1>1. IInv => BackOnScreen
  BY DEF IInv, Position, BackOnScreen, MidPutc, PastColumn, PastRow
<1> QED
  BY <1>1, Initially, Inductive, PTL DEF Spec

-----------------------------------------------------------------------------
(* Cells and pages: where in the memory a position, a row or a saved screen *)
(* lies.                                                                    *)

Above == (NumRows - 1) * NumCols
Area == NumRows * NumCols
RowStart(y) == NumCols * y
PageStart(t) == (t + 1) * PageCells
MemoryEnd == (NumTerminals + 1) * PageCells

LEMMA Areas ==
    /\ Above \in Nat /\ Area \in Nat /\ PageCells \in Nat
    /\ Area = Above + NumCols /\ Area <= PageCells
    /\ LastRow = Above .. Area - 1 /\ Shown = 0 .. Area - 1
<1>1. (NumRows - 1) * NumCols \in Nat /\ NumRows * NumCols = (NumRows - 1) * NumCols + NumCols
  <2>1. PICK r \in Nat : r = NumRows - 1 /\ NumRows = r + 1
    <3>1. NumRows - 1 \in Nat /\ NumRows = NumRows - 1 + 1
      BY Sizes
    <3> QED
      BY <3>1
  <2>2. r * NumCols \in Nat /\ (r + 1) * NumCols = r * NumCols + NumCols
    BY Sizes
  <2> QED
    BY <2>1, <2>2
<1>2. NumRows * NumCols <= PageCells /\ PageCells \in Nat
  BY ConsoleAssumption
<1> QED
  BY <1>1, <1>2, Sizes DEF Above, Area, LastRow, Shown

LEMMA Rows ==
    ASSUME NEW y \in 0 .. NumRows - 1
    PROVE  /\ RowStart(y) \in 0 .. Above
           /\ y = NumRows - 1 => RowStart(y) = Above
           /\ RowStart(y + 1) = RowStart(y) + NumCols
           /\ y > 0 => RowStart(y) = RowStart(y - 1) + NumCols
<1>1. PICK k \in Nat : k = NumRows - 1 - y
  BY Sizes
<1>2. k * NumCols \in Nat /\ NumCols * y \in Nat
  BY Sizes
<1>3. Above = NumCols * y + k * NumCols
  <2>1. NumRows - 1 = y + k /\ y \in Nat
    BY <1>1, Sizes
  <2>2. (y + k) * NumCols = NumCols * y + k * NumCols
    BY <2>1, Sizes
  <2> QED
    BY <2>1, <2>2 DEF Above
<1>4. NumCols * (y + 1) = NumCols * y + NumCols
  BY Sizes
<1>5. y > 0 => NumCols * y = NumCols * (y - 1) + NumCols
  BY Sizes
<1>6. y = NumRows - 1 => k * NumCols = 0
  BY <1>1, Sizes
<1> QED
  BY <1>2, <1>3, <1>4, <1>5, <1>6 DEF RowStart

LEMMA CellIs ==
    ASSUME NEW x, NEW y
    PROVE  Cell(x, y) = RowStart(y) + x
BY DEF Cell, RowStart

LEMMA Pages ==
    /\ MemoryEnd \in Nat /\ Memory = 0 .. MemoryEnd - 1 /\ PageCells <= MemoryEnd
    /\ \A t \in Terminals :
         /\ PageStart(t) \in Nat /\ PageCells <= PageStart(t)
         /\ PageStart(t) + PageCells <= MemoryEnd
         /\ Saved(t) = PageStart(t) .. PageStart(t) + PageCells - 1
         /\ \A u \in Terminals : u = t \/ PageStart(u) + PageCells <= PageStart(t)
                                       \/ PageStart(t) + PageCells <= PageStart(u)
<1>1. PageCells \in Nat /\ NumTerminals \in Nat \ {0}
  BY ConsoleAssumption
<1>2. \A a, b \in Nat : a < b => (a + 1) * PageCells + PageCells <= (b + 1) * PageCells
  <2>1. ASSUME NEW a \in Nat, NEW b \in Nat, a < b
        PROVE  (a + 1) * PageCells + PageCells <= (b + 1) * PageCells
    <3>1. PICK k \in Nat : b = a + 1 + k
      <4>1. b - a - 1 \in Nat /\ b = a + 1 + (b - a - 1)
        BY <2>1
      <4> QED
        BY <4>1
    <3>2. (b + 1) * PageCells = (a + 1) * PageCells + PageCells + k * PageCells
      BY <1>1, <3>1
    <3>3. k * PageCells \in Nat /\ (a + 1) * PageCells \in Nat
      BY <1>1
    <3> QED
      BY <1>1, <3>2, <3>3
  <2> QED
    BY <2>1
<1>3. \A a \in Nat : (a + 1) * PageCells \in Nat /\ PageCells <= (a + 1) * PageCells
  <2>1. ASSUME NEW a \in Nat
        PROVE  (a + 1) * PageCells \in Nat /\ PageCells <= (a + 1) * PageCells
    <3>1. a * PageCells \in Nat /\ (a + 1) * PageCells = a * PageCells + PageCells
      BY <1>1
    <3> QED
      BY <1>1, <3>1
  <2> QED
    BY <2>1
<1>4. MemoryEnd = PageStart(NumTerminals) /\ Memory = 0 .. MemoryEnd - 1
  BY DEF MemoryEnd, PageStart, Memory
<1>5. \A t \in Terminals : t \in Nat /\ t < NumTerminals
  BY <1>1 DEF Terminals
<1>6. \A t \in Terminals : Saved(t) = PageStart(t) .. PageStart(t) + PageCells - 1
  <2>1. ASSUME NEW t \in Terminals PROVE Saved(t) = PageStart(t) .. PageStart(t) + PageCells - 1
    <3>1. PICK end : end = (t + 2) * PageCells
      OBVIOUS
    <3>2. end = PageStart(t) + PageCells
      BY <1>1, <1>5, <3>1 DEF PageStart
    <3>3. Saved(t) = PageStart(t) .. end - 1
      BY <3>1 DEF Saved, PageStart
    <3>4. PageStart(t) \in Nat
      BY <1>3, <1>5 DEF PageStart
    <3> QED
      BY <1>1, <3>2, <3>3, <3>4
  <2> QED
    BY <2>1
<1>7. \A t, u \in Terminals : t = u \/ t < u \/ u < t
  BY <1>5
<1> QED
  BY <1>1, <1>2, <1>3, <1>4, <1>5, <1>6, <1>7 DEF PageStart

-----------------------------------------------------------------------------
(* What the operators on screens write *)

IsMem(mem) == mem = [i \in Memory |-> mem[i]]

\* Nothing behind the page of the screen is changed.
SameBehind(mem, mem0) == \A i \in Memory : i >= PageCells => mem[i] = mem0[i]

LEMMA LocatedMem ==
    ASSUME NEW s, IsScreen(s), NEW x \in Nat, NEW y \in Nat
    PROVE  Located(s, x, y).mem = s.mem
BY DEF Located, IsScreen

LEMMA ClearedMem ==
    ASSUME NEW mem, IsMem(mem), NEW cells
    PROVE  /\ IsMem(Cleared(mem, cells))
           /\ \A i \in Memory : Cleared(mem, cells)[i] = IF i \in cells THEN "blank" ELSE mem[i]
BY DEF Cleared, IsMem

\* terminal_scroll_up: a row up, and the last row blank.
LEMMA ScrolledMem ==
    ASSUME NEW s, IsScreen(s), IsMem(s.mem)
    PROVE  /\ IsMem(Scrolled(s).mem)
           /\ \A i \in Memory : Scrolled(s).mem[i] =
                IF i \in LastRow THEN "blank" ELSE IF i < Above THEN s.mem[i + NumCols] ELSE s.mem[i]
<1> DEFINE moved == [i \in DOMAIN s.mem |->
                       IF i < (NumRows - 1) * NumCols THEN s.mem[i + NumCols] ELSE s.mem[i]]
<1>1. PICK mem : mem = Cleared(moved, LastRow)
  OBVIOUS
<1>2. PICK z : z = [s EXCEPT !.mem = mem]
  OBVIOUS
<1>3. Scrolled(s) = Located(z, 0, NumRows - 1)
  BY <1>1, <1>2, Zenon DEF Scrolled
<1>4. IsScreen(z) /\ z.mem = mem
  BY <1>2 DEF IsScreen
<1>5. Scrolled(s).mem = mem
  BY <1>3, <1>4, LocatedMem, Sizes
<1>6. /\ IsMem(moved)
      /\ \A i \in Memory : moved[i] = IF i < Above THEN s.mem[i + NumCols] ELSE s.mem[i]
  BY DEF IsMem, Above
<1> HIDE DEF moved
<1> QED
  BY <1>1, <1>5, <1>6, ClearedMem

\* A newline: to the start of the row below, on the last row after a scroll.
LEMMA NewLineMem ==
    ASSUME NEW s, IsScreen(s), IsMem(s.mem)
    PROVE  /\ IsMem(NewLine(s).mem) /\ SameBehind(NewLine(s).mem, s.mem)
           /\ s.y + 1 < NumRows => NewLine(s).mem = s.mem /\ NewLine(s).y = s.y + 1
           /\ s.y + 1 >= NumRows =>
                /\ NewLine(s).y = NumRows - 1
                /\ \A i \in Memory : NewLine(s).mem[i] =
                     IF i \in LastRow THEN "blank"
                     ELSE IF i < Above THEN s.mem[i + NumCols] ELSE s.mem[i]
<1>0. PICK y \in Nat : y = s.y + 1
  BY DEF IsScreen
<1>1. PICK below : below = [s EXCEPT !.x = 0, !.y = @ + 1]
  OBVIOUS
<1>2. IsScreen(below) /\ below.x = 0 /\ below.y = y /\ below.mem = s.mem
  <2>1. below = [s EXCEPT !.x = 0, !.y = y]
    BY <1>0, <1>1
  <2> QED
    BY <2>1 DEF IsScreen
<1>3. PICK there : there = IF below.y >= NumRows THEN Scrolled(below) ELSE below
  OBVIOUS
<1>4. IsScreen(there) /\ there.x = 0 /\ there.y \in Nat
  BY <1>2, <1>3, ScrolledAt, Sizes
<1>5. NewLine(s) = Located(there, there.x, there.y)
  BY <1>1, <1>3, Zenon DEF NewLine
<1>6. NewLine(s).mem = there.mem /\ NewLine(s).y = there.y
  BY <1>4, <1>5, LocatedAt, LocatedMem
<1>7. CASE y < NumRows
  <2>1. there = below
    BY <1>2, <1>3, <1>7, Sizes
  <2> QED
    BY <1>0, <1>2, <1>6, <1>7, <2>1, Sizes DEF SameBehind
<1>8. CASE y >= NumRows
  <2>1. there = Scrolled(below)
    BY <1>2, <1>3, <1>8, Sizes
  <2>2. /\ IsMem(there.mem) /\ there.y = NumRows - 1
        /\ \A i \in Memory : there.mem[i] =
             IF i \in LastRow THEN "blank" ELSE IF i < Above THEN s.mem[i + NumCols] ELSE s.mem[i]
    BY <1>2, <2>1, ScrolledAt, ScrolledMem
  <2>3. SameBehind(there.mem, s.mem)
    BY <2>2, Areas, Sizes, Pages DEF SameBehind
  <2>4. ~(s.y + 1 < NumRows)
    BY <1>0, <1>8, Sizes
  <2> QED
    BY <1>6, <2>2, <2>3, <2>4, Zenon
<1> QED
  BY <1>0, <1>7, <1>8, Sizes

\* After a character.
LEMMA WrappedMem ==
    ASSUME NEW s, IsScreen(s), IsMem(s.mem)
    PROVE  /\ IsMem(Wrapped(s).mem) /\ SameBehind(Wrapped(s).mem, s.mem)
           /\ s.x < NumCols /\ s.y < NumRows =>
                Wrapped(s).x = s.x /\ Wrapped(s).y = s.y /\ Wrapped(s).mem = s.mem
           /\ s.x >= NumCols =>
                /\ Wrapped(s).x = 0 /\ Wrapped(s).y = NewLine(s).y
                /\ Wrapped(s).mem = NewLine(s).mem
<1>1. PICK next : next = IF s.x >= NumCols THEN NewLine(s) ELSE s
  OBVIOUS
<1>2. IsScreen(next)
  BY <1>1, NewLineOnScreen
<1>3. Wrapped(s) = Located(next, next.x % NumCols, next.y % NumRows)
  BY <1>1, Zenon DEF Wrapped
<1>4. \A a \in Nat, b \in Nat \ {0} : a % b \in Nat /\ (a < b => a % b = a)
  OBVIOUS
<1>5. next.x \in Nat /\ next.y \in Nat /\ NumCols \in Nat \ {0} /\ NumRows \in Nat \ {0}
  BY <1>2, Sizes DEF IsScreen
<1>6. PICK x \in Nat, y \in Nat : /\ x = next.x % NumCols /\ (next.x < NumCols => x = next.x)
                                  /\ y = next.y % NumRows /\ (next.y < NumRows => y = next.y)
  BY <1>4, <1>5
<1>7. Wrapped(s).mem = next.mem /\ Wrapped(s).x = x /\ Wrapped(s).y = y
  <2>1. Wrapped(s) = Located(next, x, y)
    BY <1>3, <1>6, Zenon
  <2> QED
    BY <1>2, <2>1, LocatedAt, LocatedMem
<1>8. CASE s.x >= NumCols
  <2>1. /\ next = NewLine(s) /\ next.x = 0 /\ next.y < NumRows
        /\ IsMem(next.mem) /\ SameBehind(next.mem, s.mem)
    BY <1>1, <1>8, NewLineOnScreen, NewLineMem
  <2>2. x = 0 /\ y = next.y
    BY <1>6, <2>1, Sizes
  <2>3. ~(s.x < NumCols)
    BY <1>8, Sizes DEF IsScreen
  <2> QED
    BY <1>7, <2>1, <2>2, <2>3
<1>9. CASE ~(s.x >= NumCols)
  <2>1. next = s /\ s.x < NumCols
    BY <1>1, <1>9, Sizes DEF IsScreen
  <2>2. x = s.x /\ (s.y < NumRows => y = s.y)
    BY <1>6, <2>1
  <2>3. SameBehind(s.mem, s.mem)
    BY DEF SameBehind
  <2> QED
    BY <1>7, <1>9, <2>1, <2>2, <2>3
<1> QED
  BY <1>8, <1>9

\* A position that is written to without reaching a saved screen.
InPage(s) == IsScreen(s) /\ IsMem(s.mem) /\ s.y < NumRows /\ Cell(s.x, s.y) < PageCells

LEMMA OnScreenInPage ==
    ASSUME NEW s, IsScreen(s), IsMem(s.mem), s.x < NumCols, s.y < NumRows
    PROVE  InPage(s) /\ Cell(s.x, s.y) \in 0 .. Area - 1
<1>1. s.y \in 0 .. NumRows - 1 /\ s.x \in Nat
  BY Sizes DEF IsScreen
<1>2. PICK r \in 0 .. Above : r = RowStart(s.y)
  BY <1>1, Rows
<1>3. Cell(s.x, s.y) = r + s.x
  BY <1>2, CellIs
<1> QED
  BY <1>1, <1>2, <1>3, Areas, Sizes DEF InPage

LEMMA PutcBehind ==
    ASSUME NEW s, InPage(s), NEW c
    PROVE  /\ InPage(Putc(s, c)) /\ SameBehind(Putc(s, c).mem, s.mem)
<1>0. IsScreen(s) /\ IsMem(s.mem) /\ s.x \in Nat /\ s.y \in Nat /\ s.y < NumRows
  BY DEF InPage, IsScreen
<1>1. CASE c = "nul"
  BY <1>1 DEF Putc, SameBehind
<1>2. CASE c = "nl"
  <2>1. Putc(s, c) = NewLine(s)
    BY <1>2 DEF Putc
  <2>2. InPage(NewLine(s))
    BY <1>0, NewLineOnScreen, NewLineMem, OnScreenInPage, Sizes
  <2> QED
    BY <1>0, <2>1, <2>2, NewLineMem
<1>3. CASE c # "nul" /\ c # "nl"
  <2>1. PICK put : put = [s EXCEPT !.mem[Cell(s.x, s.y)] = c, !.x = @ + 1]
    OBVIOUS
  <2>2. PICK mem : mem = [s.mem EXCEPT ![Cell(s.x, s.y)] = c]
    OBVIOUS
  <2>3. PICK x \in Nat : x = s.x + 1
    BY <1>0
  <2>4. put = [s EXCEPT !.mem = mem, !.x = x]
    BY <2>1, <2>2, <2>3
  <2>5. IsScreen(put) /\ put.mem = mem
    BY <1>0, <2>4 DEF IsScreen
  <2>6. IsMem(mem) /\ SameBehind(mem, s.mem)
    <3>1. \A i \in Memory : i >= PageCells => i # Cell(s.x, s.y)
      <4>1. PICK p \in Int : p = Cell(s.x, s.y) /\ p < PageCells
        BY <1>0, Sizes DEF InPage, Cell
      <4> QED
        BY <4>1, Pages, Areas
    <3> QED
      BY <1>0, <2>2, <3>1 DEF IsMem, SameBehind
  <2>7. Putc(s, c) = Wrapped(put)
    BY <1>3, <2>1 DEF Putc
  <2>8. /\ IsScreen(Wrapped(put)) /\ Wrapped(put).x < NumCols /\ Wrapped(put).y < NumRows
        /\ IsMem(Wrapped(put).mem) /\ SameBehind(Wrapped(put).mem, mem)
    BY <2>5, <2>6, WrappedOnScreen, WrappedMem
  <2>9. InPage(Wrapped(put))
    BY <2>8, OnScreenInPage
  <2> QED
    BY <2>6, <2>7, <2>8, <2>9 DEF SameBehind
<1> QED
  BY <1>1, <1>2, <1>3

\* Where delete_c goes, and that it writes to the cell it leaves and the one
\* it comes to.
LEMMA DeleteCMem ==
    ASSUME NEW s, IsScreen(s), IsMem(s.mem), s.y < NumRows
    PROVE  \E x \in Nat, y \in Nat, p \in Int, q \in Int :
             /\ DeleteC(s).x = x /\ DeleteC(s).y = y
             /\ IsScreen(DeleteC(s)) /\ IsMem(DeleteC(s).mem)
             /\ y <= s.y /\ (x < NumCols \/ x <= s.x)
             /\ p = Cell(s.x, s.y) /\ q = Cell(x, y)
             /\ q = p - 1 \/ (p = 0 /\ q = 0)
             /\ p >= 0
             /\ \A i \in Memory : i # p /\ i # q => DeleteC(s).mem[i] = s.mem[i]
<1> DEFINE here == [s EXCEPT !.mem[Cell(s.x, s.y)] = "nul"]
           x == IF s.x # 0 THEN s.x - 1 ELSE IF s.y # 0 THEN NumCols - 1 ELSE 0
           y == IF s.x = 0 /\ s.y # 0 THEN s.y - 1 ELSE s.y
           gone == [here EXCEPT !.mem[Cell(x, y)] = "blank"]
<1>0. s.x \in Nat /\ s.y \in 0 .. NumRows - 1
  BY Sizes DEF IsScreen
<1>1. DeleteC(s) = Located(gone, x, y)
  BY Zenon DEF DeleteC
<1>2. /\ x \in Nat /\ y \in 0 .. NumRows - 1 /\ y <= s.y /\ (x < NumCols \/ x <= s.x)
      /\ s.x # 0 => x = s.x - 1 /\ y = s.y
      /\ s.x = 0 /\ s.y # 0 => x = NumCols - 1 /\ y = s.y - 1
      /\ s.x = 0 /\ s.y = 0 => x = 0 /\ y = 0
  BY <1>0, Sizes
<1>3. PICK p \in Int, q \in Int : p = Cell(s.x, s.y) /\ q = Cell(x, y)
  <2> HIDE DEF x, y
  <2> QED
    BY <1>0, <1>2, Sizes DEF Cell
<1>4. IsScreen(gone) /\ IsMem(gone.mem) /\ \A i \in Memory : i # p /\ i # q => gone.mem[i] = s.mem[i]
  <2> HIDE DEF x, y
  <2>1. PICK m1 : m1 = [s.mem EXCEPT ![p] = "nul"]
    OBVIOUS
  <2>2. PICK m2 : m2 = [m1 EXCEPT ![q] = "blank"]
    OBVIOUS
  <2>3. IsMem(m1) /\ \A i \in Memory : i # p => m1[i] = s.mem[i]
    BY <2>1 DEF IsMem
  <2>4. IsMem(m2) /\ \A i \in Memory : i # q => m2[i] = m1[i]
    BY <2>2, <2>3 DEF IsMem
  <2>5. here = [s EXCEPT !.mem = m1]
    BY <1>3, <2>1
  <2>6. IsScreen(here) /\ here.mem = m1
    BY <2>5 DEF IsScreen
  <2> HIDE DEF here
  <2>7. gone = [here EXCEPT !.mem = m2]
    BY <1>3, <2>2, <2>6
  <2>8. IsScreen(gone) /\ gone.mem = m2
    BY <2>6, <2>7 DEF IsScreen
  <2> QED
    BY <2>3, <2>4, <2>8
<1> HIDE DEF gone, x, y
<1>5. /\ IsScreen(DeleteC(s)) /\ DeleteC(s).x = x /\ DeleteC(s).y = y
      /\ DeleteC(s).mem = gone.mem
  <2>1. PICK gx \in Nat, gy \in Nat : gx = x /\ gy = y
    BY <1>2, Sizes
  <2>2. PICK g : g = gone
    OBVIOUS
  <2>3. DeleteC(s) = Located(g, gx, gy)
    BY <1>1, <2>1, <2>2
  <2>4. IsScreen(g)
    BY <1>4, <2>2
  <2>5. /\ IsScreen(Located(g, gx, gy)) /\ Located(g, gx, gy).x = gx /\ Located(g, gx, gy).y = gy
        /\ Located(g, gx, gy).mem = g.mem
    BY <2>4, LocatedAt, LocatedMem
  <2> QED
    BY <2>1, <2>2, <2>3, <2>5
<1>6. q = p - 1 \/ (p = 0 /\ q = 0)
  <2>1. p = RowStart(s.y) + s.x /\ q = RowStart(y) + x
    BY <1>3, CellIs
  <2>2. s.y # 0 => RowStart(s.y) = RowStart(s.y - 1) + NumCols
    BY <1>0, Rows
  <2>3. RowStart(0) = 0 /\ RowStart(s.y) \in Int /\ RowStart(y) \in Int
    <3>1. RowStart(0) = 0
      BY Sizes DEF RowStart
    <3>2. RowStart(s.y) \in 0 .. Above /\ RowStart(y) \in 0 .. Above
      BY <1>0, <1>2, Rows
    <3> QED
      BY <3>1, <3>2, Areas
  <2> QED
    BY <1>0, <1>2, <2>1, <2>2, <2>3, Sizes
<1>7. p >= 0
  BY <1>0, <1>3, CellIs, Rows, Areas
<1> QED
  BY <1>2, <1>3, <1>4, <1>5, <1>6, <1>7

LEMMA DeleteCBehind ==
    ASSUME NEW s, InPage(s)
    PROVE  IsMem(DeleteC(s).mem) /\ SameBehind(DeleteC(s).mem, s.mem)
<1>1. PICK x \in Nat, y \in Nat, p \in Int, q \in Int :
         /\ IsMem(DeleteC(s).mem)
         /\ p = Cell(s.x, s.y)
         /\ q = p - 1 \/ (p = 0 /\ q = 0)
         /\ \A i \in Memory : i # p /\ i # q => DeleteC(s).mem[i] = s.mem[i]
  BY DeleteCMem DEF InPage
<1>2. \A i \in Memory : i >= PageCells => i # p /\ i # q
  BY <1>1, Areas, Pages DEF InPage
<1> QED
  BY <1>1, <1>2 DEF SameBehind

\* The operators write to cells of the memory only.
LEMMA CellPut ==
    ASSUME NEW s, IsScreen(s), IsMem(s.mem), NEW p, NEW c, NEW z, z = [s EXCEPT !.mem[p] = c]
    PROVE  /\ IsScreen(z) /\ IsMem(z.mem) /\ z.x = s.x /\ z.y = s.y
           /\ \A i \in Memory : z.mem[i] = IF i = p THEN c ELSE s.mem[i]
<1>1. PICK mem : mem = [s.mem EXCEPT ![p] = c]
  OBVIOUS
<1>2. IsMem(mem) /\ \A i \in Memory : mem[i] = IF i = p THEN c ELSE s.mem[i]
  BY <1>1 DEF IsMem
<1>3. z = [s EXCEPT !.mem = mem]
  BY <1>1
<1> QED
  BY <1>2, <1>3 DEF IsScreen

LEMMA PutcIsMem ==
    ASSUME NEW s, IsScreen(s), IsMem(s.mem), NEW c
    PROVE  IsScreen(Putc(s, c)) /\ IsMem(Putc(s, c).mem)
<1>1. IsScreen(Putc(s, c))
  BY PutcNearer DEF Nearer
<1>2. CASE c = "nul"
  BY <1>2 DEF Putc
<1>3. CASE c = "nl"
  <2>1. Putc(s, c) = NewLine(s)
    BY <1>3 DEF Putc
  <2> QED
    BY <1>1, <2>1, NewLineMem
<1>4. CASE c # "nul" /\ c # "nl"
  <2>1. PICK put : put = [s EXCEPT !.mem[Cell(s.x, s.y)] = c, !.x = @ + 1]
    OBVIOUS
  <2>2. PICK z : z = [s EXCEPT !.mem[Cell(s.x, s.y)] = c]
    OBVIOUS
  <2>3. PICK x \in Nat : x = s.x + 1
    BY DEF IsScreen
  <2>4. IsScreen(z) /\ IsMem(z.mem)
    BY <2>2, CellPut
  <2>5. put = [z EXCEPT !.x = x]
    BY <2>1, <2>2, <2>3 DEF IsScreen
  <2>6. IsScreen(put) /\ IsMem(put.mem)
    BY <2>4, <2>5 DEF IsScreen
  <2> QED
    BY <1>1, <1>4, <2>1, <2>6, WrappedMem DEF Putc
<1> QED
  BY <1>1, <1>2, <1>3, <1>4

LEMMA DeleteCIsMem ==
    ASSUME NEW s, IsScreen(s), IsMem(s.mem)
    PROVE  IsMem(DeleteC(s).mem)
<1> DEFINE here == [s EXCEPT !.mem[Cell(s.x, s.y)] = "nul"]
           x == IF s.x # 0 THEN s.x - 1 ELSE IF s.y # 0 THEN NumCols - 1 ELSE 0
           y == IF s.x = 0 /\ s.y # 0 THEN s.y - 1 ELSE s.y
           gone == [here EXCEPT !.mem[Cell(x, y)] = "blank"]
<1>1. DeleteC(s) = Located(gone, x, y)
  BY Zenon DEF DeleteC
<1>2. x \in Nat /\ y \in Nat
  BY Sizes DEF IsScreen
<1>3. IsScreen(here) /\ IsMem(here.mem)
  <2> HIDE DEF x, y
  <2> QED
    BY CellPut
<1> HIDE DEF here, x, y
<1>4. IsScreen(gone) /\ IsMem(gone.mem)
  BY <1>3, CellPut
<1> HIDE DEF gone
<1> QED
  BY <1>1, <1>2, <1>4, LocatedMem

LEMMA SwappedMem ==
    ASSUME NEW old \in Terminals, NEW new \in Terminals, old # new, IsMem(memory)
    PROVE  /\ IsMem(Swapped(old, new))
           /\ \A i \in Memory : i < PageCells => Swapped(old, new)[i] = memory[i + PageStart(new)]
           /\ \A i \in Memory : i >= PageCells =>
                Swapped(old, new)[i] =
                    IF i \in Saved(old) THEN memory[i - PageStart(old)] ELSE memory[i]
<1> DEFINE stored == [i \in Memory |-> IF i \in Saved(old) THEN memory[i - (old + 1) * PageCells]
                                                           ELSE memory[i]]
<1>1. \A i \in Memory : stored[i] =
        IF i \in Saved(old) THEN memory[i - PageStart(old)] ELSE memory[i]
  BY DEF PageStart
<1>2. Swapped(old, new) = [i \in Memory |-> IF i < PageCells THEN stored[i + PageStart(new)] ELSE stored[i]]
  BY DEF Swapped, PageStart
<1> HIDE DEF stored
<1>3. ASSUME NEW i \in Memory, i < PageCells
      PROVE  i + PageStart(new) \in Memory /\ i + PageStart(new) \notin Saved(old)
  <2>1. PICK a \in Nat, b \in Nat, end \in Nat : a = PageStart(old) /\ b = PageStart(new) /\ end = MemoryEnd
    BY Pages
  <2>2. /\ Memory = 0 .. end - 1 /\ Saved(old) = a .. a + PageCells - 1
        /\ b + PageCells <= end
        /\ a + PageCells <= b \/ b + PageCells <= a
    BY <2>1, Pages
  <2>3. i + b \in 0 .. end - 1 /\ i + b \notin a .. a + PageCells - 1
    BY <1>3, <2>2, Areas
  <2> QED
    BY <2>1, <2>2, <2>3
<1>4. ASSUME NEW i \in Memory, i < PageCells
      PROVE  Swapped(old, new)[i] = memory[i + PageStart(new)]
  <2>1. Swapped(old, new)[i] = stored[i + PageStart(new)]
    BY <1>2, <1>4
  <2>2. stored[i + PageStart(new)] = memory[i + PageStart(new)]
    BY <1>1, <1>3, <1>4
  <2> QED
    BY <2>1, <2>2
<1>5. ASSUME NEW i \in Memory, i >= PageCells
      PROVE  Swapped(old, new)[i] = IF i \in Saved(old) THEN memory[i - PageStart(old)] ELSE memory[i]
  <2>1. ~(i < PageCells)
    BY <1>5, Pages, Areas
  <2>2. Swapped(old, new)[i] = stored[i]
    BY <1>2, <2>1
  <2> QED
    BY <1>1, <2>2
<1> QED
  BY <1>2, <1>4, <1>5 DEF IsMem

-----------------------------------------------------------------------------
(* The saved screens *)

ScrollsShown(v) == v.pc = "scroll" => v.k \in Shown

PageInv ==
    /\ IInv
    /\ IsMem(memory)
    /\ ScrollsShown(w)
    /\ \A t \in Terminals : ScrollsShown(suspended[t])
    /\ midPutc \in Nat /\ cuts <= midPutc /\ midPutc <= MaxMidPutc

\* What no step but Alt+F does to the saved screens, unless the position is
\* below the last row.
Kept == screen_y < NumRows => SameBehind(memory', memory)

LEMMA PutcStepMem ==
    ASSUME PageInv, PutcStep
    PROVE  /\ IsMem(memory') /\ ScrollsShown(w') /\ UNCHANGED <<suspended, cuts, midPutc>>
           /\ UNCHANGED terminal_active_id
           /\ \/ UNCHANGED memory
              \/ /\ w.pc = "cell"
                 /\ \A i \in Memory : i # Cell(screen_x, screen_y) => memory'[i] = memory[i]
              \/ \A i \in Memory : i >= PageCells => memory'[i] = memory[i]
<1>1. UNCHANGED <<suspended, cuts, midPutc, terminal_active_id>>
  BY DEF PutcStep, PutcStart, PutCell, LoadX, StoreX, Wrap, LoadY, StoreY, ZeroX, Full, ScrollCell,
         LoadModX, StoreModX, LoadModY, StoreModY, ArgY, ArgX, Compare, SetX, SetY,
         CursorPosition, Select, CursorLo, CursorHi, At, terminals, counters
<1>2. IsWrite(w)
  BY DEF PageInv, IInv, Registers
<1>3. CASE PutCell
  <2>1. memory' = [memory EXCEPT ![Cell(screen_x, screen_y)] = Head(w.out)] /\ w.pc = "cell"
    BY <1>3 DEF PutCell, At
  <2>2. w' = [w EXCEPT !.pc = "load_x"]
    BY <1>3 DEF PutCell
  <2>3. ScrollsShown(w')
    BY <1>2, <2>2 DEF ScrollsShown, IsWrite
  <2>4. IsMem(memory') /\ \A i \in Memory : i # Cell(screen_x, screen_y) => memory'[i] = memory[i]
    BY <2>1 DEF PageInv, IsMem
  <2> QED
    BY <1>1, <2>1, <2>3, <2>4
<1>4. CASE ScrollCell
  <2>1. w.pc = "scroll" /\ w.k \in Shown
    BY <1>4 DEF ScrollCell, At, PageInv, ScrollsShown
  <2>2. memory' = [memory EXCEPT ![w.k] = IF w.k \in LastRow THEN "blank" ELSE memory[w.k + NumCols]]
    BY <1>4 DEF ScrollCell
  <2>3. IsMem(memory') /\ \A i \in Memory : i # w.k => memory'[i] = memory[i]
    BY <2>2 DEF PageInv, IsMem
  <2>4. \A i \in Memory : i >= PageCells => i # w.k
    BY <2>1, Areas, Pages
  <2>5. ScrollsShown(w')
    BY <1>2, <1>4 DEF ScrollsShown, IsWrite, ScrollCell, Go
  <2> QED
    BY <1>1, <2>3, <2>4, <2>5
<1>5. CASE Full
  <2>1. 0 \in Shown
    BY Areas, Sizes
  <2>2. ScrollsShown(w')
    BY <1>2, <1>5, <2>1 DEF ScrollsShown, IsWrite, Full, Go
  <2> QED
    BY <1>1, <1>5, <2>2 DEF Full, screen, PageInv
<1>6. CASE ~(PutCell \/ ScrollCell \/ Full)
  <2>1. UNCHANGED memory
    BY <1>6 DEF PutcStep, PutcStart, LoadX, StoreX, Wrap, LoadY, StoreY, ZeroX,
           LoadModX, StoreModX, LoadModY, StoreModY, ArgY, ArgX, Compare, SetX, SetY,
           CursorPosition, Select, CursorLo, CursorHi, screen
  <2>2. CASE w' = Done(w)
    BY <1>1, <2>1, <2>2, DoneRegisters DEF PageInv, IInv, ScrollsShown
  <2>3. CASE w' # Done(w)
    <3>1. ScrollsShown(w')
      BY <1>2, <1>6, <2>3 DEF PutcStep, PutcStart, LoadX, StoreX, Wrap, LoadY, StoreY, ZeroX,
             LoadModX, StoreModX, LoadModY, StoreModY, ArgY, ArgX, Compare, SetX, SetY,
             CursorPosition, Select, CursorLo, CursorHi, Go, Finish, ScrollsShown, IsWrite
    <3> QED
      BY <1>1, <2>1, <3>1 DEF PageInv
  <2> QED
    BY <2>2, <2>3
<1> QED
  BY <1>3, <1>4, <1>5, <1>6

\* The keys that write to the screen as they find it.
LEMMA ScreenInPage ==
    ASSUME PageInv, Key, screen_y < NumRows, Area + MaxMidPutc <= PageCells
    PROVE  InPage(Screen)
<1>1. /\ IsScreen(Screen) /\ Screen.mem = memory /\ Screen.x = screen_x /\ Screen.y = screen_y
  BY ScreenIs DEF PageInv, Screen
<1>2. screen_x \in Nat /\ screen_y \in 0 .. NumRows - 1 /\ cuts \in Nat
  BY Sizes DEF PageInv, IInv, Position
<1>3. MidPutc => midPutc < MaxMidPutc
  BY DEF Key
<1>4. screen_x < NumCols + MaxMidPutc
  <2>1. CASE MidPutc
    BY <1>2, <1>3, <2>1, Sizes, ConsoleAssumption, SMTT(30) DEF PageInv, IInv, Position
  <2>2. CASE ~MidPutc
    BY <1>2, <2>2, Sizes, ConsoleAssumption, SMTT(30) DEF PageInv, IInv, Position, MidPutc, PastColumn
  <2> QED
    BY <2>1, <2>2
<1>5. PICK r \in 0 .. Above : r = RowStart(screen_y)
  BY <1>2, Rows
<1>6. Cell(screen_x, screen_y) = r + screen_x
  BY <1>5, CellIs
<1>7. r + screen_x < PageCells
  BY <1>2, <1>4, <1>5, Areas, Sizes, ConsoleAssumption
<1> QED
  BY <1>1, <1>2, <1>6, <1>7 DEF InPage, PageInv

\* What a key shows, whose memory the key leaves behind.
EchoMem(s) == IsMem(s.mem) /\ (InPage(Screen) => SameBehind(s.mem, memory))

LEMMA PutcEchoes ==
    ASSUME PageInv, NEW c
    PROVE  EchoMem(Putc(Screen, c))
<1>1. IsScreen(Screen) /\ Screen.mem = memory
  BY ScreenIs DEF PageInv, Screen
<1> QED
  BY <1>1, PutcIsMem, PutcBehind DEF EchoMem, PageInv

LEMMA PutcsEcho ==
    ASSUME PageInv
    PROVE  /\ EchoMem(Putc(Putc(Screen, "nl"), "nl"))
           /\ EchoMem(Putc(Putc(Putc(Putc(Screen, "tab"), "tab"), "tab"), "tab"))
<1>0. IsScreen(Screen) /\ Screen.mem = memory /\ IsMem(memory)
  BY ScreenIs DEF PageInv, Screen
<1>1. PICK s1, s2 : s1 = Putc(Screen, "nl") /\ s2 = Putc(s1, "nl")
  OBVIOUS
<1>2. /\ IsScreen(s1) /\ IsMem(s1.mem) /\ IsMem(s2.mem)
      /\ InPage(Screen) => InPage(s1) /\ SameBehind(s1.mem, memory) /\ SameBehind(s2.mem, s1.mem)
  BY <1>0, <1>1, PutcIsMem, PutcBehind
<1>3. PICK t1, t2, t3, t4 : /\ t1 = Putc(Screen, "tab") /\ t2 = Putc(t1, "tab")
                            /\ t3 = Putc(t2, "tab") /\ t4 = Putc(t3, "tab")
  OBVIOUS
<1>4. /\ IsScreen(t1) /\ IsMem(t1.mem) /\ IsScreen(t2) /\ IsMem(t2.mem)
      /\ IsScreen(t3) /\ IsMem(t3.mem) /\ IsMem(t4.mem)
  <2>1. IsScreen(t1) /\ IsMem(t1.mem)
    BY <1>0, <1>3, PutcIsMem
  <2>2. IsScreen(t2) /\ IsMem(t2.mem)
    BY <1>3, <2>1, PutcIsMem
  <2>3. IsScreen(t3) /\ IsMem(t3.mem)
    BY <1>3, <2>2, PutcIsMem
  <2>4. IsMem(t4.mem)
    BY <1>3, <2>3, PutcIsMem
  <2> QED
    BY <2>1, <2>2, <2>3, <2>4
<1>5. ASSUME InPage(Screen) PROVE SameBehind(t4.mem, memory)
  <2>1. InPage(t1) /\ SameBehind(t1.mem, memory)
    BY <1>0, <1>3, <1>5, PutcBehind
  <2>2. InPage(t2) /\ SameBehind(t2.mem, t1.mem)
    BY <1>3, <2>1, PutcBehind
  <2>3. InPage(t3) /\ SameBehind(t3.mem, t2.mem)
    BY <1>3, <2>2, PutcBehind
  <2>4. SameBehind(t4.mem, t3.mem)
    BY <1>3, <2>3, PutcBehind
  <2> QED
    BY <2>1, <2>2, <2>3, <2>4 DEF SameBehind
<1>6. EchoMem(s2)
  BY <1>2 DEF EchoMem, SameBehind
<1>7. EchoMem(t4)
  BY <1>4, <1>5 DEF EchoMem
<1> QED
  BY <1>1, <1>3, <1>6, <1>7

LEMMA DeleteCEchoes ==
    ASSUME PageInv
    PROVE  EchoMem(DeleteC(Screen))
<1>1. IsScreen(Screen) /\ Screen.mem = memory
  BY ScreenIs DEF PageInv, Screen
<1> QED
  BY <1>1, DeleteCIsMem, DeleteCBehind DEF EchoMem, PageInv

LEMMA ClearEchoes ==
    ASSUME PageInv
    PROVE  EchoMem(Located([Screen EXCEPT !.mem = Clear(memory)], 0, 0))
<1>1. PICK mem : mem = Clear(memory)
  OBVIOUS
<1>2. IsMem(mem) /\ SameBehind(mem, memory)
  <2>1. mem = Cleared(memory, Shown)
    BY <1>1 DEF Clear, Shown
  <2>2. IsMem(mem) /\ \A i \in Memory : mem[i] = IF i \in Shown THEN "blank" ELSE memory[i]
    BY <2>1, ClearedMem DEF PageInv
  <2>3. \A i \in Memory : i >= PageCells => i \notin Shown
    BY Areas, Pages
  <2> QED
    BY <2>2, <2>3 DEF SameBehind
<1>3. PICK z : z = [Screen EXCEPT !.mem = mem]
  OBVIOUS
<1>4. IsScreen(z) /\ z.mem = mem
  BY <1>3, ScreenIs DEF IsScreen, PageInv
<1>5. Located(z, 0, 0).mem = mem
  BY <1>4, LocatedMem
<1> QED
  BY <1>1, <1>2, <1>3, <1>5 DEF EchoMem

\* A key that leaves the running putc as it is.
LEMMA EchoPages ==
    ASSUME PageInv, Key, GoesOn, NEW s, EchoMem(s), SetScreen(s), UNCHANGED terminal_active_id
    PROVE  /\ IsMem(memory') /\ ScrollsShown(w') /\ \A t \in Terminals : ScrollsShown(suspended'[t])
           /\ midPutc' \in Nat /\ cuts' <= midPutc' /\ midPutc' <= MaxMidPutc
           /\ Area + MaxMidPutc <= PageCells => Kept
<1>1. memory' = s.mem /\ w' = w /\ suspended' = suspended /\ cuts' = cuts
  BY DEF SetScreen, GoesOn
<1>2. midPutc' = midPutc \/ (midPutc' = midPutc + 1 /\ midPutc < MaxMidPutc)
  BY DEF Key
<1>3. Area + MaxMidPutc <= PageCells => Kept
  BY <1>1, ScreenInPage DEF EchoMem, Kept
<1> QED
  BY <1>1, <1>2, <1>3, ConsoleAssumption DEF EchoMem, PageInv, IInv, ScrollsShown

\* A key that leaves the screen as it is.
LEMMA SamePages ==
    ASSUME PageInv, Key, GoesOn, UNCHANGED memory
    PROVE  /\ IsMem(memory') /\ ScrollsShown(w') /\ \A t \in Terminals : ScrollsShown(suspended'[t])
           /\ midPutc' \in Nat /\ cuts' <= midPutc' /\ midPutc' <= MaxMidPutc
           /\ Kept
<1>1. midPutc' = midPutc \/ (midPutc' = midPutc + 1 /\ midPutc < MaxMidPutc)
  BY DEF Key
<1>2. IsMem(memory') /\ Kept
  BY DEF PageInv, Kept, SameBehind, IsMem
<1>3. ScrollsShown(w') /\ \A t \in Terminals : ScrollsShown(suspended'[t])
  BY DEF GoesOn, PageInv, ScrollsShown
<1> QED
  BY <1>1, <1>2, <1>3, ConsoleAssumption DEF GoesOn, PageInv, IInv

PagesNext ==
    /\ IsMem(memory') /\ ScrollsShown(w') /\ \A t \in Terminals : ScrollsShown(suspended'[t])
    /\ midPutc' \in Nat /\ cuts' <= midPutc' /\ midPutc' <= MaxMidPutc
    /\ Area + MaxMidPutc <= PageCells => Kept \/ terminal_active_id' # terminal_active_id

LEMMA PutcStepPages ==
    ASSUME PageInv, PutcStep
    PROVE  PagesNext
<1>1. /\ IsMem(memory') /\ ScrollsShown(w') /\ UNCHANGED <<suspended, cuts, midPutc>>
      /\ UNCHANGED terminal_active_id
      /\ \/ UNCHANGED memory
         \/ /\ w.pc = "cell"
            /\ \A i \in Memory : i # Cell(screen_x, screen_y) => memory'[i] = memory[i]
         \/ \A i \in Memory : i >= PageCells => memory'[i] = memory[i]
  BY PutcStepMem
<1>2. ASSUME w.pc = "cell", Area + MaxMidPutc <= PageCells, screen_y < NumRows,
             \A i \in Memory : i # Cell(screen_x, screen_y) => memory'[i] = memory[i]
      PROVE  SameBehind(memory', memory)
  <2>1. /\ screen_x \in Nat /\ screen_y \in 0 .. NumRows - 1
        /\ screen_x < NumCols + cuts /\ cuts \in Nat /\ cuts <= MaxMidPutc
    BY <1>2, Sizes, ConsoleAssumption, SMTT(30) DEF PageInv, IInv, Position, PastColumn
  <2>2. PICK r \in 0 .. Above : r = RowStart(screen_y)
    BY <2>1, Rows
  <2>3. Cell(screen_x, screen_y) = r + screen_x
    BY <2>2, CellIs
  <2>4. r + screen_x < PageCells
    BY <1>2, <2>1, <2>2, Areas, Sizes, ConsoleAssumption
  <2>5. \A i \in Memory : i >= PageCells => i # r + screen_x
    BY <2>1, <2>2, <2>4, Areas, Pages
  <2> QED
    BY <1>2, <2>3, <2>5 DEF SameBehind
<1>3. Area + MaxMidPutc <= PageCells => Kept
  BY <1>1, <1>2 DEF Kept, SameBehind
<1> QED
  BY <1>1, <1>3 DEF PagesNext, PageInv

LEMMA EchoPagesNext ==
    ASSUME PageInv, Key, GoesOn, UNCHANGED terminal_active_id,
           UNCHANGED memory \/ \E s : EchoMem(s) /\ SetScreen(s)
    PROVE  PagesNext
BY EchoPages, SamePages DEF PagesNext

LEMMA KeyPages ==
    ASSUME PageInv,
           \/ \E code \in KeyCodes : TypeKey(code)
           \/ EnterKey \/ Backspace \/ Tab \/ CtrlL
    PROVE  PagesNext
<1>1. Key /\ GoesOn /\ UNCHANGED terminal_active_id
  BY DEF TypeKey, EnterKey, Backspace, Tab, CtrlL
<1>2. ASSUME NEW code \in KeyCodes, TypeKey(code) PROVE PagesNext
  <2>1. UNCHANGED screen \/ \E c \in {"nul", "key"} : SetScreen(Putc(Screen, c))
    BY <1>2 DEF TypeKey
  <2> QED
    BY <1>1, <2>1, PutcEchoes, EchoPagesNext DEF screen
<1>3. CASE EnterKey
  <2>1. \/ UNCHANGED screen
        \/ SetScreen(Putc(Screen, "nl"))
        \/ SetScreen(Putc(Putc(Screen, "nl"), "nl"))
    BY <1>3 DEF EnterKey
  <2> QED
    BY <1>1, <2>1, PutcEchoes, PutcsEcho, EchoPagesNext DEF screen
<1>4. CASE Backspace
  <2>1. UNCHANGED screen \/ SetScreen(DeleteC(Screen))
    BY <1>4 DEF Backspace
  <2> QED
    BY <1>1, <2>1, DeleteCEchoes, EchoPagesNext DEF screen
<1>5. CASE Tab
  <2>1. SetScreen(Putc(Putc(Putc(Putc(Screen, "tab"), "tab"), "tab"), "tab"))
    BY <1>5 DEF Tab
  <2> QED
    BY <1>1, <2>1, PutcsEcho, EchoPagesNext
<1>6. CASE CtrlL
  <2>1. SetScreen(Located([Screen EXCEPT !.mem = Clear(memory)], 0, 0))
    BY <1>6 DEF CtrlL
  <2> QED
    BY <1>1, <2>1, ClearEchoes, EchoPagesNext
<1> QED
  BY <1>2, <1>3, <1>4, <1>5, <1>6

LEMMA IdleScrollsNot ==
    /\ ScrollsShown(Idle)
    /\ \A text : ScrollsShown(Writing(text))
BY DEF ScrollsShown, Idle, Writing

LEMMA CutsCounted ==
    ASSUME PageInv, Key, cuts' = IF MidPutc THEN cuts + 1 ELSE cuts
    PROVE  midPutc' \in Nat /\ cuts' <= midPutc' /\ midPutc' <= MaxMidPutc
BY ConsoleAssumption, SMTT(30) DEF PageInv, IInv, Key

\* Where Alt+F leads to another terminal.
LEMMA AltFMem ==
    ASSUME PageInv, NEW t \in Terminals, AltF(t), t # terminal_active_id
    PROVE  /\ memory' = Swapped(terminal_active_id, t)
           /\ screen_x' = screen_coord_storage[t].x /\ screen_y' = screen_coord_storage[t].y
           /\ terminal_active_id' = t
           /\ \A u \in Terminals : screen_coord_storage'[u] =
                IF u = terminal_active_id THEN [x |-> screen_x, y |-> screen_y]
                                          ELSE screen_coord_storage[u]
<1> DEFINE to == screen_coord_storage[t]
           s0 == [Screen EXCEPT !.mem = Swapped(terminal_active_id, t)]
<1>1. /\ SetScreen(Located(s0, to.x, to.y)) /\ terminal_active_id' = t
      /\ screen_coord_storage' = [screen_coord_storage EXCEPT ![terminal_active_id] =
                                    [x |-> screen_x, y |-> screen_y]]
  BY DEF AltF
<1>2. to.x \in Nat /\ to.y \in Nat
  BY DEF PageInv, IInv, Stored
<1>3. IsScreen(s0) /\ s0.mem = Swapped(terminal_active_id, t)
  BY ScreenIs DEF IsScreen, PageInv
<1>4. \A u \in Terminals : screen_coord_storage'[u] =
         IF u = terminal_active_id THEN [x |-> screen_x, y |-> screen_y] ELSE screen_coord_storage[u]
  BY <1>1 DEF PageInv, IInv
<1> HIDE DEF s0, to
<1>5. PICK z : z = Located(s0, to.x, to.y)
  OBVIOUS
<1>6. z.mem = s0.mem /\ z.x = to.x /\ z.y = to.y
  BY <1>2, <1>3, <1>5, LocatedAt, LocatedMem, ZenonT(40)
<1>7. memory' = s0.mem /\ screen_x' = to.x /\ screen_y' = to.y
  BY <1>1, <1>5, <1>6 DEF SetScreen
<1> QED
  BY <1>1, <1>3, <1>4, <1>7 DEF to

LEMMA AltFPages ==
    ASSUME PageInv, NEW t \in Terminals, AltF(t)
    PROVE  PagesNext
<1>1. Key
  BY DEF AltF
<1>2. CASE t = terminal_active_id
  <2>1. GoesOn /\ UNCHANGED <<memory, terminal_active_id>>
    BY <1>2 DEF AltF, screen, terminals
  <2> QED
    BY <1>1, <2>1, EchoPagesNext
<1>3. CASE t # terminal_active_id
  <2> DEFINE left == [suspended EXCEPT ![terminal_active_id] = w]
  <2>1. /\ cuts' = IF MidPutc THEN cuts + 1 ELSE cuts
        /\ \/ w' = Writing(Welcome) /\ suspended' = left
           \/ w' = Idle /\ suspended' = left
           \/ \E u \in Terminals : w' = left[u] /\ suspended' = [left EXCEPT ![u] = Idle]
    BY <1>3 DEF AltF
  <2>2. /\ left = [v \in Terminals |-> left[v]]
        /\ \A v \in Terminals : ScrollsShown(left[v])
    <3>1. \A v \in Terminals : left[v] = IF v = terminal_active_id THEN w ELSE suspended[v]
      BY DEF PageInv, IInv
    <3>2. left = [v \in Terminals |-> left[v]]
      BY DEF PageInv, IInv
    <3> HIDE DEF left
    <3> QED
      BY <3>1, <3>2 DEF PageInv
  <2> HIDE DEF left
  <2>3. ScrollsShown(w') /\ \A v \in Terminals : ScrollsShown(suspended'[v])
    BY <2>1, <2>2, IdleScrollsNot
  <2>4. midPutc' \in Nat /\ cuts' <= midPutc' /\ midPutc' <= MaxMidPutc
    BY <1>1, <2>1, CutsCounted
  <2>5. IsMem(memory') /\ terminal_active_id' = t
    BY <1>3, AltFMem, SwappedMem DEF PageInv, IInv
  <2> QED
    BY <1>3, <2>3, <2>4, <2>5 DEF PagesNext
<1> QED
  BY <1>2, <1>3

LEMMA StepPages == PageInv /\ Next => PagesNext
<1> SUFFICES ASSUME PageInv, Next PROVE PagesNext
  OBVIOUS
<1>1. ASSUME UNCHANGED <<memory, suspended, cuts, midPutc>>, ScrollsShown(w')
      PROVE  PagesNext
  BY <1>1 DEF PageInv, PagesNext, Kept, SameBehind, IsMem
<1>2. ASSUME NEW text \in Texts, Write(text) PROVE PagesNext
  BY <1>1, <1>2, IdleScrollsNot DEF Write, screen, terminals
<1>3. CASE CtrlC
  <2>1. /\ Key /\ w' = Idle /\ UNCHANGED <<memory, suspended>>
        /\ cuts' = IF MidPutc THEN cuts + 1 ELSE cuts
    BY <1>3 DEF CtrlC, screen, terminals
  <2>2. midPutc' \in Nat /\ cuts' <= midPutc' /\ midPutc' <= MaxMidPutc
    BY <2>1, CutsCounted
  <2> QED
    BY <2>1, <2>2, IdleScrollsNot DEF PagesNext, PageInv, Kept, SameBehind, IsMem
<1>4. CASE ReadLine
  BY <1>1, <1>4 DEF ReadLine, screen, terminals, counters, PageInv, ScrollsShown
<1> QED
  BY <1>2, <1>3, <1>4, PutcStepPages, KeyPages, AltFPages DEF Next

LEMMA PageInductive == PageInv /\ [Next]_vars => PageInv'
<1> SUFFICES ASSUME PageInv, [Next]_vars PROVE PageInv'
  OBVIOUS
<1>1. IInv'
  BY Inductive DEF PageInv
<1>2. CASE Next
  <2>1. PagesNext
    BY <1>2, StepPages
  <2> QED
    BY <1>1, <2>1 DEF PagesNext, PageInv, IsMem, ScrollsShown
<1>3. CASE UNCHANGED vars
  BY <1>1, <1>3 DEF vars, screen, terminals, counters, PageInv, IsMem, ScrollsShown
<1> QED
  BY <1>2, <1>3

LEMMA PageInitially == Init => PageInv
<1> SUFFICES ASSUME Init PROVE PageInv
  OBVIOUS
<1>1. IsMem(memory) /\ cuts = 0 /\ midPutc = 0 /\ w = Idle
  BY DEF Init, IsMem
<1>2. \A t \in Terminals : suspended[t] = Idle
  BY DEF Init
<1> QED
  BY <1>1, <1>2, Initially, IdleScrollsNot, ConsoleAssumption DEF PageInv

\* The saved screens lie right behind the screen, and no key, write or scroll
\* changes them while the position is above the end of the last row; Alt+F
\* alone does.  The page of a screen has to have a spare cell for every putc
\* that a key may fall into: each of them can leave the column one too far
\* (48 cells are spare in the code).
THEOREM SavedScreensAreKept ==
    ASSUME NumRows * NumCols + MaxMidPutc <= PageCells
    PROVE  Spec => SavedScreensKept
<1> DEFINE Step == \A t \in Terminals :
                     \/ terminal_active_id' # terminal_active_id
                     \/ screen_y >= NumRows
                     \/ \A i \in Saved(t) : memory'[i] = memory[i]
<1>1. ASSUME PageInv, Next PROVE Step
  <2>1. Kept \/ terminal_active_id' # terminal_active_id
    BY <1>1, StepPages DEF PagesNext, Area
  <2>2. screen_y < NumRows \/ screen_y >= NumRows
    BY <1>1, Sizes DEF PageInv, IInv, Position
  <2>3. \A t \in Terminals : \A i \in Saved(t) : i \in Memory /\ i >= PageCells
    <3>1. ASSUME NEW t \in Terminals, NEW i \in Saved(t) PROVE i \in Memory /\ i >= PageCells
      <4>1. PICK a \in Nat, end \in Nat : a = PageStart(t) /\ end = MemoryEnd
        BY Pages
      <4>2. /\ Memory = 0 .. end - 1 /\ Saved(t) = a .. a + PageCells - 1
            /\ a + PageCells <= end /\ PageCells <= a
        BY <4>1, Pages
      <4> QED
        BY <3>1, <4>2, Areas
    <3> QED
      BY <3>1
  <2> QED
    BY <2>1, <2>2, <2>3 DEF Kept, SameBehind
<1>2. PageInv /\ [Next]_vars => [Step]_vars
  BY <1>1
<1> HIDE DEF Step
<1>3. Spec => [][Step]_vars
  BY <1>2, PageInitially, PageInductive, PTL DEF Spec
<1> QED
  BY <1>3 DEF SavedScreensKept, Step

-----------------------------------------------------------------------------
(* The line before the cursor *)

\* The l characters before position x, y of the screen from cell base on were
\* typed; those above the first row have scrolled away.
TypedAt(mem, base, x, y, l) ==
    /\ x < NumCols /\ y < NumRows
    /\ \A n \in 1 .. l : Cell(x, y) - n >= 0 => mem[base + (Cell(x, y) - n)] \in {"key", "tab"}

TypedOn(s, l) == IsScreen(s) /\ IsMem(s.mem) /\ TypedAt(s.mem, 0, s.x, s.y, l)

LEMMA CellOnScreen ==
    ASSUME NEW x \in Nat, NEW y \in Nat, x < NumCols, y < NumRows
    PROVE  Cell(x, y) \in 0 .. Area - 1 /\ Area <= PageCells /\ Area \in Nat /\ PageCells \in Nat
<1>1. y \in 0 .. NumRows - 1
  BY Sizes
<1>2. PICK r \in 0 .. Above : r = RowStart(y)
  BY <1>1, Rows
<1>3. Cell(x, y) = r + x
  BY <1>2, CellIs
<1> QED
  BY <1>2, <1>3, Areas, Sizes

\* A character is typed: the line and the position move on together, with a
\* scroll too.
LEMMA TypedPutc ==
    ASSUME NEW s, NEW l \in Nat, TypedOn(s, l), NEW c \in {"key", "tab"}
    PROVE  TypedOn(Putc(s, c), l + 1)
<1>0. /\ IsScreen(s) /\ IsMem(s.mem) /\ s.x \in Nat /\ s.y \in 0 .. NumRows - 1
      /\ s.x < NumCols /\ s.y < NumRows
  BY Sizes DEF TypedOn, TypedAt, IsScreen
<1>1. PICK r \in 0 .. Above, p \in 0 .. Area - 1 :
        r = RowStart(s.y) /\ p = Cell(s.x, s.y) /\ p = r + s.x
  <2>1. Cell(s.x, s.y) = RowStart(s.y) + s.x
    BY CellIs
  <2> QED
    BY <1>0, <2>1, Rows, CellOnScreen, Sizes
<1>2. PICK put : put = [s EXCEPT !.mem[Cell(s.x, s.y)] = c, !.x = @ + 1]
  OBVIOUS
<1>3. PICK mem : mem = [s.mem EXCEPT ![p] = c]
  OBVIOUS
<1>4. PICK x \in Nat : x = s.x + 1
  BY <1>0
<1>5. put = [s EXCEPT !.mem = mem, !.x = x]
  BY <1>1, <1>2, <1>3, <1>4
<1>6. IsScreen(put) /\ put.mem = mem /\ put.x = x /\ put.y = s.y
  BY <1>0, <1>5 DEF IsScreen
<1>7. IsMem(mem) /\ mem[p] = c /\ \A i \in Memory : i # p => mem[i] = s.mem[i]
  <2>1. p \in Memory
    BY <1>1, Areas, Pages
  <2> QED
    BY <1>0, <1>3, <2>1 DEF IsMem
<1>8. ASSUME NEW n \in 1 .. l + 1, p + 1 - n >= 0
      PROVE  mem[p + 1 - n] \in {"key", "tab"}
  <2>1. CASE n = 1
    <3>1. p + 1 - n = p
      BY <1>1, <2>1, Areas
    <3> QED
      BY <1>7, <3>1
  <2>2. CASE n # 1
    <3>1. PICK k \in 1 .. l : k = n - 1 /\ p + 1 - n = p - k /\ p - k >= 0 /\ p - k # p
      <4>1. n - 1 \in 1 .. l /\ p + 1 - n = p - (n - 1) /\ p - (n - 1) >= 0 /\ p - (n - 1) # p
        BY <1>1, <1>8, <2>2, Areas
      <4> QED
        BY <4>1
    <3>2. s.mem[0 + (p - k)] \in {"key", "tab"}
      BY <1>1, <3>1 DEF TypedOn, TypedAt
    <3>3. p - k \in Memory /\ 0 + (p - k) = p - k
      BY <1>1, <3>1, Areas, Pages
    <3> QED
      BY <1>7, <3>1, <3>2, <3>3
  <2> QED
    BY <2>1, <2>2
<1>9. Putc(s, c) = Wrapped(put)
  BY <1>2 DEF Putc
<1>10. IsScreen(Wrapped(put)) /\ IsMem(Wrapped(put).mem) /\ Wrapped(put).x < NumCols /\ Wrapped(put).y < NumRows
  BY <1>6, <1>7, WrappedOnScreen, WrappedMem
<1>11. ASSUME NEW n \in 1 .. l + 1, Cell(Wrapped(put).x, Wrapped(put).y) - n >= 0
       PROVE  Wrapped(put).mem[0 + (Cell(Wrapped(put).x, Wrapped(put).y) - n)] \in {"key", "tab"}
  <2>1. CASE x < NumCols
    <3>1. Wrapped(put).x = x /\ Wrapped(put).y = s.y /\ Wrapped(put).mem = mem
      BY <1>0, <1>6, <1>7, <2>1, WrappedMem
    <3>2. Cell(x, s.y) = p + 1
      BY <1>0, <1>1, <1>4, CellIs, Areas, SMTT(30)
    <3>3. p + 1 - n >= 0 /\ 0 + (p + 1 - n) = p + 1 - n
      BY <1>1, <1>11, <3>1, <3>2, Areas
    <3> QED
      BY <1>8, <3>1, <3>2, <3>3
  <2>2. CASE ~(x < NumCols)
    <3>1. x >= NumCols /\ p + 1 = r + NumCols
      <4>1. x = NumCols
        BY <1>0, <1>4, <2>2, Sizes
      <4>2. r \in Int /\ p = r + s.x
        BY <1>1, Areas
      <4> QED
        BY <1>0, <1>4, <4>1, <4>2, Sizes
    <3>2. Wrapped(put).x = 0 /\ Wrapped(put).y = NewLine(put).y /\ Wrapped(put).mem = NewLine(put).mem
      BY <1>6, <1>7, <3>1, WrappedMem
    <3>3. CASE s.y + 1 < NumRows
      <4>1. NewLine(put).mem = mem /\ NewLine(put).y = s.y + 1
        BY <1>6, <1>7, <3>3, NewLineMem
      <4>2. Cell(0, s.y + 1) = p + 1
        <5>1. RowStart(s.y + 1) = r + NumCols
          BY <1>0, <1>1, Rows
        <5>2. Cell(0, s.y + 1) = RowStart(s.y + 1) + 0
          BY CellIs
        <5> QED
          BY <1>1, <3>1, <5>1, <5>2, Areas, Sizes
      <4>3. p + 1 - n >= 0 /\ 0 + (p + 1 - n) = p + 1 - n
        BY <1>1, <1>11, <3>2, <4>1, <4>2, Areas
      <4> QED
        BY <1>8, <3>2, <4>1, <4>2, <4>3
    <3>4. CASE s.y + 1 >= NumRows
      <4>1. /\ NewLine(put).y = NumRows - 1
            /\ \A i \in Memory : NewLine(put).mem[i] =
                 IF i \in LastRow THEN "blank" ELSE IF i < Above THEN mem[i + NumCols] ELSE mem[i]
        BY <1>6, <1>7, <3>4, NewLineMem
      <4>2. s.y = NumRows - 1 /\ r = Above
        BY <1>0, <1>1, <3>4, Rows, Sizes
      <4>3. Cell(0, NumRows - 1) = Above
        <5>1. Cell(0, NumRows - 1) = RowStart(NumRows - 1) + 0
          BY CellIs
        <5> QED
          BY <1>1, <4>2, <5>1, Areas
      <4>4. PICK i \in Memory : i = Above - n /\ i < Above /\ i \notin LastRow /\ i + NumCols = p + 1 - n
        <5>1. Above - n >= 0
          BY <1>11, <3>2, <4>1, <4>3
        <5>2. Above - n \in Memory /\ Above - n < Above /\ Above - n \notin LastRow
          <6>1. PICK k \in Int : k = Above - n /\ k >= 0 /\ k < Above /\ Above \in Nat
            BY <5>1, Areas
          <6>2. k \notin LastRow
            BY <6>1, Areas
          <6>3. k \in Memory
            BY <6>1, Areas, Pages, Sizes
          <6> QED
            BY <6>1, <6>2, <6>3
        <5>3. Above - n + NumCols = p + 1 - n
          BY <3>1, <4>2, Areas, Sizes
        <5> QED
          BY <5>2, <5>3
      <4>5. NewLine(put).mem[i] = mem[p + 1 - n]
        BY <4>1, <4>4
      <4>6. p + 1 - n >= 0 /\ 0 + (Above - n) = i
        BY <4>4, Areas, Pages, Sizes
      <4> QED
        BY <1>8, <3>2, <4>1, <4>3, <4>5, <4>6
    <3> QED
      BY <1>0, <3>3, <3>4, Sizes
  <2> QED
    BY <2>1, <2>2
<1> QED
  BY <1>9, <1>10, <1>11 DEF TypedOn, TypedAt

\* A backspace takes the last character typed away.
LEMMA TypedDeleteC ==
    ASSUME NEW s, NEW l \in Nat, TypedOn(s, l), l > 0
    PROVE  TypedOn(DeleteC(s), l - 1)
<1>0. IsScreen(s) /\ IsMem(s.mem) /\ s.x \in Nat /\ s.y \in Nat /\ s.x < NumCols /\ s.y < NumRows
  BY DEF TypedOn, TypedAt, IsScreen
<1>1. PICK x \in Nat, y \in Nat, p \in Int, q \in Int :
         /\ DeleteC(s).x = x /\ DeleteC(s).y = y
         /\ IsScreen(DeleteC(s)) /\ IsMem(DeleteC(s).mem)
         /\ y <= s.y /\ (x < NumCols \/ x <= s.x)
         /\ p = Cell(s.x, s.y) /\ q = Cell(x, y)
         /\ q = p - 1 \/ (p = 0 /\ q = 0)
         /\ p >= 0
         /\ \A i \in Memory : i # p /\ i # q => DeleteC(s).mem[i] = s.mem[i]
  BY <1>0, DeleteCMem
<1>2. x < NumCols /\ y < NumRows
  BY <1>0, <1>1, Sizes
<1>3. p \in 0 .. Area - 1
  BY <1>0, <1>1, CellOnScreen
<1>4. ASSUME NEW n \in 1 .. l - 1, q - n >= 0
      PROVE  DeleteC(s).mem[0 + (q - n)] \in {"key", "tab"}
  <2>1. PICK k \in 1 .. l, i \in Memory : k = n + 1 /\ i = p - k /\ i = q - n /\ i # p /\ i # q
                                         /\ 0 + (q - n) = i /\ 0 + (p - k) = i
    <3>1. q = p - 1
      BY <1>1, <1>4
    <3>2. n + 1 \in 1 .. l /\ p - (n + 1) = q - n /\ q - n \in 0 .. Area - 1
      BY <1>3, <1>4, <3>1, Areas
    <3>3. q - n \in Memory
      BY <3>2, Areas, Pages
    <3> QED
      BY <1>3, <3>1, <3>2, <3>3, Areas
  <2>2. p - k >= 0
    BY <1>4, <2>1
  <2>3. s.mem[0 + (p - k)] \in {"key", "tab"}
    BY <1>1, <2>1, <2>2 DEF TypedOn, TypedAt
  <2> QED
    BY <1>1, <2>1, <2>3
<1> QED
  BY <1>1, <1>2, <1>4 DEF TypedOn, TypedAt

\* The cells of a saved screen.
LEMMA SavedCell ==
    ASSUME NEW t \in Terminals, NEW x \in Nat, NEW y \in Nat, x < NumCols, y < NumRows,
           NEW n \in Nat, Cell(x, y) - n >= 0
    PROVE  \E k \in 0 .. PageCells - 1, a \in Nat :
              /\ k = Cell(x, y) - n /\ a = PageStart(t) /\ a >= PageCells
              /\ k \in Memory /\ a + k \in Memory /\ a + k >= PageCells /\ a + k \in Saved(t)
              /\ a + k - a = k
              /\ \A u \in Terminals : u # t => a + k \notin Saved(u)
<1>1. PICK c \in 0 .. Area - 1 : c = Cell(x, y) /\ Area <= PageCells /\ Area \in Nat /\ PageCells \in Nat
  BY CellOnScreen
<1>2. PICK k \in 0 .. PageCells - 1 : k = Cell(x, y) - n
  <2>1. c - n \in 0 .. PageCells - 1
    BY <1>1
  <2> QED
    BY <1>1, <2>1
<1>3. PICK a \in Nat, end \in Nat :
        /\ a = PageStart(t) /\ end = MemoryEnd /\ Memory = 0 .. end - 1 /\ PageCells <= end
        /\ Saved(t) = a .. a + PageCells - 1 /\ a + PageCells <= end /\ PageCells <= a
  BY Pages
<1>4. ASSUME NEW u \in Terminals, u # t PROVE a + k \notin Saved(u)
  <2>1. PICK b \in Nat : b = PageStart(u)
    BY Pages
  <2>2. Saved(u) = b .. b + PageCells - 1 /\ (b + PageCells <= a \/ a + PageCells <= b)
    BY <1>3, <1>4, <2>1, Pages
  <2> QED
    BY <1>1, <2>2
<1>5. PICK size \in Nat : size = PageCells /\ k \in 0 .. size - 1 /\ a + size <= end /\ size <= a
  BY <1>1, <1>2, <1>3
<1>6. /\ k \in 0 .. end - 1 /\ a + k \in 0 .. end - 1 /\ a + k >= size /\ a + k - a = k
      /\ a + k \in a .. a + size - 1
  BY <1>5
<1>7. k \in Memory /\ a + k \in Memory /\ a + k >= PageCells /\ a + k \in Saved(t) /\ a >= PageCells
  BY <1>3, <1>5, <1>6
<1> QED
  BY <1>2, <1>3, <1>4, <1>6, <1>7

LEMMA SavedStaysTyped ==
    ASSUME NEW t \in Terminals, NEW x \in Nat, NEW y \in Nat, NEW l \in Nat, NEW mem, NEW mem0,
           TypedAt(mem0, PageStart(t), x, y, l), SameBehind(mem, mem0)
    PROVE  TypedAt(mem, PageStart(t), x, y, l)
<1>1. ASSUME NEW n \in 1 .. l, Cell(x, y) - n >= 0
      PROVE  mem[PageStart(t) + (Cell(x, y) - n)] \in {"key", "tab"}
  <2>1. PICK k \in 0 .. PageCells - 1, a \in Nat :
          /\ k = Cell(x, y) - n /\ a = PageStart(t)
          /\ a + k \in Memory /\ a + k >= PageCells
    BY <1>1, SavedCell DEF TypedAt
  <2>2. mem0[a + k] \in {"key", "tab"}
    BY <1>1, <2>1 DEF TypedAt
  <2> QED
    BY <2>1, <2>2 DEF SameBehind
<1> QED
  BY <1>1 DEF TypedAt

LineTyped(t) == plain[t] /\ line_buffer_location[t] # 0

TypedInv ==
    /\ PageInv
    /\ line_buffer_location = [t \in Terminals |-> line_buffer_location[t]]
    /\ \A t \in Terminals : line_buffer_location[t] \in Nat
    /\ plain = [t \in Terminals |-> plain[t]]
    /\ MidPutc => ~LineTyped(terminal_active_id)
    /\ LineTyped(terminal_active_id) => TypedAt(memory, 0, screen_x, screen_y, Line)
    /\ \A t \in Terminals \ {terminal_active_id} :
         LineTyped(t) => TypedAt(memory, PageStart(t), screen_coord_storage[t].x,
                                 screen_coord_storage[t].y, line_buffer_location[t])

\* What a step leaves to show of the lines.
LinesNext ==
    /\ line_buffer_location' = [t \in Terminals |-> line_buffer_location'[t]]
    /\ \A t \in Terminals : line_buffer_location'[t] \in Nat
    /\ plain' = [t \in Terminals |-> plain'[t]]
    /\ MidPutc' => ~LineTyped(terminal_active_id)'
    /\ LineTyped(terminal_active_id)' => TypedAt(memory', 0, screen_x', screen_y', Line')
    /\ \A t \in Terminals : t # terminal_active_id' =>
         (plain'[t] /\ line_buffer_location'[t] # 0 =>
            TypedAt(memory', PageStart(t), screen_coord_storage'[t].x,
                    screen_coord_storage'[t].y, line_buffer_location'[t]))

\* The lines of the terminals behind stay as long as their screens do.
LEMMA LinesBehind ==
    ASSUME TypedInv, UNCHANGED <<screen_coord_storage, terminal_active_id>>,
           NEW t \in Terminals, t # terminal_active_id,
           plain'[t] => plain[t] /\ SameBehind(memory', memory),
           line_buffer_location'[t] = line_buffer_location[t]
    PROVE  plain'[t] /\ line_buffer_location'[t] # 0 =>
             TypedAt(memory', PageStart(t), screen_coord_storage'[t].x,
                     screen_coord_storage'[t].y, line_buffer_location'[t])
<1> SUFFICES ASSUME plain'[t], line_buffer_location'[t] # 0
             PROVE  TypedAt(memory', PageStart(t), screen_coord_storage'[t].x,
                            screen_coord_storage'[t].y, line_buffer_location'[t])
  OBVIOUS
<1>1. PICK x \in Nat, y \in Nat, l \in Nat : /\ x = screen_coord_storage[t].x
                                             /\ y = screen_coord_storage[t].y
                                             /\ l = line_buffer_location[t]
  BY DEF TypedInv, PageInv, IInv, Stored
<1>2. TypedAt(memory, PageStart(t), x, y, l)
  BY <1>1 DEF TypedInv, LineTyped
<1>3. TypedAt(memory', PageStart(t), x, y, l)
  BY <1>2, SavedStaysTyped
<1> QED
  BY <1>1, <1>3

\* A step after which the line in front is empty or not plain.
LEMMA NotTyped ==
    ASSUME TypedInv, UNCHANGED <<screen_coord_storage, terminal_active_id, line_buffer_location>>,
           plain' = [t \in Terminals |-> plain'[t]], ~LineTyped(terminal_active_id)',
           \A t \in Terminals : t # terminal_active_id =>
              (plain'[t] => plain[t] /\ SameBehind(memory', memory))
    PROVE  LinesNext
<1>1. \A t \in Terminals : t # terminal_active_id =>
         (plain'[t] /\ line_buffer_location'[t] # 0 =>
            TypedAt(memory', PageStart(t), screen_coord_storage'[t].x,
                    screen_coord_storage'[t].y, line_buffer_location'[t]))
  BY LinesBehind
<1> QED
  BY <1>1 DEF LinesNext, TypedInv

\* A step that leaves the lines and the screen alone.
LEMMA SameLines ==
    ASSUME TypedInv, MidPutc' => MidPutc,
           UNCHANGED <<memory, screen_x, screen_y, screen_coord_storage, terminal_active_id, typing>>
    PROVE  LinesNext
BY DEF TypedInv, LinesNext, LineTyped, Line, typing

LEMMA ActiveIs == TypedInv => terminal_active_id \in Terminals
BY DEF TypedInv, PageInv, IInv

LEMMA PutcStepLines ==
    ASSUME TypedInv, PutcStep
    PROVE  LinesNext
<1>0. /\ UNCHANGED <<screen_coord_storage, terminal_active_id, line_buffer_location>>
      /\ terminal_active_id \in Terminals
  BY ActiveIs DEF PutcStep, PutcStart, PutCell, LoadX, StoreX, Wrap, LoadY, StoreY, ZeroX, Full, ScrollCell,
         LoadModX, StoreModX, LoadModY, StoreModY, ArgY, ArgX, Compare, SetX, SetY,
         CursorPosition, Select, CursorLo, CursorHi, At, terminals
<1>1. /\ \/ UNCHANGED memory
         \/ /\ w.pc = "cell"
            /\ \A i \in Memory : i # Cell(screen_x, screen_y) => memory'[i] = memory[i]
         \/ \A i \in Memory : i >= PageCells => memory'[i] = memory[i]
  BY PutcStepMem DEF TypedInv
<1>2. CASE PutcStart
  <2>1. UNCHANGED <<memory, screen_x, screen_y>>
    BY <1>2 DEF PutcStart, screen
  <2>2. CASE Finish
    <3>1. ~MidPutc' /\ UNCHANGED plain
      <4>1. Registers(w', cuts) /\ w'.pc = "rest"
        BY <2>2, DoneRegisters DEF Finish, TypedInv, PageInv, IInv
      <4> QED
        BY <2>2, <4>1 DEF Finish, MidPutc
    <3> QED
      BY <1>0, <2>1, <3>1, SameLines DEF typing
  <2>3. CASE ~Finish
    <3>1. plain' = [plain EXCEPT ![terminal_active_id] = line_buffer_location[terminal_active_id] = 0]
      BY <1>2, <2>3 DEF PutcStart
    <3>2. plain' = [t \in Terminals |-> plain'[t]] /\ ~LineTyped(terminal_active_id)'
      BY <1>0, <3>1 DEF TypedInv, LineTyped
    <3>3. \A t \in Terminals : t # terminal_active_id => plain'[t] = plain[t]
      BY <1>0, <3>1 DEF TypedInv
    <3>4. SameBehind(memory', memory)
      BY <2>1 DEF SameBehind
    <3> QED
      BY <1>0, <3>2, <3>3, <3>4, NotTyped
  <2> QED
    BY <2>2, <2>3
<1>3. CASE PutCell
  <2>1. /\ plain' = [t \in Terminals |-> StillPlain(t)] /\ w.pc = "cell"
        /\ memory' = [memory EXCEPT ![Cell(screen_x, screen_y)] = Head(w.out)]
    BY <1>3 DEF PutCell, At
  <2>2. MidPutc /\ ~LineTyped(terminal_active_id)
    BY <2>1 DEF MidPutc, TypedInv
  <2>3. plain' = [t \in Terminals |-> plain'[t]] /\ ~LineTyped(terminal_active_id)'
    BY <1>0, <2>1, <2>2 DEF LineTyped, StillPlain
  <2>4. OnScreen => SameBehind(memory', memory)
    <3>1. OnScreen => Cell(screen_x, screen_y) \in 0 .. Area - 1
      BY CellOnScreen DEF OnScreen, TypedInv, PageInv, IInv, Position
    <3>2. \A i \in Memory : i >= PageCells => i \notin 0 .. Area - 1
      BY Areas, Pages
    <3> QED
      BY <2>1, <3>1, <3>2 DEF SameBehind, TypedInv, PageInv, IsMem
  <2>5. \A t \in Terminals : t # terminal_active_id =>
              (plain'[t] => plain[t] /\ SameBehind(memory', memory))
    BY <2>1, <2>4 DEF StillPlain
  <2> QED
    BY <1>0, <2>3, <2>5, NotTyped
<1>4. CASE ~PutcStart /\ ~PutCell
  <2>1. w.pc # "rest" /\ w.pc # "cell"
    BY <1>4 DEF PutcStep, LoadX, StoreX, Wrap, LoadY, StoreY, ZeroX, Full, ScrollCell,
         LoadModX, StoreModX, LoadModY, StoreModY, ArgY, ArgX, Compare, SetX, SetY,
         CursorPosition, Select, CursorLo, CursorHi, At
  <2>2. UNCHANGED plain
    BY <1>4 DEF PutcStep, LoadX, StoreX, Wrap, LoadY, StoreY, ZeroX, Full, ScrollCell,
         LoadModX, StoreModX, LoadModY, StoreModY, ArgY, ArgX, Compare, SetX, SetY,
         CursorPosition, Select, CursorLo, CursorHi, Go, Finish
  <2>3. ~LineTyped(terminal_active_id)
    BY <2>1 DEF MidPutc, TypedInv
  <2>4. SameBehind(memory', memory)
    BY <1>1, <2>1 DEF SameBehind
  <2>5. plain' = [t \in Terminals |-> plain'[t]] /\ ~LineTyped(terminal_active_id)'
    BY <1>0, <2>2, <2>3 DEF LineTyped, TypedInv
  <2> QED
    BY <1>0, <2>2, <2>4, <2>5, NotTyped
<1> QED
  BY <1>2, <1>3, <1>4

\* The keys that change the line.
LEMMA TypedLines ==
    ASSUME TypedInv, GoesOn, NEW n \in Int, NEW isPlain, Typed(n, isPlain),
           NEW s, SetScreen(s), EchoMem(s), Line + n \in Nat,
           UNCHANGED <<screen_coord_storage, terminal_active_id>>,
           isPlain /\ Line + n # 0 /\ TypedOn(Screen, Line) => TypedOn(s, Line + n)
    PROVE  LinesNext
<1>0. /\ terminal_active_id \in Terminals /\ IsScreen(Screen) /\ Screen.mem = memory
      /\ Screen.x = screen_x /\ Screen.y = screen_y /\ IsMem(memory)
  BY ActiveIs, ScreenIs DEF TypedInv, PageInv, Screen
<1>1. memory' = s.mem /\ screen_x' = s.x /\ screen_y' = s.y
  BY DEF SetScreen
<1>2. /\ line_buffer_location' = [t \in Terminals |-> line_buffer_location'[t]]
      /\ \A t \in Terminals : line_buffer_location'[t] \in Nat
      /\ Line' = Line + n
      /\ \A t \in Terminals : t # terminal_active_id => line_buffer_location'[t] = line_buffer_location[t]
  <2>1. PICK l \in Nat : l = Line + n
    OBVIOUS
  <2>2. line_buffer_location' = [line_buffer_location EXCEPT ![terminal_active_id] = l]
    BY <2>1 DEF Typed, Line
  <2> QED
    BY <1>0, <2>1, <2>2 DEF TypedInv, Line
<1>3. /\ plain' = [t \in Terminals |-> plain'[t]]
      /\ plain'[terminal_active_id] =>
           Line + n = 0 \/ (plain[terminal_active_id] /\ isPlain /\ ~MidPutc /\ OnScreen)
      /\ \A t \in Terminals : t # terminal_active_id => (plain'[t] => plain[t] /\ OnScreen)
  BY <1>0, Zenon DEF Typed, StillPlain
<1>4. MidPutc' = MidPutc
  BY DEF GoesOn, MidPutc
<1>5. LineTyped(terminal_active_id)' => isPlain /\ ~MidPutc /\ OnScreen /\ plain[terminal_active_id] /\ Line + n # 0
  BY <1>2, <1>3 DEF LineTyped, Line
<1>6. OnScreen /\ plain[terminal_active_id] => TypedOn(Screen, Line)
  <2>1. CASE Line = 0
    BY <1>0, <2>1 DEF TypedOn, TypedAt, OnScreen
  <2>2. CASE Line # 0
    BY <1>0, <2>2 DEF TypedInv, LineTyped, Line, TypedOn
  <2> QED
    BY <2>1, <2>2
<1>7. LineTyped(terminal_active_id)' => TypedAt(memory', 0, screen_x', screen_y', Line')
  BY <1>1, <1>2, <1>5, <1>6 DEF TypedOn
<1>8. OnScreen => SameBehind(memory', memory)
  <2>1. OnScreen => InPage(Screen)
    BY <1>0, OnScreenInPage DEF OnScreen
  <2> QED
    BY <1>1, <2>1 DEF EchoMem
<1>9. \A t \in Terminals : t # terminal_active_id' =>
         (plain'[t] /\ line_buffer_location'[t] # 0 =>
            TypedAt(memory', PageStart(t), screen_coord_storage'[t].x,
                    screen_coord_storage'[t].y, line_buffer_location'[t]))
  BY <1>2, <1>3, <1>8, LinesBehind
<1> QED
  BY <1>2, <1>3, <1>4, <1>5, <1>7, <1>9 DEF LinesNext

LEMMA KeyLines ==
    ASSUME TypedInv,
           \/ \E code \in KeyCodes : TypeKey(code)
           \/ EnterKey \/ Backspace \/ Tab \/ CtrlL
    PROVE  LinesNext
<1>0. /\ GoesOn /\ UNCHANGED <<screen_coord_storage, terminal_active_id>>
      /\ PageInv /\ Line \in Nat /\ BufSize \in Nat /\ BufSize > 1
  BY ActiveIs, ConsoleAssumption
     DEF TypeKey, EnterKey, Backspace, Tab, CtrlL, TypedInv, Line
<1>1. MidPutc' => MidPutc
  BY <1>0 DEF GoesOn, MidPutc
<1>2. ASSUME UNCHANGED <<screen, typing>> PROVE LinesNext
  BY <1>0, <1>1, <1>2, SameLines DEF screen
<1>3. ASSUME NEW code \in KeyCodes, TypeKey(code) PROVE LinesNext
  <2>1. \/ UNCHANGED <<screen, typing>>
        \/ Typed(1, FALSE) /\ SetScreen(Putc(Screen, "nul"))
        \/ Typed(1, TRUE) /\ SetScreen(Putc(Screen, "key"))
    BY <1>3 DEF TypeKey
  <2>2. /\ EchoMem(Putc(Screen, "nul")) /\ EchoMem(Putc(Screen, "key"))
        /\ Line + 1 \in Nat
        /\ TypedOn(Screen, Line) => TypedOn(Putc(Screen, "key"), Line + 1)
    BY <1>0, PutcEchoes, TypedPutc
  <2>3. PICK s1, s2, one : s1 = Putc(Screen, "nul") /\ s2 = Putc(Screen, "key") /\ one = 1 /\ one \in Int
    OBVIOUS
  <2>4. ASSUME Typed(one, FALSE), SetScreen(s1) PROVE LinesNext
    BY <1>0, <2>2, <2>3, <2>4, TypedLines
  <2>5. ASSUME Typed(one, TRUE), SetScreen(s2) PROVE LinesNext
    BY <1>0, <2>2, <2>3, <2>5, TypedLines
  <2> QED
    BY <1>2, <2>1, <2>3, <2>4, <2>5
<1>4. CASE EnterKey
  <2>1. \/ UNCHANGED <<screen, typing>>
        \/ \E n \in {1, 2} : Typed(n, FALSE) /\ \E s : EchoMem(s) /\ SetScreen(s)
    BY <1>0, <1>4, PutcEchoes, PutcsEcho DEF EnterKey
  <2>2. ASSUME NEW n \in {1, 2}, Typed(n, FALSE), NEW s, EchoMem(s), SetScreen(s) PROVE LinesNext
    <3>1. n \in Int /\ Line + n \in Nat
      BY <1>0
    <3> QED
      BY <1>0, <2>2, <3>1, TypedLines
  <2> QED
    BY <1>2, <2>1, <2>2
<1>5. CASE Backspace
  <2>1. \/ UNCHANGED <<screen, typing>>
        \/ Line # 0 /\ Typed(-1, TRUE) /\ SetScreen(DeleteC(Screen))
    BY <1>5 DEF Backspace
  <2>2. Line # 0 => -1 \in Int /\ Line + -1 \in Nat /\ Line + -1 = Line - 1 /\ Line > 0
    BY <1>0
  <2>3. Line # 0 /\ TypedOn(Screen, Line) => TypedOn(DeleteC(Screen), Line + -1)
    BY <1>0, <2>2, TypedDeleteC
  <2> QED
    BY <1>0, <1>2, <2>1, <2>2, <2>3, DeleteCEchoes, TypedLines
<1>6. CASE Tab
  <2> DEFINE room == IF Line > BufSize - 1 THEN 0 ELSE BufSize - 1 - Line
             n == IF room < 4 THEN room ELSE 4
  <2>1. Typed(n, n = 4) /\ SetScreen(Putc(Putc(Putc(Putc(Screen, "tab"), "tab"), "tab"), "tab"))
    BY <1>6 DEF Tab
  <2>2. n \in Nat
    BY <1>0
  <2> HIDE DEF n
  <2>3. ASSUME TypedOn(Screen, Line), n = 4
        PROVE  TypedOn(Putc(Putc(Putc(Putc(Screen, "tab"), "tab"), "tab"), "tab"), Line + n)
    <3>1. PICK t1, t2, t3, t4 : /\ t1 = Putc(Screen, "tab") /\ t2 = Putc(t1, "tab")
                                /\ t3 = Putc(t2, "tab") /\ t4 = Putc(t3, "tab")
      OBVIOUS
    <3>2. PICK l1, l2, l3, l4 \in Nat : /\ l1 = Line + 1 /\ l2 = l1 + 1 /\ l3 = l2 + 1 /\ l4 = l3 + 1
                                        /\ l4 = Line + n
      BY <1>0, <2>3
    <3>3. TypedOn(t1, l1)
      BY <1>0, <2>3, <3>1, <3>2, TypedPutc
    <3>4. TypedOn(t2, l2)
      BY <3>1, <3>2, <3>3, TypedPutc
    <3>5. TypedOn(t3, l3)
      BY <3>1, <3>2, <3>4, TypedPutc
    <3>6. TypedOn(t4, l4)
      BY <3>1, <3>2, <3>5, TypedPutc
    <3> QED
      BY <3>1, <3>2, <3>6
  <2>4. n \in Int /\ Line + n \in Nat
    BY <1>0, <2>2
  <2>5. EchoMem(Putc(Putc(Putc(Putc(Screen, "tab"), "tab"), "tab"), "tab"))
    BY <1>0, PutcsEcho
  <2> QED
    BY <1>0, <2>1, <2>3, <2>4, <2>5, TypedLines
<1>7. CASE CtrlL
  <2>1. Typed(0, FALSE) /\ SetScreen(Located([Screen EXCEPT !.mem = Clear(memory)], 0, 0))
    BY <1>7 DEF CtrlL
  <2>2. EchoMem(Located([Screen EXCEPT !.mem = Clear(memory)], 0, 0)) /\ Line + 0 \in Nat
    BY <1>0, ClearEchoes
  <2>3. PICK s : s = Located([Screen EXCEPT !.mem = Clear(memory)], 0, 0)
    OBVIOUS
  <2>4. PICK none \in Int : none = 0
    OBVIOUS
  <2>5. Typed(none, FALSE) /\ SetScreen(s) /\ EchoMem(s)
    BY <2>1, <2>2, <2>3, <2>4
  <2>6. Line + none \in Nat
    BY <1>0, <2>4
  <2> QED
    BY <1>0, <2>5, <2>6, TypedLines
<1> QED
  BY <1>3, <1>4, <1>5, <1>6, <1>7

LEMMA AltFLines ==
    ASSUME TypedInv, NEW t \in Terminals, AltF(t)
    PROVE  LinesNext
<1>0. PageInv /\ terminal_active_id \in Terminals
  BY ActiveIs DEF TypedInv
<1>1. CASE t = terminal_active_id
  <2>1. GoesOn /\ UNCHANGED <<screen, terminals, plain, line_buffer_location>>
    BY <1>1 DEF AltF
  <2>2. MidPutc' => MidPutc
    BY <2>1 DEF GoesOn, MidPutc
  <2> QED
    BY <2>1, <2>2, SameLines DEF screen, terminals, typing
<1>2. CASE t # terminal_active_id
  <2>1. /\ memory' = Swapped(terminal_active_id, t)
        /\ screen_x' = screen_coord_storage[t].x /\ screen_y' = screen_coord_storage[t].y
        /\ terminal_active_id' = t
        /\ \A u \in Terminals : screen_coord_storage'[u] =
             IF u = terminal_active_id THEN [x |-> screen_x, y |-> screen_y] ELSE screen_coord_storage[u]
    BY <1>0, <1>2, AltFMem
  <2>2. /\ plain' = [plain EXCEPT ![t] = @ /\ ~dirty']
        /\ dirty' = MidPutc' /\ UNCHANGED line_buffer_location
    BY <1>2, Zenon DEF AltF, MidPutc
  <2>3. /\ plain' = [u \in Terminals |-> plain'[u]]
        /\ plain'[t] => plain[t] /\ ~MidPutc'
        /\ \A u \in Terminals : u # t => plain'[u] = plain[u]
    BY <2>2 DEF TypedInv
  <2>4. /\ \A i \in Memory : i < PageCells => memory'[i] = memory[i + PageStart(t)]
        /\ \A i \in Memory : i >= PageCells =>
             memory'[i] = IF i \in Saved(terminal_active_id)
                            THEN memory[i - PageStart(terminal_active_id)] ELSE memory[i]
    BY <1>0, <1>2, <2>1, SwappedMem DEF PageInv
  <2>5. ASSUME LineTyped(terminal_active_id)'
        PROVE  TypedAt(memory', 0, screen_x', screen_y', Line')
    <3>1. PICK x \in Nat, y \in Nat, l \in Nat :
            /\ x = screen_coord_storage[t].x /\ y = screen_coord_storage[t].y
            /\ l = line_buffer_location[t]
      BY DEF TypedInv, PageInv, IInv, Stored
    <3>2. LineTyped(t)
      BY <2>1, <2>2, <2>3, <2>5 DEF LineTyped
    <3>3. TypedAt(memory, PageStart(t), x, y, l)
      BY <1>2, <3>1, <3>2 DEF TypedInv
    <3>4. ASSUME NEW n \in 1 .. l, Cell(x, y) - n >= 0
          PROVE  memory'[0 + (Cell(x, y) - n)] \in {"key", "tab"}
      <4>1. PICK k \in 0 .. PageCells - 1, a \in Nat :
              /\ k = Cell(x, y) - n /\ a = PageStart(t) /\ k \in Memory
        BY <3>3, <3>4, SavedCell DEF TypedAt
      <4>2. memory[a + k] \in {"key", "tab"}
        BY <3>3, <3>4, <4>1 DEF TypedAt
      <4>3. k < PageCells /\ 0 + k = k /\ k + a = a + k
        BY <4>1, Areas
      <4>4. memory'[k] = memory[a + k]
        BY <2>4, <4>1, <4>3
      <4> QED
        BY <4>1, <4>2, <4>3, <4>4
    <3>5. Line' = l /\ screen_x' = x /\ screen_y' = y
      BY <2>1, <2>2, <3>1 DEF Line
    <3> QED
      BY <3>3, <3>4, <3>5 DEF TypedAt
  <2>6. ASSUME NEW u \in Terminals, u # t, plain'[u], line_buffer_location'[u] # 0
        PROVE  TypedAt(memory', PageStart(u), screen_coord_storage'[u].x,
                       screen_coord_storage'[u].y, line_buffer_location'[u])
    <3>0. LineTyped(u)
      BY <2>2, <2>3, <2>6 DEF LineTyped
    <3>1. CASE u = terminal_active_id
      <4>1. PICK x \in Nat, y \in Nat, l \in Nat :
              /\ x = screen_x /\ y = screen_y /\ l = line_buffer_location[u]
        BY DEF TypedInv, PageInv, IInv, Position
      <4>2. TypedAt(memory, 0, x, y, l)
        BY <3>0, <3>1, <4>1 DEF TypedInv, Line
      <4>3. ASSUME NEW n \in 1 .. l, Cell(x, y) - n >= 0
            PROVE  memory'[PageStart(u) + (Cell(x, y) - n)] \in {"key", "tab"}
        <5>1. PICK k \in 0 .. PageCells - 1, a \in Nat :
                /\ k = Cell(x, y) - n /\ a = PageStart(u)
                /\ a + k \in Memory /\ a + k >= PageCells /\ a + k \in Saved(u) /\ a + k - a = k
          BY <4>2, <4>3, SavedCell DEF TypedAt
        <5>2. memory[0 + k] \in {"key", "tab"} /\ 0 + k = k
          <6>1. memory[0 + (Cell(x, y) - n)] \in {"key", "tab"}
            BY <4>2, <4>3 DEF TypedAt
          <6> QED
            BY <5>1, <6>1, Areas
        <5>3. memory'[a + k] = memory[k]
          BY <2>4, <3>1, <5>1
        <5> QED
          BY <5>1, <5>2, <5>3
      <4>4. screen_coord_storage'[u].x = x /\ screen_coord_storage'[u].y = y
        BY <2>1, <3>1, <4>1
      <4> QED
        BY <2>2, <4>1, <4>2, <4>3, <4>4 DEF TypedAt
    <3>2. CASE u # terminal_active_id
      <4>1. PICK x \in Nat, y \in Nat, l \in Nat :
              /\ x = screen_coord_storage[u].x /\ y = screen_coord_storage[u].y
              /\ l = line_buffer_location[u]
        BY DEF TypedInv, PageInv, IInv, Stored
      <4>2. TypedAt(memory, PageStart(u), x, y, l)
        BY <3>0, <3>2, <4>1 DEF TypedInv
      <4>3. ASSUME NEW n \in 1 .. l, Cell(x, y) - n >= 0
            PROVE  memory'[PageStart(u) + (Cell(x, y) - n)] \in {"key", "tab"}
        <5>1. PICK k \in 0 .. PageCells - 1, a \in Nat :
                /\ k = Cell(x, y) - n /\ a = PageStart(u)
                /\ a + k \in Memory /\ a + k >= PageCells
                /\ \A v \in Terminals : v # u => a + k \notin Saved(v)
          BY <4>2, <4>3, SavedCell DEF TypedAt
        <5>2. memory[a + k] \in {"key", "tab"}
          BY <4>2, <4>3, <5>1 DEF TypedAt
        <5>3. memory'[a + k] = memory[a + k]
          BY <1>0, <2>4, <3>2, <5>1
        <5> QED
          BY <5>1, <5>2, <5>3
      <4>4. screen_coord_storage'[u].x = x /\ screen_coord_storage'[u].y = y
        BY <2>1, <3>2, <4>1
      <4> QED
        BY <2>2, <4>1, <4>2, <4>3, <4>4 DEF TypedAt
    <3> QED
      BY <3>1, <3>2
  <2>7. MidPutc' => ~LineTyped(terminal_active_id)'
    BY <2>1, <2>3 DEF LineTyped
  <2> QED
    BY <2>1, <2>2, <2>3, <2>5, <2>6, <2>7 DEF LinesNext, TypedInv
<1> QED
  BY <1>1, <1>2

LEMMA StepLines == TypedInv /\ [Next]_vars => LinesNext
<1> SUFFICES ASSUME TypedInv, [Next]_vars PROVE LinesNext
  OBVIOUS
<1>1. ASSUME NEW text \in Texts, Write(text) PROVE LinesNext
  <2>1. w' = Writing(text)
    BY <1>1 DEF Write
  <2>2. ~MidPutc'
    BY <2>1 DEF MidPutc, Writing, Idle
  <2> QED
    BY <1>1, <2>2, SameLines DEF Write, screen, terminals, typing
<1>2. CASE CtrlC
  <2>1. ~MidPutc'
    BY <1>2 DEF CtrlC, MidPutc, Idle
  <2> QED
    BY <1>2, <2>1, SameLines DEF CtrlC, screen, terminals, typing
<1>3. CASE ReadLine
  <2>1. terminal_active_id \in Terminals
    BY ActiveIs
  <2>2. /\ line_buffer_location' = [line_buffer_location EXCEPT ![terminal_active_id] = 0]
        /\ plain' = [plain EXCEPT ![terminal_active_id] = TRUE]
        /\ UNCHANGED <<screen, terminals, w>>
    BY <1>3 DEF ReadLine
  <2>3. /\ line_buffer_location' = [t \in Terminals |-> line_buffer_location'[t]]
        /\ \A t \in Terminals : line_buffer_location'[t] \in Nat
        /\ plain' = [t \in Terminals |-> plain'[t]]
        /\ line_buffer_location'[terminal_active_id] = 0
        /\ \A t \in Terminals : t # terminal_active_id =>
              plain'[t] = plain[t] /\ line_buffer_location'[t] = line_buffer_location[t]
    BY <2>1, <2>2 DEF TypedInv
  <2>4. ~LineTyped(terminal_active_id)' /\ UNCHANGED <<terminal_active_id, screen_coord_storage, memory>>
    BY <2>2, <2>3 DEF LineTyped, terminals, screen
  <2>5. SameBehind(memory', memory)
    BY <2>4 DEF SameBehind
  <2>6. \A t \in Terminals : t # terminal_active_id' =>
         (plain'[t] /\ line_buffer_location'[t] # 0 =>
            TypedAt(memory', PageStart(t), screen_coord_storage'[t].x,
                    screen_coord_storage'[t].y, line_buffer_location'[t]))
    BY <2>3, <2>4, <2>5, LinesBehind
  <2> QED
    BY <2>3, <2>4, <2>6 DEF LinesNext
<1>4. CASE UNCHANGED vars
  <2>1. MidPutc' => MidPutc
    BY <1>4 DEF vars, MidPutc
  <2> QED
    BY <1>4, <2>1, SameLines DEF vars, screen, terminals, typing
<1> QED
  BY <1>1, <1>2, <1>3, <1>4, PutcStepLines, KeyLines, AltFLines DEF Next

LEMMA TypedInductive == TypedInv /\ [Next]_vars => TypedInv'
<1>1. TypedInv /\ [Next]_vars => PageInv' /\ LinesNext
  BY PageInductive, StepLines DEF TypedInv
<1> QED
  BY <1>1 DEF LinesNext, TypedInv, LineTyped

LEMMA TypedInitially == Init => TypedInv
<1> SUFFICES ASSUME Init PROVE TypedInv
  OBVIOUS
<1>1. /\ line_buffer_location = [t \in Terminals |-> 0]
      /\ plain = [t \in Terminals |-> TRUE]
  BY DEF Init
<1>2. \A t \in Terminals : ~LineTyped(t)
  BY <1>1 DEF LineTyped
<1>3. terminal_active_id \in Terminals
  BY Initially DEF IInv
<1> QED
  BY <1>1, <1>2, <1>3, PageInitially DEF TypedInv

\* What stands before the cursor is the line that a backspace edits, on a
\* screen of any size, with any keys, tabs and rubouts, over the ends of rows
\* and scrolls, and on a terminal that was left and fetched again: `plain` says
\* of which lines.
THEOREM BackspaceSeesLine == Spec => []TypedBeforeCursor
<1>1. TypedInv => TypedBeforeCursor
  <2> SUFFICES ASSUME TypedInv, plain[terminal_active_id],
                      NEW n \in 1 .. Line, Cell(screen_x, screen_y) - n >= 0
               PROVE  memory[Cell(screen_x, screen_y) - n] \in {"key", "tab"}
    BY Zenon DEF TypedBeforeCursor
  <2>1. Line \in Nat /\ Line # 0
    BY ActiveIs DEF TypedInv, Line
  <2>2. TypedAt(memory, 0, screen_x, screen_y, Line)
    BY <2>1 DEF TypedInv, LineTyped, Line
  <2>3. PICK k \in Int : k = Cell(screen_x, screen_y) - n /\ 0 + k = k
    <3>1. Cell(screen_x, screen_y) \in Int
      BY Sizes DEF TypedInv, PageInv, IInv, Position, Cell
    <3> QED
      BY <2>1, <3>1
  <2> QED
    BY <2>2, <2>3 DEF TypedAt
<1> QED
  BY <1>1, TypedInitially, TypedInductive, PTL DEF Spec

-----------------------------------------------------------------------------
(* The screen as text: what the operators on screens do to the rows that    *)
(* are shown.                                                               *)

Glyph(mem, p) == IF mem[p] = "nul" THEN "blank" ELSE mem[p]

RowsAt(mem, base) == [j \in 0 .. NumRows - 1 |-> [i \in 0 .. NumCols - 1 |-> Glyph(mem, base + Cell(i, j))]]

Shows(s) == [rows |-> RowsAt(s.mem, 0), x |-> s.x, y |-> s.y]

LEMMA TextIs ==
    ASSUME NEW mem, NEW base, NEW x, NEW y
    PROVE  Text(mem, base, x, y) = [rows |-> RowsAt(mem, base), x |-> x, y |-> y]
BY DEF Text, RowsAt, Glyph

\* A screen with its position in the rows.
OnIt(s) == IsScreen(s) /\ IsMem(s.mem) /\ s.x < NumCols /\ s.y < NumRows

\* The cursor stands at the position.
Placed(s) == s.crt = Cursor(Cell(s.x, s.y))

LEMMA RowsApart ==
    ASSUME NEW a \in Nat, NEW b \in Nat, a < b
    PROVE  RowStart(a) \in Nat /\ RowStart(b) \in Nat /\ RowStart(a) + NumCols <= RowStart(b)
<1>1. PICK k \in Nat : b = a + 1 + k
  <2>1. b - a - 1 \in Nat /\ b = a + 1 + (b - a - 1)
    OBVIOUS
  <2> QED
    BY <2>1
<1>2. NumCols * b = NumCols * a + NumCols + NumCols * k
  BY <1>1, Sizes
<1>3. NumCols * k \in Nat /\ NumCols * a \in Nat /\ NumCols * b \in Nat
  BY Sizes
<1> QED
  BY <1>2, <1>3, Sizes DEF RowStart

LEMMA CellsApart ==
    ASSUME NEW i \in 0 .. NumCols - 1, NEW j \in 0 .. NumRows - 1,
           NEW x \in 0 .. NumCols - 1, NEW y \in 0 .. NumRows - 1, Cell(i, j) = Cell(x, y)
    PROVE  i = x /\ j = y
<1>0. i \in Nat /\ j \in Nat /\ x \in Nat /\ y \in Nat /\ i < NumCols /\ x < NumCols
  BY Sizes
<1>1. PICK a \in Nat, b \in Nat : a = RowStart(j) /\ b = RowStart(y) /\ a + i = b + x
  <2>1. RowStart(j) \in Nat /\ RowStart(y) \in Nat
    BY Rows, Areas
  <2>2. RowStart(j) + i = RowStart(y) + x
    BY CellIs
  <2> QED
    BY <2>1, <2>2
<1>2. ~(j < y)
  <2>1. j < y => a + NumCols <= b
    BY <1>0, <1>1, RowsApart
  <2> QED
    BY <1>0, <1>1, <2>1, Sizes
<1>3. ~(y < j)
  <2>1. y < j => b + NumCols <= a
    BY <1>0, <1>1, RowsApart
  <2> QED
    BY <1>0, <1>1, <2>1, Sizes
<1>4. j = y
  BY <1>0, <1>2, <1>3
<1> QED
  BY <1>0, <1>1, <1>4

\* The cells that are shown.
LEMMA CellShown ==
    ASSUME NEW i \in 0 .. NumCols - 1, NEW j \in 0 .. NumRows - 1
    PROVE  /\ Cell(i, j) \in 0 .. Area - 1 /\ Cell(i, j) \in Memory /\ 0 + Cell(i, j) = Cell(i, j)
           /\ Cell(i, j) \in Shown
<1>1. i \in Nat /\ j \in Nat /\ i < NumCols /\ j < NumRows
  BY Sizes
<1>2. Cell(i, j) \in 0 .. Area - 1
  BY <1>1, CellOnScreen
<1> QED
  BY <1>2, Areas, Pages

\* Texts are what their cells show.
LEMMA SameRows ==
    ASSUME NEW mem, NEW base, NEW mem0, NEW base0,
           \A i \in 0 .. NumCols - 1 : \A j \in 0 .. NumRows - 1 :
              mem[base + Cell(i, j)] = mem0[base0 + Cell(i, j)]
    PROVE  RowsAt(mem, base) = RowsAt(mem0, base0)
BY DEF RowsAt, Glyph

\* A character in a cell.
WithGlyph(rows, x, y, c) == [rows EXCEPT ![y][x] = c]

LEMMA RowsPut ==
    ASSUME NEW mem0, NEW mem, NEW x \in 0 .. NumCols - 1, NEW y \in 0 .. NumRows - 1, NEW c, c # "nul",
           \A p \in Memory : mem[p] = IF p = Cell(x, y) THEN c ELSE mem0[p]
    PROVE  RowsAt(mem, 0) = WithGlyph(RowsAt(mem0, 0), x, y, c)
<1>1. ASSUME NEW j \in 0 .. NumRows - 1, NEW i \in 0 .. NumCols - 1
      PROVE  Glyph(mem, 0 + Cell(i, j)) = IF j = y /\ i = x THEN c ELSE Glyph(mem0, 0 + Cell(i, j))
  <2>1. PICK p \in Memory : p = 0 + Cell(i, j) /\ p = Cell(i, j)
    BY CellShown
  <2>2. p = Cell(x, y) <=> (j = y /\ i = x)
    BY <2>1, CellsApart
  <2>3. mem[p] = IF j = y /\ i = x THEN c ELSE mem0[p]
    BY <2>2
  <2> QED
    BY <2>1, <2>3 DEF Glyph
<1> DEFINE G(j, i) == Glyph(mem0, 0 + Cell(i, j))
           H(j, i) == Glyph(mem, 0 + Cell(i, j))
<1>2. /\ RowsAt(mem, 0) = [j \in 0 .. NumRows - 1 |-> [i \in 0 .. NumCols - 1 |-> H(j, i)]]
      /\ RowsAt(mem0, 0) = [j \in 0 .. NumRows - 1 |-> [i \in 0 .. NumCols - 1 |-> G(j, i)]]
  BY DEF RowsAt
<1>3. \A j \in 0 .. NumRows - 1 : \A i \in 0 .. NumCols - 1 :
         H(j, i) = IF j = y /\ i = x THEN c ELSE G(j, i)
  BY <1>1
<1> HIDE DEF G, H
<1>4. [i \in 0 .. NumCols - 1 |-> H(y, i)] = [[i \in 0 .. NumCols - 1 |-> G(y, i)] EXCEPT ![x] = c]
  BY <1>3
<1>5. \A j \in 0 .. NumRows - 1 : j # y =>
         [i \in 0 .. NumCols - 1 |-> H(j, i)] = [i \in 0 .. NumCols - 1 |-> G(j, i)]
  BY <1>3
<1> DEFINE K(j) == [i \in 0 .. NumCols - 1 |-> H(j, i)]
           L(j) == [i \in 0 .. NumCols - 1 |-> G(j, i)]
<1>6. /\ RowsAt(mem, 0) = [j \in 0 .. NumRows - 1 |-> K(j)]
      /\ RowsAt(mem0, 0) = [j \in 0 .. NumRows - 1 |-> L(j)]
      /\ K(y) = [L(y) EXCEPT ![x] = c]
      /\ \A j \in 0 .. NumRows - 1 : j # y => K(j) = L(j)
  BY <1>2, <1>4, <1>5
<1> HIDE DEF K, L
<1>7. PICK rows0, row : rows0 = RowsAt(mem0, 0) /\ row = [L(y) EXCEPT ![x] = c]
  OBVIOUS
<1>8. rows0[y] = L(y)
  BY <1>6, <1>7
<1>9. RowsAt(mem, 0) = [rows0 EXCEPT ![y] = row]
  <2>1. PICK rows : rows = RowsAt(mem, 0)
    OBVIOUS
  <2>2. /\ rows = [j \in 0 .. NumRows - 1 |-> rows[j]]
        /\ rows0 = [j \in 0 .. NumRows - 1 |-> rows0[j]]
    BY <1>7, <2>1 DEF RowsAt
  <2>3. \A j \in 0 .. NumRows - 1 : rows[j] = K(j) /\ rows0[j] = L(j)
    BY <1>6, <1>7, <2>1
  <2>4. \A j \in 0 .. NumRows - 1 : rows[j] = IF j = y THEN row ELSE rows0[j]
    BY <1>6, <1>7, <2>3, ZenonT(40)
  <2>5. rows = [rows0 EXCEPT ![y] = row]
    BY <2>2, <2>4
  <2> QED
    BY <2>1, <2>5
<1>10. [rows0 EXCEPT ![y][x] = c] = [rows0 EXCEPT ![y] = row]
  BY <1>7, <1>8
<1> QED
  BY <1>7, <1>9, <1>10 DEF WithGlyph

\* A row up.
LEMMA RowsUp ==
    ASSUME NEW mem0, NEW mem,
           \A p \in Memory : mem[p] =
              IF p \in LastRow THEN "blank" ELSE IF p < Above THEN mem0[p + NumCols] ELSE mem0[p]
    PROVE  RowsAt(mem, 0) = [j \in DOMAIN RowsAt(mem0, 0) |->
                               IF j < NumRows - 1 THEN RowsAt(mem0, 0)[j + 1] ELSE Teletype!BlankRow]
<1>1. ASSUME NEW j \in 0 .. NumRows - 1, NEW i \in 0 .. NumCols - 1
      PROVE  Glyph(mem, 0 + Cell(i, j)) = IF j < NumRows - 1 THEN Glyph(mem0, 0 + Cell(i, j + 1)) ELSE "blank"
  <2>1. PICK p \in Memory : p = 0 + Cell(i, j) /\ p = Cell(i, j) /\ p \in 0 .. Area - 1
    BY CellShown
  <2>2. PICK r \in 0 .. Above : r = RowStart(j) /\ p = r + i
    BY <2>1, Rows, CellIs
  <2>3. CASE j < NumRows - 1
    <3>1. j + 1 \in 0 .. NumRows - 1
      BY <2>3, Sizes
    <3>2. PICK q \in Memory : q = 0 + Cell(i, j + 1) /\ q = Cell(i, j + 1)
      BY <3>1, CellShown
    <3>3. RowStart(j + 1) = r + NumCols /\ RowStart(j + 1) \in 0 .. Above
      BY <2>2, <3>1, Rows
    <3>4. q = RowStart(j + 1) + i
      BY <3>2, CellIs
    <3>5. p + NumCols = q /\ p < Above
      BY <2>1, <2>2, <3>3, <3>4, Sizes, Areas, SMTT(30)
    <3>6. p \notin LastRow
      BY <2>1, <3>5, Areas
    <3>7. mem[p] = mem0[q]
      BY <3>5, <3>6
    <3> QED
      BY <2>1, <2>3, <3>2, <3>7 DEF Glyph
  <2>4. CASE ~(j < NumRows - 1)
    <3>1. j = NumRows - 1
      BY <2>4, Sizes
    <3>2. r = Above
      BY <2>2, <3>1, Rows
    <3>3. p \in LastRow
      BY <2>1, <2>2, <3>2, Areas
    <3> QED
      BY <2>1, <2>4, <3>3 DEF Glyph
  <2> QED
    BY <2>3, <2>4
<1> DEFINE G(j, i) == Glyph(mem0, 0 + Cell(i, j))
           H(j, i) == Glyph(mem, 0 + Cell(i, j))
<1>2. /\ RowsAt(mem, 0) = [j \in 0 .. NumRows - 1 |-> [i \in 0 .. NumCols - 1 |-> H(j, i)]]
      /\ RowsAt(mem0, 0) = [j \in 0 .. NumRows - 1 |-> [i \in 0 .. NumCols - 1 |-> G(j, i)]]
      /\ Teletype!BlankRow = [i \in 0 .. NumCols - 1 |-> "blank"]
  BY DEF RowsAt, Teletype!BlankRow
<1>3. \A j \in 0 .. NumRows - 1 : \A i \in 0 .. NumCols - 1 :
         H(j, i) = IF j < NumRows - 1 THEN G(j + 1, i) ELSE "blank"
  BY <1>1
<1>4. \A j \in 0 .. NumRows - 1 : j < NumRows - 1 => j + 1 \in 0 .. NumRows - 1
  BY Sizes
<1> HIDE DEF G, H
<1>5. \A j \in 0 .. NumRows - 1 : j < NumRows - 1 => RowsAt(mem0, 0)[j + 1] = [i \in 0 .. NumCols - 1 |-> G(j + 1, i)]
  BY <1>2, <1>4
<1>6. \A j \in 0 .. NumRows - 1 :
         [i \in 0 .. NumCols - 1 |-> H(j, i)] =
            IF j < NumRows - 1 THEN RowsAt(mem0, 0)[j + 1] ELSE Teletype!BlankRow
  <2>1. ASSUME NEW j \in 0 .. NumRows - 1, j < NumRows - 1
        PROVE  [i \in 0 .. NumCols - 1 |-> H(j, i)] = RowsAt(mem0, 0)[j + 1]
    <3>1. \A i \in 0 .. NumCols - 1 : H(j, i) = G(j + 1, i)
      BY <1>3, <2>1
    <3> QED
      BY <1>5, <2>1, <3>1
  <2>2. ASSUME NEW j \in 0 .. NumRows - 1, ~(j < NumRows - 1)
        PROVE  [i \in 0 .. NumCols - 1 |-> H(j, i)] = Teletype!BlankRow
    BY <1>2, <1>3, <2>2
  <2> QED
    BY <2>1, <2>2
<1>7. DOMAIN RowsAt(mem0, 0) = 0 .. NumRows - 1
  BY <1>2
<1> QED
  BY <1>2, <1>6, <1>7

\* Setting the position sets the cursor.
LEMMA LocatedPlaced ==
    ASSUME NEW s, IsScreen(s), NEW x \in Nat, NEW y \in Nat
    PROVE  Placed(Located(s, x, y))
<1>1. PICK cursor : cursor = Cursor(Cell(x, y))
  OBVIOUS
<1>2. PICK z : z = Located(s, x, y)
  OBVIOUS
<1>3. z = [s EXCEPT !.x = x, !.y = y, !.crt = cursor]
  BY <1>1, <1>2 DEF Located
<1>4. z.crt = cursor /\ z.x = x /\ z.y = y
  BY <1>3 DEF IsScreen
<1> QED
  BY <1>1, <1>2, <1>4 DEF Placed

LEMMA NewLinePlaced ==
    ASSUME NEW s, IsScreen(s)
    PROVE  Placed(NewLine(s))
<1>0. PICK y \in Nat : y = s.y + 1
  BY DEF IsScreen
<1>1. PICK below : below = [s EXCEPT !.x = 0, !.y = @ + 1]
  OBVIOUS
<1>2. IsScreen(below)
  <2>1. below = [s EXCEPT !.x = 0, !.y = y]
    BY <1>0, <1>1
  <2> QED
    BY <2>1 DEF IsScreen
<1>3. PICK there : there = IF below.y >= NumRows THEN Scrolled(below) ELSE below
  OBVIOUS
<1>4. IsScreen(there) /\ there.x \in Nat /\ there.y \in Nat
  BY <1>2, <1>3, ScrolledAt, Sizes DEF IsScreen
<1>5. NewLine(s) = Located(there, there.x, there.y)
  BY <1>1, <1>3, Zenon DEF NewLine
<1> QED
  BY <1>4, <1>5, LocatedPlaced

LEMMA WrappedPlaced ==
    ASSUME NEW s, IsScreen(s)
    PROVE  Placed(Wrapped(s))
<1>1. PICK next : next = IF s.x >= NumCols THEN NewLine(s) ELSE s
  OBVIOUS
<1>2. IsScreen(next)
  BY <1>1, NewLineOnScreen
<1>3. Wrapped(s) = Located(next, next.x % NumCols, next.y % NumRows)
  BY <1>1, Zenon DEF Wrapped
<1>4. next.x % NumCols \in Nat /\ next.y % NumRows \in Nat
  BY <1>2, Sizes, ModBounded DEF IsScreen
<1> QED
  BY <1>2, <1>3, <1>4, LocatedPlaced

\* A newline is a line feed, wherever in its row it comes.
LEMMA NewLineShows ==
    ASSUME NEW s, IsScreen(s), IsMem(s.mem), s.y < NumRows, NEW x
    PROVE  Shows(NewLine(s)) = Teletype!LineFeed([rows |-> RowsAt(s.mem, 0), x |-> x, y |-> s.y])
<1>0. PICK y, rows0 : y = s.y /\ y \in Nat /\ rows0 = RowsAt(s.mem, 0)
  BY DEF IsScreen
<1>1. PICK z : z = NewLine(s)
  OBVIOUS
<1>2. z.x = 0
  BY <1>1, NewLineOnScreen
<1>3. CASE y < NumRows - 1
  <2>1. z.mem = s.mem /\ z.y = y + 1
    <3>1. s.y + 1 < NumRows
      BY <1>0, <1>3, Sizes
    <3> QED
      BY <1>0, <1>1, <3>1, NewLineMem
  <2>2. Shows(z) = [rows |-> rows0, x |-> 0, y |-> y + 1]
    BY <1>0, <1>2, <2>1 DEF Shows
  <2>3. Teletype!LineFeed([rows |-> rows0, x |-> x, y |-> y]) = [rows |-> rows0, x |-> 0, y |-> y + 1]
    BY <1>3 DEF Teletype!LineFeed
  <2> QED
    BY <1>0, <1>1, <2>2, <2>3
<1>4. CASE ~(y < NumRows - 1)
  <2>1. y = NumRows - 1
    BY <1>0, <1>4, Sizes
  <2>2. /\ z.y = NumRows - 1
        /\ \A i \in Memory : z.mem[i] =
             IF i \in LastRow THEN "blank" ELSE IF i < Above THEN s.mem[i + NumCols] ELSE s.mem[i]
    <3>1. s.y + 1 >= NumRows
      BY <1>0, <2>1, Sizes
    <3> QED
      BY <1>0, <1>1, <3>1, NewLineMem
  <2>3. PICK rows : rows = [j \in DOMAIN rows0 |-> IF j < NumRows - 1 THEN rows0[j + 1] ELSE Teletype!BlankRow]
    OBVIOUS
  <2>4. RowsAt(z.mem, 0) = rows
    BY <1>0, <2>2, <2>3, RowsUp
  <2>5. Shows(z) = [rows |-> rows, x |-> 0, y |-> y]
    BY <1>2, <2>1, <2>2, <2>4 DEF Shows
  <2>6. Teletype!LineFeed([rows |-> rows0, x |-> x, y |-> y]) = [rows |-> rows, x |-> 0, y |-> y]
    BY <1>4, <2>3 DEF Teletype!LineFeed
  <2> QED
    BY <1>0, <1>1, <2>5, <2>6
<1> QED
  BY <1>3, <1>4

\* A character is stored in a cell.
WithCell(s, p, c) == [s EXCEPT !.mem[p] = c]

LEMMA CellSet ==
    ASSUME NEW s, IsScreen(s), IsMem(s.mem), NEW p, NEW c
    PROVE  /\ IsScreen(WithCell(s, p, c)) /\ IsMem(WithCell(s, p, c).mem)
           /\ WithCell(s, p, c).x = s.x /\ WithCell(s, p, c).y = s.y
           /\ \A i \in Memory : WithCell(s, p, c).mem[i] = IF i = p THEN c ELSE s.mem[i]
<1>1. PICK mem : mem = [s.mem EXCEPT ![p] = c]
  OBVIOUS
<1>2. IsMem(mem) /\ \A i \in Memory : mem[i] = IF i = p THEN c ELSE s.mem[i]
  BY <1>1 DEF IsMem
<1>3. PICK z : z = WithCell(s, p, c)
  OBVIOUS
<1>4. z = [s EXCEPT !.mem = mem]
  BY <1>1, <1>3 DEF WithCell
<1>5. IsScreen(z) /\ z.x = s.x /\ z.y = s.y /\ z.mem = mem
  BY <1>4 DEF IsScreen
<1> QED
  BY <1>1, <1>2, <1>3, <1>5

\* The screen that putc has to wrap.
CharPut(s, c) == [s EXCEPT !.mem[Cell(s.x, s.y)] = c, !.x = @ + 1]

LEMMA CharStored ==
    ASSUME NEW s, OnIt(s), NEW c
    PROVE  /\ IsScreen(CharPut(s, c)) /\ IsMem(CharPut(s, c).mem)
           /\ CharPut(s, c).x = s.x + 1 /\ CharPut(s, c).y = s.y
           /\ \A p \in Memory : CharPut(s, c).mem[p] = IF p = Cell(s.x, s.y) THEN c ELSE s.mem[p]
<1>0. IsScreen(s) /\ IsMem(s.mem)
  BY DEF OnIt
<1>1. PICK z, cell : cell = Cell(s.x, s.y) /\ z = WithCell(s, cell, c)
  OBVIOUS
<1>2. PICK x \in Nat : x = s.x + 1
  BY DEF OnIt, IsScreen
<1>3. /\ IsScreen(z) /\ IsMem(z.mem) /\ z.x = s.x /\ z.y = s.y
      /\ \A i \in Memory : z.mem[i] = IF i = cell THEN c ELSE s.mem[i]
  BY <1>0, <1>1, CellSet
<1>4. PICK put : put = CharPut(s, c)
  OBVIOUS
<1>5. put = [z EXCEPT !.x = x]
  BY <1>0, <1>1, <1>2, <1>4 DEF WithCell, CharPut, IsScreen
<1>6. IsScreen(put) /\ put.mem = z.mem /\ put.x = x /\ put.y = s.y
  BY <1>3, <1>5 DEF IsScreen
<1> QED
  BY <1>1, <1>2, <1>3, <1>4, <1>6

LEMMA PutcShows ==
    ASSUME NEW s, OnIt(s), NEW c, c # "nul"
    PROVE  /\ OnIt(Putc(s, c)) /\ Placed(Putc(s, c)) /\ SameBehind(Putc(s, c).mem, s.mem)
           /\ Shows(Putc(s, c)) = Teletype!Put(Shows(s), c)
<1>0. /\ IsScreen(s) /\ IsMem(s.mem) /\ s.x \in 0 .. NumCols - 1 /\ s.y \in 0 .. NumRows - 1
      /\ s.x \in Nat /\ s.y \in Nat /\ s.y < NumRows
  BY Sizes DEF OnIt, IsScreen
<1>1. SameBehind(Putc(s, c).mem, s.mem)
  BY OnScreenInPage, PutcBehind DEF OnIt
<1>2. IsScreen(Putc(s, c)) /\ IsMem(Putc(s, c).mem)
  BY <1>0, PutcIsMem
<1>3. PICK rows0 : rows0 = RowsAt(s.mem, 0) /\ Shows(s) = [rows |-> rows0, x |-> s.x, y |-> s.y]
  BY DEF Shows
<1>4. CASE c = "nl"
  <2>1. Putc(s, c) = NewLine(s)
    BY <1>4 DEF Putc
  <2>2. Teletype!Put(Shows(s), c) = Teletype!LineFeed(Shows(s))
    BY <1>4, SMTT(30) DEF Teletype!Put
  <2>3. Shows(NewLine(s)) = Teletype!LineFeed(Shows(s))
    BY <1>0, <1>3, NewLineShows
  <2>4. NewLine(s).x < NumCols /\ NewLine(s).y < NumRows
    BY <1>0, NewLineOnScreen, Sizes
  <2> QED
    BY <1>0, <1>1, <1>2, <2>1, <2>2, <2>3, <2>4, NewLinePlaced DEF OnIt
<1>5. CASE c # "nl"
  <2>1. PICK put : put = CharPut(s, c)
    OBVIOUS
  <2>2. /\ IsScreen(put) /\ IsMem(put.mem) /\ put.x = s.x + 1 /\ put.y = s.y
        /\ \A p \in Memory : put.mem[p] = IF p = Cell(s.x, s.y) THEN c ELSE s.mem[p]
    BY <2>1, CharStored
  <2>3. Putc(s, c) = Wrapped(put)
    BY <1>5, <2>1 DEF Putc, CharPut
  <2>4. Wrapped(put).x < NumCols /\ Wrapped(put).y < NumRows /\ Placed(Wrapped(put))
    BY <2>2, WrappedOnScreen, WrappedPlaced
  <2>5. PICK rows : rows = WithGlyph(rows0, s.x, s.y, c)
    OBVIOUS
  <2>6. RowsAt(put.mem, 0) = rows
    <3>1. PICK mem : mem = put.mem
      OBVIOUS
    <3>2. RowsAt(mem, 0) = WithGlyph(RowsAt(s.mem, 0), s.x, s.y, c)
      BY <1>0, <2>2, <3>1, RowsPut
    <3> QED
      BY <1>3, <2>5, <3>1, <3>2
  <2>7. PICK there : there = [rows |-> rows, x |-> s.x, y |-> s.y]
    OBVIOUS
  <2>8. Teletype!Put(Shows(s), c) =
          IF s.x = NumCols - 1 THEN Teletype!LineFeed(there) ELSE [there EXCEPT !.x = @ + 1]
    <3>1. PICK text : text = Shows(s)
      OBVIOUS
    <3>2. text.rows = rows0 /\ text.x = s.x /\ text.y = s.y
      BY <1>3, <3>1
    <3>3. [text EXCEPT !.rows[text.y][text.x] = c] = there
      BY <1>3, <2>5, <2>7, <3>1, <3>2 DEF WithGlyph
    <3>4. Teletype!Put(text, c) =
            IF text.x = NumCols - 1 THEN Teletype!LineFeed([text EXCEPT !.rows[text.y][text.x] = c])
            ELSE [[text EXCEPT !.rows[text.y][text.x] = c] EXCEPT !.x = @ + 1]
      BY <1>5, SMTT(30) DEF Teletype!Put
    <3> QED
      BY <3>1, <3>2, <3>3, <3>4
  <2>9. CASE s.x = NumCols - 1
    <3>1. put.x >= NumCols
      BY <2>2, <2>9, Sizes
    <3>2. Wrapped(put).x = NewLine(put).x /\ Wrapped(put).y = NewLine(put).y
          /\ Wrapped(put).mem = NewLine(put).mem
      BY <2>2, <3>1, WrappedMem, NewLineOnScreen
    <3>3. Shows(Wrapped(put)) = Shows(NewLine(put))
      BY <3>2 DEF Shows
    <3>4. Shows(NewLine(put)) = Teletype!LineFeed(there)
      BY <1>0, <2>2, <2>6, <2>7, NewLineShows
    <3> QED
      BY <1>1, <1>2, <2>3, <2>4, <2>8, <2>9, <3>3, <3>4 DEF OnIt
  <2>10. CASE s.x # NumCols - 1
    <3>1. put.x < NumCols /\ put.y < NumRows
      BY <1>0, <2>2, <2>10, Sizes
    <3>2. /\ Wrapped(put).x = s.x + 1 /\ Wrapped(put).y = s.y
          /\ Wrapped(put).mem = put.mem
      BY <2>2, <3>1, WrappedMem
    <3>3. Shows(Wrapped(put)) = [there EXCEPT !.x = @ + 1]
      BY <2>6, <2>7, <3>2 DEF Shows
    <3> QED
      BY <1>1, <1>2, <2>3, <2>4, <2>8, <2>10, <3>3 DEF OnIt
  <2> QED
    BY <2>9, <2>10
<1> QED
  BY <1>4, <1>5

LEMMA DeleteCShows ==
    ASSUME NEW s, OnIt(s)
    PROVE  /\ OnIt(DeleteC(s)) /\ Placed(DeleteC(s)) /\ SameBehind(DeleteC(s).mem, s.mem)
           /\ Shows(DeleteC(s)) = Teletype!Rub(Shows(s))
<1> DEFINE here == [s EXCEPT !.mem[Cell(s.x, s.y)] = "nul"]
           x == IF s.x # 0 THEN s.x - 1 ELSE IF s.y # 0 THEN NumCols - 1 ELSE 0
           y == IF s.x = 0 /\ s.y # 0 THEN s.y - 1 ELSE s.y
           gone == [here EXCEPT !.mem[Cell(x, y)] = "blank"]
<1>0. /\ IsScreen(s) /\ IsMem(s.mem) /\ s.x \in 0 .. NumCols - 1 /\ s.y \in 0 .. NumRows - 1
      /\ s.x \in Nat /\ s.y \in Nat
  BY Sizes DEF OnIt, IsScreen
<1>1. SameBehind(DeleteC(s).mem, s.mem)
  BY OnScreenInPage, DeleteCBehind DEF OnIt
<1>2. DeleteC(s) = Located(gone, x, y)
  BY Zenon DEF DeleteC
<1>3. /\ x \in 0 .. NumCols - 1 /\ y \in 0 .. NumRows - 1 /\ x \in Nat /\ y \in Nat
      /\ s.x > 0 => x = s.x - 1 /\ y = s.y
      /\ ~(s.x > 0) /\ s.y > 0 => x = NumCols - 1 /\ y = s.y - 1
      /\ ~(s.x > 0) /\ ~(s.y > 0) => x = s.x /\ y = s.y
  BY <1>0, Sizes
<1>4. PICK z, p, q : z = here /\ p = Cell(s.x, s.y) /\ q = Cell(x, y)
  OBVIOUS
<1>5. /\ IsScreen(z) /\ IsMem(z.mem) /\ z.x = s.x /\ z.y = s.y
      /\ \A i \in Memory : z.mem[i] = IF i = p THEN "nul" ELSE s.mem[i]
  <2>1. z = WithCell(s, p, "nul")
    BY <1>4 DEF WithCell
  <2> HIDE DEF here, gone, x, y
  <2> QED
    BY <1>0, <2>1, CellSet
<1>6. PICK g : g = WithCell(z, q, "blank")
  OBVIOUS
<1>7. gone = g
  BY <1>4, <1>6, Zenon DEF WithCell
<1> HIDE DEF here, gone, x, y
<1>8. /\ IsScreen(g) /\ IsMem(g.mem)
      /\ \A i \in Memory : g.mem[i] = IF i = q THEN "blank" ELSE z.mem[i]
  BY <1>5, <1>6, CellSet
<1>90. x \in Nat /\ y \in Nat
  BY <1>3
<1>9. PICK d : d = DeleteC(s)
  OBVIOUS
<1>10. IsScreen(d) /\ d.mem = g.mem /\ d.x = x /\ d.y = y /\ Placed(d)
  <2>1. d = Located(g, x, y)
    BY <1>2, <1>7, <1>9
  <2> QED
    BY <1>8, <1>90, <2>1, LocatedAt, LocatedMem, LocatedPlaced
<1>11. OnIt(d)
  BY <1>3, <1>8, <1>10, Sizes DEF OnIt
<1>12. PICK rows0, rows1, rows : /\ rows0 = RowsAt(s.mem, 0) /\ rows1 = WithGlyph(rows0, s.x, s.y, "blank")
                                 /\ rows = WithGlyph(rows1, x, y, "blank")
  OBVIOUS
\* What is 0 shows blank, so the cells may as well hold blanks.
<1>13. PICK m1 : m1 = [s.mem EXCEPT ![p] = "blank"]
  OBVIOUS
<1>14. PICK m2 : m2 = [m1 EXCEPT ![q] = "blank"]
  OBVIOUS
<1>15. /\ \A i \in Memory : m1[i] = IF i = p THEN "blank" ELSE s.mem[i]
       /\ \A i \in Memory : m2[i] = IF i = q THEN "blank" ELSE m1[i]
  <2>1. IsMem(m1) /\ \A i \in Memory : m1[i] = IF i = p THEN "blank" ELSE s.mem[i]
    BY <1>0, <1>13 DEF IsMem
  <2> QED
    BY <1>14, <2>1 DEF IsMem
<1>16. RowsAt(m1, 0) = rows1
  <2>1. \A i \in Memory : m1[i] = IF i = Cell(s.x, s.y) THEN "blank" ELSE s.mem[i]
    BY <1>4, <1>15
  <2>2. RowsAt(m1, 0) = WithGlyph(RowsAt(s.mem, 0), s.x, s.y, "blank")
    BY <1>0, <2>1, RowsPut
  <2> QED
    BY <1>12, <2>2
<1>17. RowsAt(m2, 0) = rows
  <2>1. \A i \in Memory : m2[i] = IF i = Cell(x, y) THEN "blank" ELSE m1[i]
    BY <1>4, <1>15
  <2>2. RowsAt(m2, 0) = WithGlyph(RowsAt(m1, 0), x, y, "blank")
    BY <1>3, <2>1, RowsPut
  <2> QED
    BY <1>12, <1>16, <2>2
<1>18. RowsAt(d.mem, 0) = RowsAt(m2, 0)
  <2>1. \A i \in Memory : Glyph(d.mem, i) = Glyph(m2, i)
    BY <1>5, <1>8, <1>10, <1>15 DEF Glyph
  <2>2. \A i \in 0 .. NumCols - 1 : \A j \in 0 .. NumRows - 1 : 0 + Cell(i, j) \in Memory
    BY CellShown
  <2>3. \A i \in 0 .. NumCols - 1 : \A j \in 0 .. NumRows - 1 :
           Glyph(d.mem, 0 + Cell(i, j)) = Glyph(m2, 0 + Cell(i, j))
    BY <2>1, <2>2
  <2> QED
    BY <2>3 DEF RowsAt
<1>19. Shows(d) = [rows |-> rows, x |-> x, y |-> y]
  BY <1>10, <1>17, <1>18 DEF Shows
<1>20. PICK back : back = IF s.x > 0 THEN [Shows(s) EXCEPT !.x = @ - 1]
                ELSE IF s.y > 0 THEN [Shows(s) EXCEPT !.x = NumCols - 1, !.y = @ - 1] ELSE Shows(s)
  OBVIOUS
<1>21. back = [rows |-> rows0, x |-> x, y |-> y]
  BY <1>3, <1>12, <1>20 DEF Shows
<1>22. Teletype!Rub(Shows(s)) = [back EXCEPT !.rows[s.y][s.x] = "blank", !.rows[back.y][back.x] = "blank"]
  <2>1. Shows(s).x = s.x /\ Shows(s).y = s.y
    BY DEF Shows
  <2> QED
    BY <1>20, <2>1 DEF Teletype!Rub
<1>23. [back EXCEPT !.rows[s.y][s.x] = "blank", !.rows[back.y][back.x] = "blank"]
          = [rows |-> rows, x |-> x, y |-> y]
  <2>1. back.rows = rows0 /\ back.x = x /\ back.y = y
    BY <1>21
  <2>2. [back EXCEPT !.rows[s.y][s.x] = "blank"] = [rows |-> rows1, x |-> x, y |-> y]
    BY <1>12, <1>21 DEF WithGlyph
  <2>3. [[rows |-> rows1, x |-> x, y |-> y] EXCEPT !.rows[y][x] = "blank"] = [rows |-> rows, x |-> x, y |-> y]
    BY <1>12 DEF WithGlyph
  <2> QED
    BY <2>1, <2>2, <2>3
<1> QED
  BY <1>1, <1>9, <1>10, <1>11, <1>19, <1>22, <1>23

LEMMA ClearShows ==
    ASSUME NEW s, IsScreen(s), IsMem(s.mem), NEW z, z = Located([s EXCEPT !.mem = Clear(s.mem)], 0, 0)
    PROVE  OnIt(z) /\ Placed(z) /\ SameBehind(z.mem, s.mem) /\ Shows(z) = Teletype!Blank
<1>1. PICK mem : mem = Clear(s.mem)
  OBVIOUS
<1>2. IsMem(mem) /\ SameBehind(mem, s.mem) /\ \A i \in Shown : mem[i] = "blank"
  <2>1. mem = Cleared(s.mem, Shown)
    BY <1>1 DEF Clear, Shown
  <2>2. IsMem(mem) /\ \A i \in Memory : mem[i] = IF i \in Shown THEN "blank" ELSE s.mem[i]
    BY <2>1, ClearedMem
  <2>3. \A i \in Memory : i >= PageCells => i \notin Shown
    BY Areas, Pages
  <2>4. \A i \in Shown : i \in Memory
    BY Areas, Pages
  <2> QED
    BY <2>2, <2>3, <2>4 DEF SameBehind
<1>3. PICK blank : blank = [s EXCEPT !.mem = mem]
  OBVIOUS
<1>4. IsScreen(blank) /\ blank.mem = mem
  BY <1>3 DEF IsScreen
<1>5. z = Located(blank, 0, 0)
  BY <1>1, <1>3
<1>6. IsScreen(z) /\ z.x = 0 /\ z.y = 0 /\ z.mem = mem /\ Placed(z)
  BY <1>4, <1>5, LocatedAt, LocatedMem, LocatedPlaced
<1>7. \A i \in 0 .. NumCols - 1 : \A j \in 0 .. NumRows - 1 : Glyph(mem, 0 + Cell(i, j)) = "blank"
  BY <1>2, CellShown DEF Glyph
<1>8. RowsAt(mem, 0) = [j \in 0 .. NumRows - 1 |-> Teletype!BlankRow]
  BY <1>7 DEF RowsAt, Teletype!BlankRow
<1> QED
  BY <1>2, <1>6, <1>8, Sizes DEF OnIt, Shows, Teletype!Blank

-----------------------------------------------------------------------------
(* A putc into which no key falls, from its start at screen b: what it has  *)
(* done at each step, and that at its end it has done what Putc does at     *)
(* once.                                                                    *)

\* The screen with the character stored, and after the newline, if any.
Begun(b, c) == IF c = "nl" THEN b ELSE CharPut(b, c)
Fed(b, c) == NewLine(Begun(b, c))
Feeds(b, c) == c = "nl" \/ b.x + 1 = NumCols

LEMMA PutcIs ==
    ASSUME NEW b, OnIt(b), NEW c, c # "nul"
    PROVE  /\ b.x \in Nat /\ b.y \in Nat /\ b.x < NumCols /\ b.y < NumRows
           /\ IsMem(b.mem) /\ IsMem(Begun(b, c).mem)
           /\ IsMem(Fed(b, c).mem) /\ Fed(b, c).x = 0
           /\ Fed(b, c).y \in Nat /\ Fed(b, c).y < NumRows
           /\ b.y + 1 < NumRows => Fed(b, c).mem = Begun(b, c).mem /\ Fed(b, c).y = b.y + 1
           /\ b.y + 1 = NumRows =>
                /\ Fed(b, c).y = NumRows - 1
                /\ \A i \in Memory : Fed(b, c).mem[i] =
                     IF i \in LastRow THEN "blank"
                     ELSE IF i < Above THEN Begun(b, c).mem[i + NumCols] ELSE Begun(b, c).mem[i]
           /\ Feeds(b, c) => /\ Putc(b, c).mem = Fed(b, c).mem /\ Putc(b, c).x = 0
                             /\ Putc(b, c).y = Fed(b, c).y
           /\ ~Feeds(b, c) => /\ Putc(b, c).mem = Begun(b, c).mem /\ Putc(b, c).x = b.x + 1
                              /\ Putc(b, c).y = b.y
           /\ Putc(b, c).x \in Nat /\ Putc(b, c).x < NumCols
           /\ Putc(b, c).y \in Nat /\ Putc(b, c).y < NumRows
<1>0. IsScreen(b) /\ IsMem(b.mem) /\ b.x \in Nat /\ b.y \in Nat /\ b.x < NumCols /\ b.y < NumRows
  BY DEF OnIt, IsScreen
<1>1. PICK s : s = Begun(b, c)
  OBVIOUS
<1>2. IsScreen(s) /\ IsMem(s.mem) /\ s.y = b.y
  BY <1>0, <1>1, CharStored DEF Begun
<1>3. PICK f : f = Fed(b, c) /\ f = NewLine(s)
  BY <1>1 DEF Fed
<1>4. /\ f.x = 0 /\ f.y \in Nat /\ f.y < NumRows /\ IsMem(f.mem)
      /\ b.y + 1 < NumRows => f.mem = s.mem /\ f.y = b.y + 1
      /\ b.y + 1 >= NumRows =>
           /\ f.y = NumRows - 1
           /\ \A i \in Memory : f.mem[i] =
                IF i \in LastRow THEN "blank" ELSE IF i < Above THEN s.mem[i + NumCols] ELSE s.mem[i]
  BY <1>2, <1>3, NewLineOnScreen, NewLineMem DEF IsScreen
<1>5. b.y + 1 = NumRows => b.y + 1 >= NumRows
  BY Sizes
<1>6. PICK e : e = Putc(b, c)
  OBVIOUS
<1>7. e.x \in Nat /\ e.y \in Nat /\ e.x < NumCols /\ e.y < NumRows
  BY <1>6, PutcShows DEF OnIt, IsScreen
<1>8. CASE c = "nl"
  <2>1. e = f /\ Feeds(b, c)
    BY <1>1, <1>3, <1>6, <1>8 DEF Begun, Putc, Feeds
  <2> QED
    BY <1>0, <1>1, <1>2, <1>3, <1>4, <1>5, <1>6, <1>7, <2>1
<1>9. CASE c # "nl"
  <2>1. e = Wrapped(s)
    BY <1>1, <1>6, <1>9 DEF Putc, Begun, CharPut
  <2>2. s.x = b.x + 1
    BY <1>1, <1>9, CharStored DEF Begun
  <2>3. CASE b.x + 1 = NumCols
    <3>1. Wrapped(s).x = 0 /\ Wrapped(s).y = f.y /\ Wrapped(s).mem = f.mem
      <4>1. s.x >= NumCols
        BY <2>2, <2>3, Sizes
      <4> QED
        BY <1>2, <1>3, <4>1, WrappedMem
    <3>2. Feeds(b, c)
      BY <2>3 DEF Feeds
    <3> QED
      BY <1>0, <1>1, <1>2, <1>3, <1>4, <1>5, <1>6, <1>7, <2>1, <3>1, <3>2
  <2>4. CASE b.x + 1 # NumCols
    <3>1. Wrapped(s).x = s.x /\ Wrapped(s).y = s.y /\ Wrapped(s).mem = s.mem
      <4>1. s.x < NumCols /\ s.y < NumRows
        BY <1>0, <1>2, <2>2, <2>4, Sizes
      <4> QED
        BY <1>2, <4>1, WrappedMem
    <3>2. ~Feeds(b, c)
      BY <1>9, <2>4 DEF Feeds
    <3> QED
      BY <1>0, <1>1, <1>2, <1>3, <1>4, <1>5, <1>6, <1>7, <2>1, <2>2, <3>1, <3>2
  <2> QED
    BY <2>3, <2>4
<1> QED
  BY <1>8, <1>9

\* The rows above cell k have been moved up.
ScrolledTo(mem, mem0, k) ==
    \A i \in Memory : mem[i] =
        IF i < k THEN IF i \in LastRow THEN "blank" ELSE mem0[i + NumCols] ELSE mem0[i]

IsCrt(cr) == cr = [index |-> cr.index, lo |-> cr.lo, hi |-> cr.hi]

\* What terminal_update_location has done on its way to position gx, gy.
Updating(v, x, y, cr, gx, gy) ==
    /\ v.pc \in {"arg_y", "arg_x", "cursor", "select_lo", "lo", "select_hi", "hi"} => x = gx /\ y = gy
    /\ v.pc \in {"arg_x", "compare", "set_x", "set_y"} => v.ay = gy
    /\ v.pc \in {"compare", "set_x", "set_y"} => v.ax = gx
    /\ v.pc = "set_y" => x = gx
    /\ v.pc \in {"select_lo", "lo", "select_hi", "hi"} => v.k = Cell(gx, gy)
    /\ v.pc = "lo" => cr.index = 15
    /\ v.pc \in {"select_hi", "hi"} => cr.lo = v.k % ByteSize
    /\ v.pc = "hi" => cr.index = 14

Locating == {"arg_y", "arg_x", "compare", "set_x", "set_y", "cursor", "select_lo", "lo", "select_hi", "hi"}
Wrapping == {"load_mod_x", "store_mod_x", "load_mod_y", "store_mod_y"}
Feeding == {"load_y", "store_y", "zero_x", "full"}
Adding == {"load_x", "store_x", "wrap"}

\* The putc of a character that no key has interrupted.
InPutc(v, mem, x, y, cr, b, c) ==
    /\ v.pc = "cell" => c # "nl" /\ mem = b.mem /\ x = b.x /\ y = b.y
    /\ v.pc \in Adding => c # "nl" /\ y = b.y
    /\ v.pc \in Adding \cup Feeding => mem = Begun(b, c).mem
    /\ v.pc \in {"load_x", "store_x"} => x = b.x
    /\ v.pc = "store_x" => v.r = b.x + 1
    /\ v.pc = "wrap" => x = b.x + 1
    /\ v.pc \in Feeding \cup {"scroll"} => Feeds(b, c)
    /\ v.pc \in {"load_y", "store_y"} => y = b.y
    /\ v.pc = "store_y" => v.r = b.y + 1
    /\ v.pc \in {"zero_x", "full"} => y = b.y + 1
    /\ v.pc = "full" => x = 0
    /\ v.pc = "scroll" => /\ b.y + 1 = NumRows /\ v.k \in Shown
                          /\ ScrolledTo(mem, Begun(b, c).mem, v.k)
    /\ v.pc \in Wrapping => /\ c # "nl" /\ mem = Putc(b, c).mem
                            /\ x = Putc(b, c).x /\ y = Putc(b, c).y
    /\ v.pc = "store_mod_x" => v.r = Putc(b, c).x
    /\ v.pc = "store_mod_y" => v.r = Putc(b, c).y
    /\ v.pc \in Locating /\ v.fn = "putc" =>
         /\ c # "nl" /\ mem = Putc(b, c).mem
         /\ Updating(v, x, y, cr, Putc(b, c).x, Putc(b, c).y)
    /\ v.pc \in Locating /\ v.fn # "putc" =>
         /\ v.fn \in {"scroll", "newline"} /\ Feeds(b, c)
         /\ mem = Fed(b, c).mem
         /\ Updating(v, x, y, cr, Fed(b, c).x, Fed(b, c).y)

\* The putc goes on: the step leaves the text to print alone.
GoesOnWith(c) ==
    /\ w'.pc \notin {"rest"} /\ w'.out = w.out /\ UNCHANGED <<before, dirty>>
    /\ IsCrt(crt') /\ SameBehind(memory', memory)
    /\ InPutc(w', memory', screen_x', screen_y', crt', before, c)

\* It ends, and has done what Putc does.
EndsAs(e) ==
    /\ w'.pc = "rest" /\ w'.out = Tail(w.out) /\ ~dirty'
    /\ IsCrt(crt') /\ SameBehind(memory', memory)
    /\ memory' = e.mem /\ screen_x' = e.x /\ screen_y' = e.y
    /\ crt'.lo = Cursor(Cell(e.x, e.y)).lo /\ crt'.hi = Cursor(Cell(e.x, e.y)).hi

\* A putc of c that no key has fallen into.
Quiet(c) ==
    /\ IInv /\ IsMem(memory) /\ IsCrt(crt) /\ OnIt(before)
    /\ MidPutc /\ w.out # <<>> /\ c = Head(w.out) /\ c # "nul"
    /\ InPutc(w, memory, screen_x, screen_y, crt, before, c)

LEMMA QuietIs ==
    ASSUME NEW c, Quiet(c)
    PROVE  /\ IsWrite(w) /\ screen_x \in Nat /\ screen_y \in Nat
           /\ InPutc(w, memory, screen_x, screen_y, crt, before, c)
           /\ NumRows \in Nat /\ NumCols \in Nat /\ NumRows > 1 /\ NumCols > 0
           /\ IsCrt(crt) /\ OnIt(before) /\ c = Head(w.out) /\ c # "nul" /\ IsMem(memory)
BY Sizes DEF Quiet, IInv, Registers, Position

LEMMA QuietAdding ==
    ASSUME NEW c, Quiet(c), PutCell \/ LoadX \/ StoreX \/ Wrap
    PROVE  GoesOnWith(c)
<1>0. /\ IsWrite(w) /\ screen_x \in Nat /\ screen_y \in Nat
      /\ InPutc(w, memory, screen_x, screen_y, crt, before, c)
      /\ NumRows \in Nat /\ NumCols \in Nat /\ NumRows > 1 /\ NumCols > 0
      /\ IsCrt(crt) /\ OnIt(before) /\ c = Head(w.out) /\ c # "nul" /\ IsMem(memory)
  BY QuietIs
<1>1. CASE PutCell
  <2>1. /\ w.pc = "cell" /\ w' = [w EXCEPT !.pc = "load_x"]
        /\ memory' = [memory EXCEPT ![Cell(screen_x, screen_y)] = Head(w.out)]
        /\ UNCHANGED <<screen_x, screen_y, crt, before, dirty>>
    BY <1>1 DEF PutCell, At
  <2>2. c # "nl" /\ memory = before.mem /\ screen_x = before.x /\ screen_y = before.y
    BY <1>0, <2>1 DEF InPutc
  <2>3. PICK p : p = Cell(before.x, before.y) /\ p \in 0 .. Area - 1 /\ Area <= PageCells
                 /\ Area \in Nat /\ PageCells \in Nat
    BY <1>0, OnScreenInPage, Areas DEF OnIt
  <2>4. memory' = [memory EXCEPT ![p] = c]
    BY <1>0, <2>1, <2>2, <2>3
  <2>5. IsMem(memory') /\ \A i \in Memory : memory'[i] = IF i = p THEN c ELSE memory[i]
    BY <1>0, <2>4 DEF IsMem
  <2>6. PICK m : m = Begun(before, c).mem
    OBVIOUS
  <2>7. IsMem(m) /\ \A i \in Memory : m[i] = IF i = p THEN c ELSE memory[i]
    BY <1>0, <2>2, <2>3, <2>6, CharStored DEF Begun
  <2>8. memory' = m
    BY <2>5, <2>7 DEF IsMem
  <2>9. SameBehind(memory', memory)
    BY <2>3, <2>5, Pages DEF SameBehind
  <2>10. w'.pc = "load_x" /\ w'.out = w.out
    BY <1>0, <2>1 DEF IsWrite
  <2> QED
    BY <1>0, <2>1, <2>2, <2>6, <2>8, <2>9, <2>10
       DEF GoesOnWith, InPutc, Adding, Feeding, Wrapping, Locating
<1>2. CASE LoadX \/ StoreX \/ Wrap
  <2>1. UNCHANGED <<memory, crt, before, dirty>>
    BY <1>2 DEF LoadX, StoreX, Wrap, Go, screen
  <2>2. SameBehind(memory', memory) /\ IsCrt(crt')
    BY <1>0, <2>1 DEF SameBehind
  <2>3. before.x \in Nat /\ before.y \in Nat /\ before.x < NumCols
    BY <1>0 DEF OnIt, IsScreen
  <2>4. CASE LoadX
    <3>1. /\ w.pc = "load_x" /\ w' = [w EXCEPT !.pc = "store_x", !.r = screen_x + 1]
          /\ UNCHANGED <<screen_x, screen_y>>
      BY <2>4 DEF LoadX, At, Go, screen
    <3>2. w'.pc = "store_x" /\ w'.out = w.out /\ w'.r = screen_x + 1
      BY <1>0, <3>1 DEF IsWrite
    <3> QED
      BY <1>0, <2>1, <2>2, <3>1, <3>2
         DEF GoesOnWith, InPutc, Adding, Feeding, Wrapping, Locating
  <2>5. CASE StoreX
    <3>1. /\ w.pc = "store_x" /\ w' = [w EXCEPT !.pc = "wrap"]
          /\ screen_x' = w.r /\ UNCHANGED screen_y
      BY <2>5 DEF StoreX, At, Go
    <3>2. w'.pc = "wrap" /\ w'.out = w.out
      BY <1>0, <3>1 DEF IsWrite
    <3> QED
      BY <1>0, <2>1, <2>2, <3>1, <3>2
         DEF GoesOnWith, InPutc, Adding, Feeding, Wrapping, Locating
  <2>6. CASE Wrap
    <3>1. /\ w.pc = "wrap" /\ UNCHANGED <<screen_x, screen_y>>
          /\ w' = [w EXCEPT !.pc = IF screen_x >= NumCols THEN "load_y" ELSE "load_mod_x"]
      BY <2>6 DEF Wrap, At, Go, screen
    <3>2. w'.pc = (IF screen_x >= NumCols THEN "load_y" ELSE "load_mod_x") /\ w'.out = w.out
      BY <1>0, <3>1 DEF IsWrite
    <3>3. c # "nl" /\ screen_x = before.x + 1 /\ screen_y = before.y /\ memory = Begun(before, c).mem
      BY <1>0, <3>1 DEF InPutc, Adding
    <3>4. CASE screen_x >= NumCols
      <4>1. Feeds(before, c)
        BY <1>0, <2>3, <3>3, <3>4 DEF Feeds
      <4> QED
        BY <1>0, <2>1, <2>2, <3>1, <3>2, <3>3, <3>4, <4>1
           DEF GoesOnWith, InPutc, Adding, Feeding, Wrapping, Locating
    <3>5. CASE ~(screen_x >= NumCols)
      <4>1. ~Feeds(before, c)
        BY <1>0, <2>3, <3>3, <3>5 DEF Feeds
      <4>2. memory = Putc(before, c).mem /\ screen_x = Putc(before, c).x /\ screen_y = Putc(before, c).y
        BY <1>0, <3>3, <4>1, PutcIs
      <4> QED
        BY <1>0, <2>1, <2>2, <3>1, <3>2, <3>3, <3>5, <4>2
           DEF GoesOnWith, InPutc, Adding, Feeding, Wrapping, Locating
    <3> QED
      BY <3>4, <3>5
  <2> QED
    BY <1>2, <2>4, <2>5, <2>6
<1> QED
  BY <1>1, <1>2

LEMMA QuietFeeding ==
    ASSUME NEW c, Quiet(c), LoadY \/ StoreY \/ ZeroX \/ Full
    PROVE  GoesOnWith(c)
<1>0. /\ IsWrite(w) /\ screen_x \in Nat /\ screen_y \in Nat
      /\ InPutc(w, memory, screen_x, screen_y, crt, before, c)
      /\ NumRows \in Nat /\ NumCols \in Nat /\ NumRows > 1 /\ NumCols > 0
      /\ IsCrt(crt) /\ OnIt(before) /\ c = Head(w.out) /\ c # "nul" /\ IsMem(memory)
  BY QuietIs
<1>1. UNCHANGED <<memory, crt, before, dirty>>
  BY DEF LoadY, StoreY, ZeroX, Full, Go, screen
<1>2. SameBehind(memory', memory) /\ IsCrt(crt')
  BY <1>0, <1>1 DEF SameBehind
<1>3. before.x \in Nat /\ before.y \in Nat /\ before.y < NumRows
  BY <1>0 DEF OnIt, IsScreen
<1>4. CASE LoadY
  <2>1. /\ w.pc = "load_y" /\ w' = [w EXCEPT !.pc = "store_y", !.r = screen_y + 1]
        /\ UNCHANGED <<screen_x, screen_y>>
    BY <1>4 DEF LoadY, At, Go, screen
  <2>2. w'.pc = "store_y" /\ w'.out = w.out /\ w'.r = screen_y + 1
    BY <1>0, <2>1 DEF IsWrite
  <2> QED
    BY <1>0, <1>1, <1>2, <2>1, <2>2
       DEF GoesOnWith, InPutc, Adding, Feeding, Wrapping, Locating
<1>5. CASE StoreY
  <2>1. /\ w.pc = "store_y" /\ w' = [w EXCEPT !.pc = "zero_x"]
        /\ screen_y' = w.r /\ UNCHANGED screen_x
    BY <1>5 DEF StoreY, At, Go
  <2>2. w'.pc = "zero_x" /\ w'.out = w.out
    BY <1>0, <2>1 DEF IsWrite
  <2> QED
    BY <1>0, <1>1, <1>2, <2>1, <2>2
       DEF GoesOnWith, InPutc, Adding, Feeding, Wrapping, Locating
<1>6. CASE ZeroX
  <2>1. /\ w.pc = "zero_x" /\ w' = [w EXCEPT !.pc = "full"]
        /\ screen_x' = 0 /\ UNCHANGED screen_y
    BY <1>6 DEF ZeroX, At, Go
  <2>2. w'.pc = "full" /\ w'.out = w.out
    BY <1>0, <2>1 DEF IsWrite
  <2> QED
    BY <1>0, <1>1, <1>2, <2>1, <2>2
       DEF GoesOnWith, InPutc, Adding, Feeding, Wrapping, Locating
<1>7. CASE Full
  <2>1. w.pc = "full" /\ UNCHANGED <<screen_x, screen_y>>
    BY <1>7 DEF Full, At, screen
  <2>2. /\ Feeds(before, c) /\ memory = Begun(before, c).mem
        /\ screen_y = before.y + 1 /\ screen_x = 0
    BY <1>0, <2>1 DEF InPutc, Feeding
  <2>3. CASE screen_y >= NumRows
    <3>1. w' = [w EXCEPT !.pc = "scroll", !.k = 0]
      BY <1>7, <2>3 DEF Full, Go
    <3>2. w'.pc = "scroll" /\ w'.out = w.out /\ w'.k = 0
      BY <1>0, <3>1 DEF IsWrite
    <3>3. before.y + 1 = NumRows
      BY <1>0, <1>3, <2>2, <2>3
    <3>4. 0 \in Shown
      BY <1>0, Areas
    <3>5. ScrolledTo(memory, Begun(before, c).mem, 0)
      BY <2>2, Pages DEF ScrolledTo
    <3> QED
      BY <1>0, <1>1, <1>2, <2>1, <2>2, <3>2, <3>3, <3>4, <3>5
         DEF GoesOnWith, InPutc, Adding, Feeding, Wrapping, Locating
  <2>4. CASE ~(screen_y >= NumRows)
    <3>1. w' = [w EXCEPT !.pc = "arg_y", !.fn = "newline"]
      BY <1>7, <2>4 DEF Full, Go
    <3>2. w'.pc = "arg_y" /\ w'.out = w.out /\ w'.fn = "newline"
      BY <1>0, <3>1 DEF IsWrite
    <3>3. before.y + 1 < NumRows
      BY <1>0, <1>3, <2>2, <2>4
    <3>4. memory = Fed(before, c).mem /\ screen_y = Fed(before, c).y /\ screen_x = Fed(before, c).x
      BY <1>0, <2>2, <3>3, PutcIs
    <3>5. Updating(w', screen_x, screen_y, crt, Fed(before, c).x, Fed(before, c).y)
      BY <3>2, <3>4 DEF Updating
    <3> QED
      BY <1>0, <1>1, <1>2, <2>1, <2>2, <3>2, <3>4, <3>5
         DEF GoesOnWith, InPutc, Adding, Feeding, Wrapping, Locating
  <2> QED
    BY <2>3, <2>4
<1> QED
  BY <1>4, <1>5, <1>6, <1>7

LEMMA QuietScroll ==
    ASSUME NEW c, Quiet(c), ScrollCell
    PROVE  GoesOnWith(c)
<1>0. /\ IsWrite(w) /\ screen_x \in Nat /\ screen_y \in Nat
      /\ InPutc(w, memory, screen_x, screen_y, crt, before, c)
      /\ NumRows \in Nat /\ NumCols \in Nat /\ NumRows > 1 /\ NumCols > 0
      /\ IsCrt(crt) /\ OnIt(before) /\ c = Head(w.out) /\ c # "nul" /\ IsMem(memory)
  BY QuietIs
<1>1. w.pc = "scroll" /\ UNCHANGED <<screen_x, screen_y, crt, before, dirty>>
  BY DEF ScrollCell, At, Go
<1>2. PICK m0 : m0 = Begun(before, c).mem
  OBVIOUS
<1>3. /\ Feeds(before, c) /\ before.y + 1 = NumRows /\ w.k \in Shown
      /\ ScrolledTo(memory, m0, w.k)
  BY <1>0, <1>1, <1>2 DEF InPutc
<1>4. PICK k \in Nat : k = w.k /\ k \in 0 .. Area - 1 /\ k + 1 \in Nat
  BY <1>3, Areas
<1>5. PICK cell : cell = IF k \in LastRow THEN "blank" ELSE memory[k + NumCols]
  OBVIOUS
<1>6. memory' = [memory EXCEPT ![k] = cell]
  BY <1>4, <1>5 DEF ScrollCell
<1>7. IsMem(memory') /\ \A i \in Memory : memory'[i] = IF i = k THEN cell ELSE memory[i]
  BY <1>0, <1>6 DEF IsMem
<1>8. SameBehind(memory', memory)
  BY <1>4, <1>7, Areas, Pages DEF SameBehind
<1>9. cell = IF k \in LastRow THEN "blank" ELSE m0[k + NumCols]
  <2>1. k \notin LastRow => k + NumCols \in Memory /\ ~(k + NumCols < k)
    BY <1>0, <1>4, Areas, Pages
  <2>2. k \notin LastRow => memory[k + NumCols] = m0[k + NumCols]
    BY <1>3, <1>4, <2>1 DEF ScrolledTo
  <2> QED
    BY <1>5, <2>2
<1>10. ScrolledTo(memory', m0, k + 1)
  <2> SUFFICES ASSUME NEW i \in Memory
               PROVE  memory'[i] = IF i < k + 1
                                     THEN IF i \in LastRow THEN "blank" ELSE m0[i + NumCols] ELSE m0[i]
    BY DEF ScrolledTo
  <2>1. i \in Nat
    BY Pages
  <2>2. i < k + 1 <=> (i < k \/ i = k)
    BY <1>4, <2>1
  <2>3. memory[i] = IF i < k THEN IF i \in LastRow THEN "blank" ELSE m0[i + NumCols] ELSE m0[i]
    BY <1>3, <1>4 DEF ScrolledTo
  <2>4. ~(k < k)
    BY <1>4
  <2> QED
    BY <1>7, <1>9, <2>2, <2>3, <2>4
<1>11. CASE w.k + 1 \in Shown
  <2>1. w' = [w EXCEPT !.k = @ + 1]
    BY <1>11 DEF ScrollCell, Go
  <2>2. w'.pc = "scroll" /\ w'.out = w.out /\ w'.k = k + 1
    BY <1>0, <1>1, <1>4, <2>1 DEF IsWrite
  <2> QED
    BY <1>0, <1>1, <1>2, <1>3, <1>4, <1>8, <1>10, <1>11, <2>2
       DEF GoesOnWith, InPutc, Adding, Feeding, Wrapping, Locating
<1>12. CASE w.k + 1 \notin Shown
  <2>1. w' = [w EXCEPT !.pc = "compare", !.fn = "scroll", !.ax = 0, !.ay = NumRows - 1]
    BY <1>12 DEF ScrollCell, Go
  <2>2. /\ w'.pc = "compare" /\ w'.out = w.out /\ w'.fn = "scroll"
        /\ w'.ax = 0 /\ w'.ay = NumRows - 1
    BY <1>0, <2>1 DEF IsWrite
  <2>3. k + 1 = Area
    BY <1>4, <1>12, Areas
  <2>4. PICK f : f = Fed(before, c)
    OBVIOUS
  <2>5. /\ f.x = 0 /\ f.y = NumRows - 1 /\ IsMem(f.mem)
        /\ \A i \in Memory : f.mem[i] =
              IF i \in LastRow THEN "blank" ELSE IF i < Above THEN m0[i + NumCols] ELSE m0[i]
    BY <1>0, <1>2, <1>3, <2>4, PutcIs
  <2>6. \A i \in Memory : memory'[i] = f.mem[i]
    <3> TAKE i \in Memory
    <3>1. memory'[i] = IF i < Area
                         THEN IF i \in LastRow THEN "blank" ELSE m0[i + NumCols] ELSE m0[i]
      BY <1>10, <2>3 DEF ScrolledTo
    <3>2. i \in Nat /\ (i < Area <=> (i \in LastRow \/ i < Above))
      BY <1>0, Areas, Pages
    <3> QED
      BY <2>5, <3>1, <3>2
  <2>7. memory' = f.mem
    BY <1>7, <2>5, <2>6 DEF IsMem
  <2>8. Updating(w', screen_x, screen_y, crt, f.x, f.y)
    BY <2>2, <2>5 DEF Updating
  <2> QED
    BY <1>0, <1>1, <1>3, <1>8, <2>2, <2>4, <2>7, <2>8
       DEF GoesOnWith, InPutc, Adding, Feeding, Wrapping, Locating
<1> QED
  BY <1>11, <1>12

LEMMA ModOfLess ==
    ASSUME NEW a \in Nat, NEW b \in Nat, a < b
    PROVE  a % b = a /\ a \div b = 0
OBVIOUS

LEMMA QuietWrapping ==
    ASSUME NEW c, Quiet(c), LoadModX \/ StoreModX \/ LoadModY \/ StoreModY
    PROVE  GoesOnWith(c)
<1>0. /\ IsWrite(w) /\ screen_x \in Nat /\ screen_y \in Nat
      /\ InPutc(w, memory, screen_x, screen_y, crt, before, c)
      /\ NumRows \in Nat /\ NumCols \in Nat /\ NumRows > 1 /\ NumCols > 0
      /\ IsCrt(crt) /\ OnIt(before) /\ c = Head(w.out) /\ c # "nul" /\ IsMem(memory)
  BY QuietIs
<1>1. UNCHANGED <<memory, crt, before, dirty>>
  BY DEF LoadModX, StoreModX, LoadModY, StoreModY, Go, screen
<1>2. SameBehind(memory', memory) /\ IsCrt(crt')
  BY <1>0, <1>1 DEF SameBehind
<1>3. w.pc \in Wrapping
  BY DEF LoadModX, StoreModX, LoadModY, StoreModY, At, Wrapping
<1>4. /\ c # "nl" /\ memory = Putc(before, c).mem
      /\ screen_x = Putc(before, c).x /\ screen_y = Putc(before, c).y
  BY <1>0, <1>3 DEF InPutc
<1>5. screen_x < NumCols /\ screen_y < NumRows
  BY <1>0, <1>4, PutcIs
<1>6. CASE LoadModX
  <2>1. /\ w' = [w EXCEPT !.pc = "store_mod_x", !.r = screen_x % NumCols]
        /\ UNCHANGED <<screen_x, screen_y>>
    BY <1>6 DEF LoadModX, At, Go, screen
  <2>2. screen_x % NumCols = screen_x
    BY <1>0, <1>5, ModOfLess
  <2>3. w'.pc = "store_mod_x" /\ w'.out = w.out /\ w'.r = screen_x
    BY <1>0, <2>1, <2>2 DEF IsWrite
  <2> QED
    BY <1>0, <1>1, <1>2, <1>4, <2>1, <2>3
       DEF GoesOnWith, InPutc, Adding, Feeding, Wrapping, Locating
<1>7. CASE StoreModX
  <2>1. /\ w.pc = "store_mod_x" /\ w' = [w EXCEPT !.pc = "load_mod_y"]
        /\ screen_x' = w.r /\ UNCHANGED screen_y
    BY <1>7 DEF StoreModX, At, Go
  <2>2. w'.pc = "load_mod_y" /\ w'.out = w.out
    BY <1>0, <2>1 DEF IsWrite
  <2>3. w.r = Putc(before, c).x
    BY <1>0, <2>1 DEF InPutc
  <2> QED
    BY <1>0, <1>1, <1>2, <1>4, <2>1, <2>2, <2>3
       DEF GoesOnWith, InPutc, Adding, Feeding, Wrapping, Locating
<1>8. CASE LoadModY
  <2>1. /\ w' = [w EXCEPT !.pc = "store_mod_y", !.r = (screen_y + screen_x \div NumCols) % NumRows]
        /\ UNCHANGED <<screen_x, screen_y>>
    BY <1>8 DEF LoadModY, At, Go, screen
  <2>2. (screen_y + screen_x \div NumCols) % NumRows = screen_y
    <3>1. screen_x \div NumCols = 0
      BY <1>0, <1>5, ModOfLess
    <3>2. screen_y + 0 = screen_y /\ screen_y % NumRows = screen_y
      BY <1>0, <1>5, ModOfLess
    <3> QED
      BY <3>1, <3>2, Zenon
  <2>3. w'.pc = "store_mod_y" /\ w'.out = w.out /\ w'.r = screen_y
    BY <1>0, <2>1, <2>2 DEF IsWrite
  <2> QED
    BY <1>0, <1>1, <1>2, <1>4, <2>1, <2>3
       DEF GoesOnWith, InPutc, Adding, Feeding, Wrapping, Locating
<1>9. CASE StoreModY
  <2>1. /\ w.pc = "store_mod_y" /\ w' = [w EXCEPT !.pc = "arg_y", !.fn = "putc"]
        /\ screen_y' = w.r /\ UNCHANGED screen_x
    BY <1>9 DEF StoreModY, At, Go
  <2>2. w'.pc = "arg_y" /\ w'.out = w.out /\ w'.fn = "putc"
    BY <1>0, <2>1 DEF IsWrite
  <2>3. w.r = Putc(before, c).y
    BY <1>0, <2>1 DEF InPutc
  <2>4. Updating(w', screen_x', screen_y', crt', Putc(before, c).x, Putc(before, c).y)
    BY <1>4, <2>1, <2>2, <2>3 DEF Updating
  <2> QED
    BY <1>0, <1>1, <1>2, <1>4, <2>1, <2>2, <2>4
       DEF GoesOnWith, InPutc, Adding, Feeding, Wrapping, Locating
<1> QED
  BY <1>6, <1>7, <1>8, <1>9

\* terminal_update_cursor up to its last write.
CursorBegins == CursorPosition \/ Select("select_lo", "lo", 15) \/ CursorLo \/ Select("select_hi", "hi", 14)

LEMMA LocatingGoesOn ==
    ASSUME IInv, IsCrt(crt), NEW gx \in Nat, NEW gy \in Nat,
           Updating(w, screen_x, screen_y, crt, gx, gy),
           ArgY \/ ArgX \/ Compare \/ SetX \/ SetY \/ CursorBegins
    PROVE  /\ Updating(w', screen_x', screen_y', crt', gx, gy)
           /\ w'.pc \in Locating /\ w'.fn = w.fn /\ w'.out = w.out
           /\ UNCHANGED <<memory, before, dirty>> /\ IsCrt(crt')
<1>0. IsWrite(w) /\ screen_x \in Nat /\ screen_y \in Nat
  BY DEF IInv, Registers, Position
<1>1. ASSUME NEW pc, w' = [w EXCEPT !.pc = pc]
      PROVE  w' = [out |-> w.out, pc |-> pc, fn |-> w.fn, r |-> w.r, ax |-> w.ax, ay |-> w.ay, k |-> w.k]
  BY <1>0, <1>1 DEF IsWrite
<1> USE DEF Updating, Locating
<1>2. CASE ArgY
  <2>1. /\ w.pc = "arg_y" /\ w' = [w EXCEPT !.pc = "arg_x", !.ay = screen_y]
        /\ UNCHANGED <<screen_x, screen_y, crt, memory, before, dirty>>
    BY <1>2 DEF ArgY, At, Go, screen
  <2>2. w'.pc = "arg_x" /\ w'.out = w.out /\ w'.fn = w.fn /\ w'.ay = screen_y
    BY <1>0, <2>1 DEF IsWrite
  <2> QED
    BY <2>1, <2>2
<1>3. CASE ArgX
  <2>1. /\ w.pc = "arg_x" /\ w' = [w EXCEPT !.pc = "compare", !.ax = screen_x]
        /\ UNCHANGED <<screen_x, screen_y, crt, memory, before, dirty>>
    BY <1>3 DEF ArgX, At, Go, screen
  <2>2. w'.pc = "compare" /\ w'.out = w.out /\ w'.fn = w.fn /\ w'.ax = screen_x /\ w'.ay = w.ay
    BY <1>0, <2>1 DEF IsWrite
  <2> QED
    BY <2>1, <2>2
<1>4. CASE Compare
  <2>1. /\ w.pc = "compare"
        /\ w' = [w EXCEPT !.pc = IF w.ax # screen_x \/ w.ay # screen_y THEN "set_x" ELSE "cursor"]
        /\ UNCHANGED <<screen_x, screen_y, crt, memory, before, dirty>>
    BY <1>4 DEF Compare, At, Go, screen
  <2>2. /\ w'.pc = IF w.ax # screen_x \/ w.ay # screen_y THEN "set_x" ELSE "cursor"
        /\ w'.out = w.out /\ w'.fn = w.fn /\ w'.ax = w.ax /\ w'.ay = w.ay
    BY <1>0, <2>1 DEF IsWrite
  <2> QED
    BY <2>1, <2>2
<1>5. CASE SetX
  <2>1. /\ w.pc = "set_x" /\ w' = [w EXCEPT !.pc = "set_y"] /\ screen_x' = w.ax
        /\ UNCHANGED <<screen_y, crt, memory, before, dirty>>
    BY <1>5 DEF SetX, At, Go
  <2>2. w'.pc = "set_y" /\ w'.out = w.out /\ w'.fn = w.fn /\ w'.ax = w.ax /\ w'.ay = w.ay
    BY <1>0, <2>1 DEF IsWrite
  <2> QED
    BY <2>1, <2>2
<1>6. CASE SetY
  <2>1. /\ w.pc = "set_y" /\ w' = [w EXCEPT !.pc = "cursor"] /\ screen_y' = w.ay
        /\ UNCHANGED <<screen_x, crt, memory, before, dirty>>
    BY <1>6 DEF SetY, At, Go
  <2>2. w'.pc = "cursor" /\ w'.out = w.out /\ w'.fn = w.fn
    BY <1>0, <2>1 DEF IsWrite
  <2> QED
    BY <2>1, <2>2
<1>7. CASE CursorPosition
  <2>1. /\ w.pc = "cursor" /\ w' = [w EXCEPT !.pc = "select_lo", !.k = Cell(screen_x, screen_y)]
        /\ UNCHANGED <<screen_x, screen_y, crt, memory, before, dirty>>
    BY <1>7 DEF CursorPosition, At, Go, screen
  <2>2. w'.pc = "select_lo" /\ w'.out = w.out /\ w'.fn = w.fn /\ w'.k = Cell(screen_x, screen_y)
    BY <1>0, <2>1 DEF IsWrite
  <2> QED
    BY <2>1, <2>2
<1>8. CASE Select("select_lo", "lo", 15)
  <2>1. /\ w.pc = "select_lo" /\ w' = [w EXCEPT !.pc = "lo"] /\ crt' = [crt EXCEPT !.index = 15]
        /\ UNCHANGED <<screen_x, screen_y, memory, before, dirty>>
    BY <1>8 DEF Select, At, Go
  <2>2. w'.pc = "lo" /\ w'.out = w.out /\ w'.fn = w.fn /\ w'.k = w.k
    BY <1>0, <2>1 DEF IsWrite
  <2>3. IsCrt(crt') /\ crt'.index = 15
    BY <2>1 DEF IsCrt
  <2> QED
    BY <2>1, <2>2, <2>3
<1>9. CASE CursorLo
  <2>1. PICK byte : byte = w.k % ByteSize
    OBVIOUS
  <2>2. /\ w.pc = "lo" /\ w' = [w EXCEPT !.pc = "select_hi"] /\ Out(byte)
        /\ UNCHANGED <<screen_x, screen_y, memory, before, dirty>>
    BY <1>9, <2>1 DEF CursorLo, At, Go
  <2>3. w'.pc = "select_hi" /\ w'.out = w.out /\ w'.fn = w.fn /\ w'.k = w.k
    BY <1>0, <2>2 DEF IsWrite
  <2>4. IsCrt(crt') /\ crt'.lo = byte
    BY <2>2 DEF Out, IsCrt
  <2> QED
    BY <2>1, <2>2, <2>3, <2>4
<1>10. CASE Select("select_hi", "hi", 14)
  <2>1. /\ w.pc = "select_hi" /\ w' = [w EXCEPT !.pc = "hi"] /\ crt' = [crt EXCEPT !.index = 14]
        /\ UNCHANGED <<screen_x, screen_y, memory, before, dirty>>
    BY <1>10 DEF Select, At, Go
  <2>2. w'.pc = "hi" /\ w'.out = w.out /\ w'.fn = w.fn /\ w'.k = w.k
    BY <1>0, <2>1 DEF IsWrite
  <2>3. IsCrt(crt') /\ crt'.index = 14 /\ crt'.lo = crt.lo
    BY <2>1 DEF IsCrt
  <2> QED
    BY <2>1, <2>2, <2>3
<1> QED
  BY <1>2, <1>3, <1>4, <1>5, <1>6, <1>7, <1>8, <1>9, <1>10 DEF CursorBegins

LEMMA QuietLocating ==
    ASSUME NEW c, Quiet(c), ArgY \/ ArgX \/ Compare \/ SetX \/ SetY \/ CursorBegins
    PROVE  GoesOnWith(c)
<1>0. /\ InPutc(w, memory, screen_x, screen_y, crt, before, c)
      /\ IInv /\ IsCrt(crt) /\ OnIt(before) /\ c # "nul"
  BY DEF Quiet
<1>1. w.pc \in Locating
  BY DEF ArgY, ArgX, Compare, SetX, SetY, CursorBegins, CursorPosition, Select, CursorLo, At, Locating
<1>2. /\ Putc(before, c).x \in Nat /\ Putc(before, c).y \in Nat
      /\ Fed(before, c).x = 0 /\ Fed(before, c).y \in Nat
  BY <1>0, PutcIs
<1>3. PICK gx \in Nat, gy \in Nat :
        /\ Updating(w, screen_x, screen_y, crt, gx, gy)
        /\ IF w.fn = "putc" THEN gx = Putc(before, c).x /\ gy = Putc(before, c).y
                            ELSE gx = Fed(before, c).x /\ gy = Fed(before, c).y
  <2>1. CASE w.fn = "putc"
    BY <1>0, <1>1, <1>2, <2>1 DEF InPutc
  <2>2. CASE w.fn # "putc"
    BY <1>0, <1>1, <1>2, <2>2 DEF InPutc
  <2> QED
    BY <2>1, <2>2
<1>4. /\ Updating(w', screen_x', screen_y', crt', gx, gy)
      /\ w'.pc \in Locating /\ w'.fn = w.fn /\ w'.out = w.out
      /\ UNCHANGED <<memory, before, dirty>> /\ IsCrt(crt')
  BY <1>0, <1>3, LocatingGoesOn
<1>5. SameBehind(memory', memory)
  BY <1>4 DEF SameBehind
<1>6. /\ w'.pc \notin Adding /\ w'.pc \notin Feeding /\ w'.pc \notin Wrapping
      /\ w'.pc \notin {"cell", "load_x", "store_x", "wrap", "load_y", "store_y", "zero_x", "full",
                       "scroll", "store_mod_x", "store_mod_y", "rest"}
  BY <1>4 DEF Locating, Adding, Feeding, Wrapping
<1>7. InPutc(w', memory', screen_x', screen_y', crt', before, c)
  <2>1. CASE w.fn = "putc"
    <3>1. c # "nl" /\ memory = Putc(before, c).mem
      BY <1>0, <1>1, <2>1 DEF InPutc
    <3> QED
      BY <1>3, <1>4, <1>6, <2>1, <3>1 DEF InPutc
  <2>2. CASE w.fn # "putc"
    <3>1. w.fn \in {"scroll", "newline"} /\ Feeds(before, c) /\ memory = Fed(before, c).mem
      BY <1>0, <1>1, <2>2 DEF InPutc
    <3> QED
      BY <1>3, <1>4, <1>6, <2>2, <3>1 DEF InPutc
  <2> QED
    BY <2>1, <2>2
<1>8. w'.pc \notin {"rest"}
  BY <1>6
<1> QED
  BY <1>4, <1>5, <1>7, <1>8 DEF GoesOnWith

LEMMA QuietCursorHi ==
    ASSUME NEW c, Quiet(c), CursorHi
    PROVE  GoesOnWith(c) \/ EndsAs(Putc(before, c))
<1>0. /\ IsWrite(w) /\ screen_x \in Nat /\ screen_y \in Nat
      /\ InPutc(w, memory, screen_x, screen_y, crt, before, c)
      /\ NumRows \in Nat /\ NumCols \in Nat /\ NumRows > 1 /\ NumCols > 0
      /\ IsCrt(crt) /\ OnIt(before) /\ c = Head(w.out) /\ c # "nul" /\ IsMem(memory)
  BY QuietIs
<1>1. w.pc = "hi" /\ w.pc \in Locating /\ UNCHANGED <<memory, screen_x, screen_y>>
  BY DEF CursorHi, At, Locating
<1>2. PICK byte : byte = (w.k \div ByteSize) % ByteSize
  OBVIOUS
<1>3. Out(byte)
  BY <1>2 DEF CursorHi
<1>4. SameBehind(memory', memory)
  BY <1>1 DEF SameBehind
<1>5. ASSUME NEW gx, NEW gy, Updating(w, screen_x, screen_y, crt, gx, gy)
      PROVE  /\ screen_x = gx /\ screen_y = gy /\ IsCrt(crt')
             /\ crt'.lo = Cursor(Cell(gx, gy)).lo /\ crt'.hi = Cursor(Cell(gx, gy)).hi
  <2>1. /\ screen_x = gx /\ screen_y = gy /\ w.k = Cell(gx, gy)
        /\ crt.lo = w.k % ByteSize /\ crt.index = 14
    BY <1>1, <1>5 DEF Updating
  <2>2. IsCrt(crt') /\ crt'.lo = crt.lo /\ crt'.hi = byte
    BY <1>0, <1>3, <2>1 DEF Out, IsCrt
  <2> QED
    BY <1>2, <2>1, <2>2 DEF Cursor
<1>6. PICK e : e = Putc(before, c)
  OBVIOUS
<1>7. w' = Done(w) /\ dirty' = FALSE => w'.pc = "rest" /\ w'.out = Tail(w.out) /\ ~dirty'
  BY DEF Done, Idle
<1>8. CASE w.fn = "putc"
  <2>1. /\ c # "nl" /\ memory = e.mem
        /\ Updating(w, screen_x, screen_y, crt, e.x, e.y)
    BY <1>0, <1>1, <1>6, <1>8 DEF InPutc
  <2>2. w' = Done(w) /\ dirty' = FALSE
    BY <1>8 DEF CursorHi, Finish
  <2> QED
    BY <1>1, <1>4, <1>5, <1>6, <1>7, <2>1, <2>2 DEF EndsAs
<1>9. CASE w.fn # "putc"
  <2>1. PICK f : f = Fed(before, c)
    OBVIOUS
  <2>2. /\ w.fn \in {"scroll", "newline"} /\ Feeds(before, c) /\ memory = f.mem
        /\ Updating(w, screen_x, screen_y, crt, f.x, f.y)
    BY <1>0, <1>1, <1>9, <2>1 DEF InPutc
  <2>3. e.mem = f.mem /\ e.x = f.x /\ e.y = f.y
    BY <1>0, <1>6, <2>1, <2>2, PutcIs
  <2>4. /\ screen_x = f.x /\ screen_y = f.y /\ IsCrt(crt')
        /\ crt'.lo = Cursor(Cell(f.x, f.y)).lo /\ crt'.hi = Cursor(Cell(f.x, f.y)).hi
    BY <1>5, <2>2
  <2>5. CASE w.fn = "scroll"
    <3>1. w' = [w EXCEPT !.pc = "arg_y", !.fn = "newline"] /\ UNCHANGED <<before, dirty>>
      BY <2>5 DEF CursorHi, Go
    <3>2. w'.pc = "arg_y" /\ w'.fn = "newline" /\ w'.out = w.out
      BY <1>0, <3>1 DEF IsWrite
    <3>3. Updating(w', screen_x', screen_y', crt', f.x, f.y)
      BY <1>1, <2>4, <3>2 DEF Updating
    <3> QED
      BY <1>0, <1>1, <1>4, <2>1, <2>2, <2>4, <3>1, <3>2, <3>3
         DEF GoesOnWith, InPutc, Adding, Feeding, Wrapping, Locating
  <2>6. CASE w.fn = "newline" /\ c # "nl"
    <3>1. w' = [w EXCEPT !.pc = "load_mod_x"] /\ UNCHANGED <<before, dirty>>
      BY <1>0, <2>6 DEF CursorHi, Go
    <3>2. w'.pc = "load_mod_x" /\ w'.out = w.out
      BY <1>0, <3>1 DEF IsWrite
    <3> QED
      BY <1>0, <1>1, <1>4, <1>6, <2>2, <2>3, <2>4, <2>6, <3>1, <3>2
         DEF GoesOnWith, InPutc, Adding, Feeding, Wrapping, Locating
  <2>7. CASE w.fn = "newline" /\ c = "nl"
    <3>1. w' = Done(w) /\ dirty' = FALSE
      BY <1>0, <2>7 DEF CursorHi, Finish
    <3> QED
      BY <1>1, <1>4, <1>6, <1>7, <2>2, <2>3, <2>4, <3>1 DEF EndsAs
  <2> QED
    BY <2>2, <2>5, <2>6, <2>7
<1> QED
  BY <1>8, <1>9

LEMMA QuietStep ==
    ASSUME NEW c, Quiet(c), PutcStep
    PROVE  GoesOnWith(c) \/ EndsAs(Putc(before, c))
<1>1. ~PutcStart
  BY DEF PutcStart, At, Quiet, MidPutc
<1>2. \/ PutCell \/ LoadX \/ StoreX \/ Wrap
      \/ LoadY \/ StoreY \/ ZeroX \/ Full \/ ScrollCell
      \/ LoadModX \/ StoreModX \/ LoadModY \/ StoreModY
      \/ ArgY \/ ArgX \/ Compare \/ SetX \/ SetY \/ CursorBegins \/ CursorHi
  BY <1>1, Zenon DEF PutcStep, CursorBegins
<1> QED
  BY <1>2, QuietAdding, QuietFeeding, QuietScroll, QuietWrapping, QuietLocating, QuietCursorHi

-----------------------------------------------------------------------------
(* The invariant: the running putc, if no key has fallen into it and it     *)
(* began on the screen, is on its way.                                      *)

Uncut == MidPutc /\ ~dirty /\ before.x < NumCols /\ before.y < NumRows

OnItsWay ==
    /\ w.out # <<>> /\ Head(w.out) # "nul" /\ OnIt(before)
    /\ InPutc(w, memory, screen_x, screen_y, crt, before, Head(w.out))

PutcInv == PageInv /\ IsCrt(crt) /\ (Uncut => OnItsWay)

\* The cursor's registers stay registers.
LEMMA PlacedCrt ==
    ASSUME NEW s, Placed(s)
    PROVE  IsCrt(s.crt)
<1>1. PICK cursor : cursor = Cursor(Cell(s.x, s.y)) /\ s.crt = cursor
  BY DEF Placed
<1>2. IsCrt(cursor)
  BY <1>1 DEF Cursor, IsCrt
<1> QED
  BY <1>1, <1>2

LEMMA PutcCrt ==
    ASSUME NEW s, IsScreen(s), IsMem(s.mem), IsCrt(s.crt), NEW c
    PROVE  /\ IsScreen(Putc(s, c)) /\ IsMem(Putc(s, c).mem) /\ IsCrt(Putc(s, c).crt)
<1>1. CASE c = "nul"
  <2>1. Putc(s, c) = s
    BY <1>1 DEF Putc
  <2> QED
    BY <2>1
<1>2. CASE c = "nl"
  <2>1. Putc(s, c) = NewLine(s)
    BY <1>2 DEF Putc
  <2> QED
    BY <2>1, NewLinePlaced, PlacedCrt, PutcIsMem
<1>3. CASE c # "nul" /\ c # "nl"
  <2>1. PICK put : put = [s EXCEPT !.mem[Cell(s.x, s.y)] = c, !.x = @ + 1]
    OBVIOUS
  <2>2. IsScreen(put)
    <3>1. PICK mem : mem = [s.mem EXCEPT ![Cell(s.x, s.y)] = c]
      OBVIOUS
    <3>2. PICK x \in Nat : x = s.x + 1
      BY DEF IsScreen
    <3>3. put = [s EXCEPT !.mem = mem, !.x = x]
      BY <2>1, <3>1, <3>2
    <3> QED
      BY <3>3 DEF IsScreen
  <2>3. Putc(s, c) = Wrapped(put)
    BY <1>3, <2>1 DEF Putc
  <2> QED
    BY <2>2, <2>3, WrappedPlaced, PlacedCrt, PutcIsMem
<1> QED
  BY <1>1, <1>2, <1>3

LEMMA DeleteCCrt ==
    ASSUME NEW s, IsScreen(s)
    PROVE  IsCrt(DeleteC(s).crt)
<1> DEFINE here == [s EXCEPT !.mem[Cell(s.x, s.y)] = "nul"]
           x == IF s.x # 0 THEN s.x - 1 ELSE IF s.y # 0 THEN NumCols - 1 ELSE 0
           y == IF s.x = 0 /\ s.y # 0 THEN s.y - 1 ELSE s.y
           gone == [here EXCEPT !.mem[Cell(x, y)] = "blank"]
<1>1. IsScreen(here)
  BY DEF IsScreen
<1>2. IsScreen(gone)
  <2> HIDE DEF here, x, y
  <2> QED
    BY <1>1 DEF IsScreen
<1>3. x \in Nat /\ y \in Nat
  BY Sizes DEF IsScreen
<1>4. DeleteC(s) = Located(gone, x, y)
  BY Zenon DEF DeleteC
<1> HIDE DEF gone, x, y
<1> QED
  BY <1>2, <1>3, <1>4, LocatedPlaced, PlacedCrt

LEMMA PutcStepCrt ==
    ASSUME IsCrt(crt), PutcStep
    PROVE  IsCrt(crt')
<1>1. \/ UNCHANGED crt
      \/ \E r : crt' = [crt EXCEPT !.index = r]
      \/ \E byte : Out(byte)
  <2>1. CASE PutcStart \/ PutCell \/ LoadX \/ StoreX \/ Wrap \/ LoadY \/ StoreY \/ ZeroX \/ Full \/ ScrollCell
    BY <2>1 DEF PutcStart, PutCell, LoadX, StoreX, Wrap, LoadY, StoreY, ZeroX, Full, ScrollCell, screen
  <2>2. CASE LoadModX \/ StoreModX \/ LoadModY \/ StoreModY \/ ArgY \/ ArgX \/ Compare \/ SetX \/ SetY
             \/ CursorPosition
    BY <2>2 DEF LoadModX, StoreModX, LoadModY, StoreModY, ArgY, ArgX, Compare, SetX, SetY,
                CursorPosition, screen
  <2>3. CASE Select("select_lo", "lo", 15) \/ Select("select_hi", "hi", 14)
    BY <2>3 DEF Select
  <2>4. CASE CursorLo
    BY <2>4, Zenon DEF CursorLo
  <2>5. CASE CursorHi
    BY <2>5, Zenon DEF CursorHi
  <2> QED
    BY <2>1, <2>2, <2>3, <2>4, <2>5 DEF PutcStep
<1>2. ASSUME NEW r, crt' = [crt EXCEPT !.index = r] PROVE IsCrt(crt')
  BY <1>2 DEF IsCrt
<1>3. ASSUME NEW byte, Out(byte) PROVE IsCrt(crt')
  BY <1>3 DEF IsCrt, Out
<1> QED
  BY <1>1, <1>2, <1>3

LEMMA ScreenOfPages ==
    ASSUME PageInv
    PROVE  /\ IsScreen(Screen) /\ IsMem(Screen.mem)
           /\ Screen.mem = memory /\ Screen.x = screen_x /\ Screen.y = screen_y /\ Screen.crt = crt
BY ScreenIs DEF PageInv, Screen

LEMMA KeyCrt ==
    ASSUME PageInv, IsCrt(crt),
           \/ \E code \in KeyCodes : TypeKey(code)
           \/ EnterKey \/ Backspace \/ Tab \/ CtrlL
    PROVE  IsCrt(crt')
<1>0. IsScreen(Screen) /\ IsMem(Screen.mem) /\ IsCrt(Screen.crt)
  BY ScreenOfPages
<1>1. ASSUME NEW code \in KeyCodes, TypeKey(code) PROVE IsCrt(crt')
  <2>1. UNCHANGED screen \/ \E c \in {"nul", "key"} : SetScreen(Putc(Screen, c))
    BY <1>1 DEF TypeKey
  <2> QED
    BY <1>0, <2>1, PutcCrt DEF screen, SetScreen
<1>2. CASE EnterKey
  <2>1. \/ UNCHANGED screen
        \/ SetScreen(Putc(Screen, "nl"))
        \/ SetScreen(Putc(Putc(Screen, "nl"), "nl"))
    BY <1>2 DEF EnterKey
  <2> QED
    BY <1>0, <2>1, PutcCrt DEF screen, SetScreen
<1>3. CASE Backspace
  <2>1. UNCHANGED screen \/ SetScreen(DeleteC(Screen))
    BY <1>3 DEF Backspace
  <2> QED
    BY <1>0, <2>1, DeleteCCrt DEF screen, SetScreen
<1>4. CASE Tab
  <2>1. SetScreen(Putc(Putc(Putc(Putc(Screen, "tab"), "tab"), "tab"), "tab"))
    BY <1>4 DEF Tab
  <2>2. PICK t1, t2, t3, t4 : /\ t1 = Putc(Screen, "tab") /\ t2 = Putc(t1, "tab")
                              /\ t3 = Putc(t2, "tab") /\ t4 = Putc(t3, "tab")
    OBVIOUS
  <2>3. IsScreen(t1) /\ IsMem(t1.mem) /\ IsCrt(t1.crt)
    BY <1>0, <2>2, PutcCrt
  <2>4. IsScreen(t2) /\ IsMem(t2.mem) /\ IsCrt(t2.crt)
    BY <2>2, <2>3, PutcCrt
  <2>5. IsScreen(t3) /\ IsMem(t3.mem) /\ IsCrt(t3.crt)
    BY <2>2, <2>4, PutcCrt
  <2>6. IsCrt(t4.crt)
    BY <2>2, <2>5, PutcCrt
  <2> QED
    BY <2>1, <2>2, <2>6 DEF SetScreen
<1>5. CASE CtrlL
  <2>1. SetScreen(Located([Screen EXCEPT !.mem = Clear(memory)], 0, 0))
    BY <1>5 DEF CtrlL
  <2>2. PICK mem : mem = Clear(memory)
    OBVIOUS
  <2>3. PICK z : z = [Screen EXCEPT !.mem = mem]
    OBVIOUS
  <2>4. IsScreen(z)
    BY <1>0, <2>3 DEF IsScreen
  <2> QED
    BY <2>1, <2>2, <2>3, <2>4, LocatedPlaced, PlacedCrt DEF SetScreen
<1> QED
  BY <1>1, <1>2, <1>3, <1>4, <1>5

\* Alt+F to another terminal sets the cursor.
LEMMA AltFCrt ==
    ASSUME PageInv, NEW t \in Terminals, AltF(t), t # terminal_active_id
    PROVE  crt' = Cursor(Cell(screen_x', screen_y')) /\ IsCrt(crt')
<1> DEFINE to == screen_coord_storage[t]
           s0 == [Screen EXCEPT !.mem = Swapped(terminal_active_id, t)]
<1>1. SetScreen(Located(s0, to.x, to.y))
  BY DEF AltF
<1>2. to.x \in Nat /\ to.y \in Nat
  BY DEF PageInv, IInv, Stored
<1>3. IsScreen(s0)
  BY ScreenIs DEF IsScreen, PageInv
<1> HIDE DEF s0, to
<1>4. PICK z : z = Located(s0, to.x, to.y)
  OBVIOUS
<1>5. Placed(z)
  BY <1>2, <1>3, <1>4, LocatedPlaced
<1>6. crt' = z.crt /\ screen_x' = z.x /\ screen_y' = z.y
  BY <1>1, <1>4 DEF SetScreen
<1> QED
  BY <1>5, <1>6, PlacedCrt DEF Placed

\* A putc begins.
LEMMA PutcStartsUncut ==
    ASSUME PageInv, PutcStart, MidPutc'
    PROVE  /\ before' = Screen /\ UNCHANGED <<screen, dirty>> /\ w'.out = w.out /\ ~MidPutc
           /\ Uncut' => OnItsWay'
<1>0. IsWrite(w)
  BY DEF PageInv, IInv, Registers
<1>1. w.pc = "rest" /\ w.out # <<>> /\ ~MidPutc /\ UNCHANGED screen
  BY DEF PutcStart, At, MidPutc
<1>2. PICK c : c = Head(w.out)
  OBVIOUS
<1>3. /\ w' = [w EXCEPT !.pc = IF c = "nl" THEN "load_y" ELSE "cell"]
      /\ before' = Screen /\ UNCHANGED dirty /\ c # "nul"
  <2>1. ~Finish
    BY DEF Finish, Done, Idle, MidPutc
  <2> QED
    BY <1>2, <2>1 DEF PutcStart
<1>4. w'.pc = (IF c = "nl" THEN "load_y" ELSE "cell") /\ w'.out = w.out
  BY <1>0, <1>3 DEF IsWrite
<1>5. ASSUME Uncut' PROVE OnItsWay'
  <2>1. Screen.x < NumCols /\ Screen.y < NumRows
    BY <1>3, <1>5 DEF Uncut
  <2>2. OnIt(Screen)
    BY <2>1, ScreenOfPages DEF OnIt
  <2>3. memory' = Screen.mem /\ screen_x' = Screen.x /\ screen_y' = Screen.y
    BY <1>1 DEF screen, Screen
  <2>4. InPutc(w', memory', screen_x', screen_y', crt', Screen, c)
    BY <1>4, <2>3 DEF InPutc, Adding, Feeding, Wrapping, Locating, Begun, Feeds
  <2> QED
    BY <1>1, <1>2, <1>3, <1>4, <2>2, <2>4 DEF OnItsWay
<1> QED
  BY <1>1, <1>3, <1>4, <1>5

\* It goes on.
LEMMA UncutIsQuiet ==
    ASSUME PutcInv, Uncut
    PROVE  Quiet(Head(w.out))
BY DEF PutcInv, PageInv, Uncut, OnItsWay, Quiet

LEMMA PutcStepDirty ==
    ASSUME PutcStep, MidPutc, MidPutc'
    PROVE  UNCHANGED <<before, dirty>>
<1>1. ~PutcStart /\ ~Finish
  BY DEF PutcStart, At, MidPutc, Finish, Done, Idle
<1>2. UNCHANGED <<before, dirty>> \/ Finish
  <2>1. CASE PutCell \/ LoadX \/ StoreX \/ Wrap \/ LoadY \/ StoreY \/ ZeroX \/ Full \/ ScrollCell
    BY <2>1 DEF PutCell, LoadX, StoreX, Wrap, LoadY, StoreY, ZeroX, Full, ScrollCell, Go
  <2>2. CASE LoadModX \/ StoreModX \/ LoadModY \/ StoreModY \/ ArgY \/ ArgX \/ Compare \/ SetX \/ SetY
             \/ CursorPosition
    BY <2>2 DEF LoadModX, StoreModX, LoadModY, StoreModY, ArgY, ArgX, Compare, SetX, SetY,
                CursorPosition, Go
  <2>3. CASE Select("select_lo", "lo", 15) \/ Select("select_hi", "hi", 14) \/ CursorLo
    BY <2>3 DEF Select, CursorLo, Go
  <2>4. CASE CursorHi
    BY <2>4 DEF CursorHi, Go
  <2> QED
    BY <1>1, <2>1, <2>2, <2>3, <2>4 DEF PutcStep
<1> QED
  BY <1>1, <1>2

LEMMA PutcStepUncut ==
    ASSUME PutcInv, PutcStep
    PROVE  Uncut' => OnItsWay'
<1> SUFFICES ASSUME Uncut' PROVE OnItsWay'
  OBVIOUS
<1>0. MidPutc'
  BY DEF Uncut
<1>1. CASE MidPutc
  <2>1. UNCHANGED <<before, dirty>>
    BY <1>0, <1>1, PutcStepDirty
  <2>2. Uncut
    BY <1>1, <2>1 DEF Uncut
  <2>3. PICK c : c = Head(w.out)
    OBVIOUS
  <2>4. Quiet(c)
    BY <2>2, <2>3, UncutIsQuiet
  <2>5. GoesOnWith(c)
    BY <1>0, <2>4, QuietStep DEF EndsAs, MidPutc
  <2> QED
    BY <2>1, <2>3, <2>4, <2>5 DEF GoesOnWith, OnItsWay, Quiet
<1>2. CASE ~MidPutc
  <2>1. w.pc = "rest"
    BY <1>2 DEF MidPutc
  <2>2. PutcStart
    BY <2>1 DEF PutcStep, At, PutCell, LoadX, StoreX, Wrap, LoadY, StoreY, ZeroX, Full, ScrollCell,
                LoadModX, StoreModX, LoadModY, StoreModY, ArgY, ArgX, Compare, SetX, SetY,
                CursorPosition, Select, CursorLo, CursorHi
  <2> QED
    BY <1>0, <2>2, PutcStartsUncut DEF PutcInv
<1> QED
  BY <1>1, <1>2

LEMMA PutcInductive == PutcInv /\ [Next]_vars => PutcInv'
<1> SUFFICES ASSUME PutcInv, [Next]_vars PROVE PutcInv'
  OBVIOUS
<1>0. PageInv /\ PageInv' /\ IsCrt(crt)
  BY PageInductive DEF PutcInv
<1>1. ASSUME NEW text \in Texts, Write(text) PROVE PutcInv'
  <2>1. ~MidPutc' /\ UNCHANGED crt
    BY <1>1 DEF Write, screen, MidPutc, Writing, Idle
  <2> QED
    BY <1>0, <2>1 DEF PutcInv, Uncut
<1>2. CASE PutcStep
  BY <1>0, <1>2, PutcStepCrt, PutcStepUncut DEF PutcInv
<1>3. CASE (\E code \in KeyCodes : TypeKey(code)) \/ EnterKey \/ Backspace \/ Tab \/ CtrlL
  <2>1. GoesOn
    BY <1>3 DEF TypeKey, EnterKey, Backspace, Tab, CtrlL
  <2>2. ~Uncut'
    BY <2>1 DEF GoesOn, Uncut, MidPutc
  <2> QED
    BY <1>0, <1>3, <2>2, KeyCrt DEF PutcInv
<1>4. CASE CtrlC
  <2>1. ~MidPutc' /\ UNCHANGED crt
    BY <1>4 DEF CtrlC, screen, MidPutc, Idle
  <2> QED
    BY <1>0, <2>1 DEF PutcInv, Uncut
<1>5. ASSUME NEW t \in Terminals, AltF(t) PROVE PutcInv'
  <2>1. CASE t = terminal_active_id
    <3>1. GoesOn /\ UNCHANGED crt
      BY <1>5, <2>1 DEF AltF, screen
    <3>2. ~Uncut'
      BY <3>1 DEF GoesOn, Uncut, MidPutc
    <3> QED
      BY <1>0, <3>1, <3>2 DEF PutcInv
  <2>2. CASE t # terminal_active_id
    <3>1. dirty' = (w'.pc # "rest")
      BY <1>5, <2>2, Zenon DEF AltF
    <3>2. ~Uncut'
      BY <3>1 DEF Uncut, MidPutc
    <3> QED
      BY <1>0, <1>5, <2>2, <3>2, AltFCrt DEF PutcInv
  <2> QED
    BY <2>1, <2>2
<1>6. CASE ReadLine \/ UNCHANGED vars
  <2>1. UNCHANGED <<screen, w, before, dirty>>
    BY <1>6 DEF ReadLine, vars
  <2>2. UNCHANGED <<memory, screen_x, screen_y, crt, w, before, dirty>>
    BY <2>1 DEF screen
  <2>3. (Uncut' <=> Uncut) /\ (OnItsWay' <=> OnItsWay)
    BY <2>2 DEF Uncut, OnItsWay, MidPutc
  <2> QED
    BY <1>0, <2>2, <2>3 DEF PutcInv
<1> QED
  BY <1>1, <1>2, <1>3, <1>4, <1>5, <1>6 DEF Next

LEMMA PutcInitially == Init => PutcInv
<1> SUFFICES ASSUME Init PROVE PutcInv
  OBVIOUS
<1>1. crt = Cursor(0) /\ w = Idle
  BY DEF Init
<1>2. IsCrt(crt) /\ ~MidPutc
  BY <1>1 DEF IsCrt, Cursor, MidPutc, Idle
<1> QED
  BY <1>2, PageInitially DEF PutcInv, Uncut

-----------------------------------------------------------------------------
(* Every step of the screen is a step of the terminals or shows nothing.    *)

LEMMA FrontText ==
    ASSUME terminal_active_id \in Terminals
    PROVE  TerminalTexts[terminal_active_id] = Shows(Front)
BY TextIs DEF TerminalTexts, Shows

LEMMA BehindText ==
    ASSUME NEW t \in Terminals, t # terminal_active_id
    PROVE  TerminalTexts[t] = [rows |-> RowsAt(memory, PageStart(t)),
                               x |-> screen_coord_storage[t].x, y |-> screen_coord_storage[t].y]
BY TextIs DEF TerminalTexts, PageStart

\* The cells of terminal t's page.
LEMMA PageCell ==
    ASSUME NEW t \in Terminals, NEW i \in 0 .. NumCols - 1, NEW j \in 0 .. NumRows - 1
    PROVE  \E k \in 0 .. PageCells - 1, a \in Nat :
              /\ k = Cell(i, j) /\ 0 + k = k /\ a = PageStart(t)
              /\ k \in Memory /\ k < PageCells /\ a + k \in Memory /\ a + k >= PageCells
              /\ a + k \in Saved(t) /\ a + k - a = k /\ k + a = a + k
              /\ \A u \in Terminals : u # t => a + k \notin Saved(u)
<1>1. PICK k \in 0 .. Area - 1 : k = Cell(i, j)
  BY CellShown
<1>2. PICK a \in Nat : a = PageStart(t)
  BY Pages
<1>3. k \in 0 .. PageCells - 1
  BY <1>1, Areas
<1>4. /\ 0 + k = k /\ k \in Memory /\ k < PageCells /\ a + k \in Memory /\ a + k >= PageCells
      /\ a + k \in Saved(t) /\ a + k - a = k /\ k + a = a + k
  BY <1>2, <1>3, Areas, Pages, SMTT(30)
<1>5. \A u \in Terminals : u # t => a + k \notin Saved(u)
  <2> TAKE u \in Terminals
  <2> HAVE u # t
  <2>1. PICK b \in Nat : b = PageStart(u) /\ Saved(u) = b .. b + PageCells - 1
    BY Pages
  <2>2. b + PageCells <= a \/ a + PageCells <= b
    BY <1>2, <2>1, Pages
  <2> QED
    BY <1>3, <2>1, <2>2, Areas
<1> QED
  BY <1>1, <1>2, <1>3, <1>4, <1>5

LEMMA SameBehindText ==
    ASSUME NEW t \in Terminals, t # terminal_active_id, SameBehind(memory', memory),
           UNCHANGED <<terminal_active_id, screen_coord_storage>>
    PROVE  TerminalTexts'[t] = TerminalTexts[t]
<1>1. ASSUME NEW i \in 0 .. NumCols - 1, NEW j \in 0 .. NumRows - 1
      PROVE  memory'[PageStart(t) + Cell(i, j)] = memory[PageStart(t) + Cell(i, j)]
  BY PageCell DEF SameBehind
<1>2. RowsAt(memory', PageStart(t)) = RowsAt(memory, PageStart(t))
  BY <1>1, SameRows
<1>3. TerminalTexts[t] = [rows |-> RowsAt(memory, PageStart(t)),
                          x |-> screen_coord_storage[t].x, y |-> screen_coord_storage[t].y]
  BY BehindText
<1>4. TerminalTexts'[t] = [rows |-> RowsAt(memory', PageStart(t)),
                           x |-> screen_coord_storage'[t].x, y |-> screen_coord_storage'[t].y]
  BY TextIs DEF TerminalTexts, PageStart
<1> QED
  BY <1>2, <1>3, <1>4

\* The terminal in front comes to show what is in front now.
LEMMA FrontBecomes ==
    ASSUME terminal_active_id \in Terminals, SameBehind(memory', memory),
           UNCHANGED <<terminal_active_id, screen_coord_storage>>
    PROVE  TerminalTexts' = [TerminalTexts EXCEPT ![terminal_active_id] = Shows(Front)']
<1>1. PICK T, U, s, a : T = TerminalTexts /\ U = TerminalTexts' /\ s = Shows(Front)' /\ a = terminal_active_id
  OBVIOUS
<1>2. T = [t \in Terminals |-> T[t]] /\ U = [t \in Terminals |-> U[t]]
  <2>1. T = [t \in Terminals |-> T[t]]
    BY <1>1 DEF TerminalTexts
  <2>2. U = [t \in Terminals |-> U[t]]
    BY <1>1 DEF TerminalTexts
  <2> QED
    BY <2>1, <2>2
<1>3. \A t \in Terminals : t # a => U[t] = T[t]
  BY <1>1, SameBehindText
<1>4. U[a] = s
  BY <1>1, TextIs DEF TerminalTexts, Shows
<1>5. U = [T EXCEPT ![a] = s]
  BY <1>1, <1>2, <1>3, <1>4
<1> QED
  BY <1>1, <1>5

LEMMA FrontStays ==
    ASSUME terminal_active_id \in Terminals, SameBehind(memory', memory),
           UNCHANGED <<terminal_active_id, screen_coord_storage>>, Shows(Front)' = Shows(Front)
    PROVE  TerminalTexts' = TerminalTexts
<1>1. PICK T, s, a : T = TerminalTexts /\ s = Shows(Front) /\ a = terminal_active_id
  OBVIOUS
<1>2. T = [t \in Terminals |-> T[t]] /\ T[a] = s
  <2>1. T = [t \in Terminals |-> T[t]]
    BY <1>1 DEF TerminalTexts
  <2> QED
    BY <1>1, <2>1, FrontText
<1>3. TerminalTexts' = [T EXCEPT ![a] = s]
  BY <1>1, FrontBecomes
<1> QED
  BY <1>1, <1>2, <1>3

\* The cursor's two bytes.
LEMMA PositionIs ==
    ASSUME NEW s, s.x \in Nat, s.y \in Nat
    PROVE  Teletype!Position(Shows(s)) = <<Cursor(Cell(s.x, s.y)).lo, Cursor(Cell(s.x, s.y)).hi>>
<1>1. PICK p : p = Cell(s.x, s.y)
  OBVIOUS
<1>2. s.y * NumCols + s.x = p
  BY <1>1, Sizes DEF Cell
<1>3. Teletype!Position(Shows(s)) = <<p % ByteSize, (p \div ByteSize) % ByteSize>>
  BY <1>2 DEF Teletype!Position, Shows
<1> QED
  BY <1>1, <1>3 DEF Cursor

\* What is in front, with the cursor behind it, is shown.
LEMMA Becoming ==
    ASSUME terminal_active_id \in Terminals, SameBehind(memory', memory),
           UNCHANGED <<terminal_active_id, screen_coord_storage>>, ~MidPutc',
           screen_x' \in Nat, screen_y' \in Nat,
           crt'.lo = Cursor(Cell(screen_x', screen_y')).lo,
           crt'.hi = Cursor(Cell(screen_x', screen_y')).hi,
           NEW s, s = [rows |-> RowsAt(memory', 0), x |-> screen_x', y |-> screen_y']
    PROVE  Teletype!Becomes(s)
<1>1. Front' = Screen'
  BY DEF Front
<1>2. PICK z : z = Screen'
  OBVIOUS
<1>3. z.mem = memory' /\ z.x = screen_x' /\ z.y = screen_y' /\ z.crt = crt'
  BY <1>2 DEF Screen
<1>4. Shows(z) = s
  BY <1>3 DEF Shows
<1>5. Shows(Front)' = s
  <2>1. Shows(Front)' = Shows(z)
    BY <1>1, <1>2 DEF Shows
  <2> QED
    BY <1>4, <2>1
<1>6. TerminalTexts' = [TerminalTexts EXCEPT ![terminal_active_id] = s]
  BY <1>5, FrontBecomes
<1>7. <<Front.crt.lo, Front.crt.hi>>' = Teletype!Position(s)
  <2>1. <<Front.crt.lo, Front.crt.hi>>' = <<crt'.lo, crt'.hi>>
    BY <1>1, <1>2, <1>3
  <2>2. Teletype!Position(Shows(z)) = <<crt'.lo, crt'.hi>>
    BY <1>3, PositionIs
  <2> QED
    BY <1>4, <2>1, <2>2
<1> QED
  BY <1>6, <1>7 DEF Teletype!Becomes

LEMMA Stutters ==
    ASSUME terminal_active_id \in Terminals, SameBehind(memory', memory),
           UNCHANGED <<terminal_active_id, screen_coord_storage, terminal_flags>>,
           Shows(Front)' = Shows(Front), Front'.crt = Front.crt, w'.out = w.out
    PROVE  UNCHANGED <<Teletype!vars>>
<1>1. TerminalTexts' = TerminalTexts
  BY FrontStays
<1>2. <<Front.crt.lo, Front.crt.hi>>' = <<Front.crt.lo, Front.crt.hi>>
  <2>1. Front.crt' = Front'.crt
    OBVIOUS
  <2> QED
    BY <2>1
<1> QED
  BY <1>1, <1>2 DEF Teletype!vars

\* Between putcs: what is in front is the screen.
LEMMA AtRest ==
    ASSUME PutcInv, ~MidPutc
    PROVE  /\ Front = Screen /\ terminal_active_id \in Terminals
           /\ TerminalTexts[terminal_active_id] = Shows(Screen)
           /\ Undisturbed => OnIt(Screen)
<1>1. Front = Screen
  BY DEF Front
<1>2. terminal_active_id \in Terminals
  BY DEF PutcInv, PageInv, IInv
<1>3. TerminalTexts[terminal_active_id] = Shows(Screen)
  BY <1>1, <1>2, FrontText DEF Shows
<1>4. Undisturbed => Screen.x < NumCols /\ Screen.y < NumRows
  BY <1>1 DEF Undisturbed
<1> QED
  BY <1>1, <1>2, <1>3, <1>4, ScreenOfPages DEF PutcInv, OnIt

LEMMA WriteStarts ==
    ASSUME PutcInv, NEW text \in Texts, Write(text)
    PROVE  Teletype!Start
<1>1. w = Idle /\ w' = Writing(text) /\ UNCHANGED <<screen, terminals>>
  BY DEF Write
<1>2. w.out = <<>> /\ w'.out = text /\ ~MidPutc /\ ~MidPutc'
  BY <1>1 DEF Idle, Writing, MidPutc
<1>3. UNCHANGED <<memory, screen_x, screen_y, crt, terminal_active_id, screen_coord_storage, terminal_flags>>
  BY <1>1 DEF screen, terminals
<1>4. Front = Screen /\ Front' = Screen /\ SameBehind(memory', memory)
  BY <1>2, <1>3 DEF Front, Screen, SameBehind
<1>5. TerminalTexts' = TerminalTexts
  <2>1. Shows(Front)' = Shows(Front)
    BY <1>4 DEF Shows
  <2> QED
    BY <1>2, <1>3, <1>4, <2>1, AtRest, FrontStays
<1>6. <<Front.crt.lo, Front.crt.hi>>' = <<Front.crt.lo, Front.crt.hi>>
  BY <1>4
<1> QED
  BY <1>2, <1>3, <1>5, <1>6 DEF Teletype!Start

LEMMA PutcStartsShow ==
    ASSUME PutcInv, PutcStart
    PROVE  [Teletype!Show]_<<Teletype!vars>>
<1>1. w.pc = "rest" /\ w.out # <<>> /\ ~MidPutc /\ UNCHANGED <<screen, terminals>>
  BY DEF PutcStart, At, MidPutc
<1>2. UNCHANGED <<memory, screen_x, screen_y, crt, terminal_active_id, screen_coord_storage, terminal_flags>>
  BY <1>1 DEF screen, terminals
<1>3. Front = Screen /\ SameBehind(memory', memory) /\ terminal_active_id \in Terminals
  BY <1>1, <1>2, AtRest DEF SameBehind
<1>4. CASE MidPutc'
  <2>1. Front' = Screen /\ w'.out = w.out
    BY <1>4, PutcStartsUncut DEF Front, PutcInv
  <2>2. Shows(Front)' = Shows(Front)
    BY <1>3, <2>1 DEF Shows
  <2> QED
    BY <1>2, <1>3, <2>1, <2>2, Stutters
<1>5. CASE ~MidPutc'
  <2>0. IsWrite(w)
    BY DEF PutcInv, PageInv, IInv, Registers
  <2>1. Head(w.out) = "nul" /\ w' = Done(w)
    <3>1. CASE Head(w.out) = "nul"
      BY <3>1 DEF PutcStart, Finish
    <3>2. CASE Head(w.out) # "nul"
      <4>1. w' = [w EXCEPT !.pc = IF Head(w.out) = "nl" THEN "load_y" ELSE "cell"]
        BY <3>2 DEF PutcStart
      <4>2. w'.pc # "rest"
        BY <2>0, <4>1 DEF IsWrite
      <4> QED
        BY <1>5, <4>2 DEF MidPutc
    <3> QED
      BY <3>1, <3>2
  <2>2. w'.out = Tail(w.out)
    BY <2>1 DEF Done, Idle
  <2>3. Front' = Screen
    BY <1>2, <1>5 DEF Front, Screen
  <2>4. TerminalTexts' = TerminalTexts
    <3>1. Shows(Front)' = Shows(Front)
      BY <1>3, <2>3 DEF Shows
    <3> QED
      BY <1>2, <1>3, <3>1, FrontStays
  <2>5. <<Front.crt.lo, Front.crt.hi>>' = <<Front.crt.lo, Front.crt.hi>>
    BY <1>3, <2>3
  <2>6. Teletype!Show
    BY <1>1, <1>2, <2>1, <2>2, <2>4, <2>5 DEF Teletype!Show
  <2> QED
    BY <2>6
<1> QED
  BY <1>4, <1>5

LEMMA PutcStepShows ==
    ASSUME PutcInv, PutcInv', PutcStep, Undisturbed
    PROVE  [Teletype!Show]_<<Teletype!vars>>
<1>1. CASE ~MidPutc
  <2>1. w.pc = "rest"
    BY <1>1 DEF MidPutc
  <2>2. PutcStart
    BY <2>1 DEF PutcStep, At, PutCell, LoadX, StoreX, Wrap, LoadY, StoreY, ZeroX, Full, ScrollCell,
                LoadModX, StoreModX, LoadModY, StoreModY, ArgY, ArgX, Compare, SetX, SetY,
                CursorPosition, Select, CursorLo, CursorHi
  <2> QED
    BY <2>2, PutcStartsShow
<1>2. CASE MidPutc
  <2>0. Front = before /\ terminal_active_id \in Terminals
    BY <1>2 DEF Front, PutcInv, PageInv, IInv
  <2>1. Uncut
    BY <1>2, <2>0 DEF Undisturbed, Uncut
  <2>2. PICK c : c = Head(w.out)
    OBVIOUS
  <2>3. Quiet(c)
    BY <2>1, <2>2, UncutIsQuiet
  <2>4. w.out # <<>> /\ c # "nul" /\ OnIt(before)
    BY <2>3 DEF Quiet
  <2>5. UNCHANGED <<terminal_active_id, screen_coord_storage, terminal_flags>>
    <3>1. UNCHANGED terminals
      BY DEF PutcStep, At, PutcStart, PutCell, LoadX, StoreX, Wrap, LoadY, StoreY, ZeroX, Full,
             ScrollCell, LoadModX, StoreModX, LoadModY, StoreModY, ArgY, ArgX, Compare, SetX, SetY,
             CursorPosition, Select, CursorLo, CursorHi
    <3> QED
      BY <3>1 DEF terminals
  <2>6. CASE GoesOnWith(c)
    <3>1. w'.out = w.out /\ before' = before /\ MidPutc' /\ SameBehind(memory', memory)
      BY <2>6 DEF GoesOnWith, MidPutc
    <3>2. Front' = before
      BY <3>1 DEF Front
    <3>3. Shows(Front)' = Shows(Front) /\ Front'.crt = Front.crt
      BY <2>0, <3>2 DEF Shows
    <3> QED
      BY <2>0, <2>5, <3>1, <3>3, Stutters
  <2>7. CASE EndsAs(Putc(before, c))
    <3>1. PICK e : e = Putc(before, c)
      OBVIOUS
    <3>2. /\ w'.out = Tail(w.out) /\ ~MidPutc' /\ SameBehind(memory', memory)
          /\ memory' = e.mem /\ screen_x' = e.x /\ screen_y' = e.y
          /\ crt'.lo = Cursor(Cell(e.x, e.y)).lo /\ crt'.hi = Cursor(Cell(e.x, e.y)).hi
      BY <2>7, <3>1 DEF EndsAs, MidPutc
    <3>3. Shows(e) = Teletype!Put(Shows(before), c) /\ e.x \in Nat /\ e.y \in Nat
      BY <2>4, <3>1, PutcShows DEF OnIt, IsScreen
    <3>4. PICK s : s = Shows(e)
      OBVIOUS
    <3>5. s = [rows |-> RowsAt(memory', 0), x |-> screen_x', y |-> screen_y']
      BY <3>2, <3>4 DEF Shows
    <3>6. Teletype!Becomes(s)
      BY <2>0, <2>5, <3>2, <3>3, <3>5, Becoming
    <3>7. s = Teletype!Put(TerminalTexts[terminal_active_id], Head(w.out))
      <4>1. TerminalTexts[terminal_active_id] = Shows(before)
        BY <2>0, FrontText DEF Shows
      <4> QED
        BY <2>2, <3>3, <3>4, <4>1
    <3>8. Teletype!Show
      BY <2>2, <2>4, <2>5, <3>2, <3>6, <3>7 DEF Teletype!Show
    <3> QED
      BY <3>8
  <2> QED
    BY <2>3, <2>6, <2>7, QuietStep
<1> QED
  BY <1>1, <1>2

\* A key that a quiet terminal echoes.
LEMMA EchoBecomes ==
    ASSUME PutcInv, Undisturbed, GoesOn, UNCHANGED <<screen_coord_storage, terminal_active_id>>,
           NEW z, SetScreen(z), OnIt(z), Placed(z), SameBehind(z.mem, memory)
    PROVE  Teletype!Becomes(Shows(z)) /\ UNCHANGED w
<1>1. ~MidPutc /\ ~MidPutc' /\ w' = w
  BY DEF GoesOn, Undisturbed, MidPutc
<1>2. memory' = z.mem /\ screen_x' = z.x /\ screen_y' = z.y /\ crt' = Cursor(Cell(z.x, z.y))
  BY DEF SetScreen, Placed
<1>3. screen_x' \in Nat /\ screen_y' \in Nat
  BY <1>2 DEF OnIt, IsScreen
<1>4. PICK s : s = Shows(z)
  OBVIOUS
<1>5. s = [rows |-> RowsAt(memory', 0), x |-> screen_x', y |-> screen_y']
  BY <1>2, <1>4 DEF Shows
<1>6. Teletype!Becomes(s)
  <2>1. terminal_active_id \in Terminals
    BY <1>1, AtRest
  <2>2. SameBehind(memory', memory)
    BY <1>2
  <2>3. crt'.lo = Cursor(Cell(screen_x', screen_y')).lo /\ crt'.hi = Cursor(Cell(screen_x', screen_y')).hi
    BY <1>2
  <2> QED
    BY <1>1, <1>3, <1>5, <2>1, <2>2, <2>3, Becoming
<1> QED
  BY <1>1, <1>4, <1>6

LEMMA SameBehindTwice ==
    ASSUME NEW m2, NEW m1, NEW m0, SameBehind(m2, m1), SameBehind(m1, m0)
    PROVE  SameBehind(m2, m0)
BY DEF SameBehind

\* A key between putcs that shows nothing.
LEMMA SameScreenStutters ==
    ASSUME PutcInv, ~MidPutc, ~MidPutc', UNCHANGED <<screen, terminals>>, w'.out = w.out
    PROVE  UNCHANGED <<Teletype!vars>>
<1>1. /\ UNCHANGED <<memory, screen_x, screen_y, crt>>
      /\ UNCHANGED <<terminal_active_id, screen_coord_storage, terminal_flags>>
  BY DEF screen, terminals
<1>2. Front = Screen /\ Front' = Screen /\ SameBehind(memory', memory)
  BY <1>1 DEF Front, Screen, SameBehind
<1>3. Shows(Front)' = Shows(Front) /\ Front'.crt = Front.crt
  BY <1>2 DEF Shows
<1> QED
  BY <1>1, <1>2, <1>3, AtRest, Stutters

LEMMA KeyEchoes ==
    ASSUME PutcInv, Undisturbed,
           \/ \E code \in KeyCodes : TypeKey(code)
           \/ EnterKey \/ Backspace \/ Tab \/ CtrlL
    PROVE  [Teletype!Echo]_<<Teletype!vars>>
<1>0. /\ GoesOn /\ UNCHANGED <<screen_coord_storage, terminal_active_id, terminal_flags>>
  BY DEF TypeKey, EnterKey, Backspace, Tab, CtrlL
<1>1. ~MidPutc /\ ~MidPutc' /\ w' = w /\ UNCHANGED suspended
  BY <1>0 DEF GoesOn, Undisturbed, MidPutc
<1>2. PICK front : front = Shows(Screen) /\ front = TerminalTexts[terminal_active_id]
  BY <1>1, AtRest
<1>3. OnIt(Screen) /\ Screen.mem = memory
  BY <1>1, AtRest, ScreenOfPages DEF PutcInv
<1>4. ASSUME UNCHANGED screen PROVE UNCHANGED <<Teletype!vars>>
  BY <1>0, <1>1, <1>4, SameScreenStutters DEF terminals
<1>5. ASSUME NEW z, SetScreen(z), OnIt(z), Placed(z), SameBehind(z.mem, memory)
      PROVE  Teletype!Becomes(Shows(z))
  BY <1>0, <1>5, EchoBecomes
<1>6. ASSUME NEW code \in KeyCodes, TypeKey(code) PROVE [Teletype!Echo]_<<Teletype!vars>>
  <2>1. UNCHANGED screen \/ SetScreen(Putc(Screen, "nul")) \/ SetScreen(Putc(Screen, "key"))
    BY <1>6 DEF TypeKey
  <2>2. SetScreen(Putc(Screen, "nul")) => UNCHANGED screen
    <3>1. Putc(Screen, "nul") = Screen
      BY DEF Putc
    <3> QED
      BY <3>1 DEF SetScreen, Screen, screen
  <2>3. ASSUME SetScreen(Putc(Screen, "key")) PROVE Teletype!Echo
    <3>1. PICK z : z = Putc(Screen, "key")
      OBVIOUS
    <3>2. OnIt(z) /\ Placed(z) /\ SameBehind(z.mem, memory) /\ Shows(z) = Teletype!Put(front, "key")
      BY <1>2, <1>3, <3>1, PutcShows
    <3>3. Teletype!Becomes(Teletype!Put(front, "key"))
      BY <1>5, <2>3, <3>1, <3>2
    <3> QED
      BY <1>0, <1>1, <1>2, <3>3 DEF Teletype!Echo
  <2> QED
    BY <1>4, <2>1, <2>2, <2>3
<1>7. CASE EnterKey
  <2>1. \/ UNCHANGED screen
        \/ SetScreen(Putc(Screen, "nl"))
        \/ SetScreen(Putc(Putc(Screen, "nl"), "nl"))
    BY <1>7 DEF EnterKey
  <2>2. PICK z, z2 : z = Putc(Screen, "nl") /\ z2 = Putc(z, "nl")
    OBVIOUS
  <2>3. OnIt(z) /\ Placed(z) /\ SameBehind(z.mem, memory) /\ Shows(z) = Teletype!Put(front, "nl")
    BY <1>2, <1>3, <2>2, PutcShows
  <2>4. /\ OnIt(z2) /\ Placed(z2) /\ SameBehind(z2.mem, memory)
        /\ Shows(z2) = Teletype!Put(Teletype!Put(front, "nl"), "nl")
    BY <2>2, <2>3, PutcShows, SameBehindTwice
  <2>5. ASSUME SetScreen(z) PROVE Teletype!Echo
    <3>1. Teletype!Becomes(Teletype!Put(front, "nl"))
      BY <1>5, <2>3, <2>5
    <3> QED
      BY <1>0, <1>1, <1>2, <3>1 DEF Teletype!Echo
  <2>6. ASSUME SetScreen(z2) PROVE Teletype!Echo
    <3>1. Teletype!Becomes(Teletype!Put(Teletype!Put(front, "nl"), "nl"))
      BY <1>5, <2>4, <2>6
    <3> QED
      BY <1>0, <1>1, <1>2, <3>1 DEF Teletype!Echo
  <2> QED
    BY <1>4, <2>1, <2>2, <2>5, <2>6
<1>8. CASE Backspace
  <2>1. UNCHANGED screen \/ SetScreen(DeleteC(Screen))
    BY <1>8 DEF Backspace
  <2>2. ASSUME SetScreen(DeleteC(Screen)) PROVE Teletype!Echo
    <3>1. PICK z : z = DeleteC(Screen)
      OBVIOUS
    <3>2. OnIt(z) /\ Placed(z) /\ SameBehind(z.mem, memory) /\ Shows(z) = Teletype!Rub(front)
      BY <1>2, <1>3, <3>1, DeleteCShows
    <3>3. Teletype!Becomes(Teletype!Rub(front))
      BY <1>5, <2>2, <3>1, <3>2
    <3> QED
      BY <1>0, <1>1, <1>2, <3>3 DEF Teletype!Echo
  <2> QED
    BY <1>4, <2>1, <2>2
<1>9. CASE Tab
  <2>1. SetScreen(Putc(Putc(Putc(Putc(Screen, "tab"), "tab"), "tab"), "tab"))
    BY <1>9 DEF Tab
  <2>2. PICK z1, z2, z3, z4 : /\ z1 = Putc(Screen, "tab") /\ z2 = Putc(z1, "tab")
                              /\ z3 = Putc(z2, "tab") /\ z4 = Putc(z3, "tab")
    OBVIOUS
  <2>3. OnIt(z1) /\ SameBehind(z1.mem, memory) /\ Shows(z1) = Teletype!Put(front, "tab")
    BY <1>2, <1>3, <2>2, PutcShows
  <2>4. OnIt(z2) /\ SameBehind(z2.mem, memory) /\ Shows(z2) = Teletype!Put(Shows(z1), "tab")
    BY <2>2, <2>3, PutcShows, SameBehindTwice
  <2>5. OnIt(z3) /\ SameBehind(z3.mem, memory) /\ Shows(z3) = Teletype!Put(Shows(z2), "tab")
    BY <2>2, <2>4, PutcShows, SameBehindTwice
  <2>6. OnIt(z4) /\ Placed(z4) /\ SameBehind(z4.mem, memory) /\ Shows(z4) = Teletype!Put(Shows(z3), "tab")
    BY <2>2, <2>5, PutcShows, SameBehindTwice
  <2>7. Teletype!Becomes(Shows(z4))
    BY <1>5, <2>1, <2>2, <2>6
  <2>8. Shows(z4) = Teletype!Put(Teletype!Put(Teletype!Put(Teletype!Put(front, "tab"), "tab"), "tab"), "tab")
    BY <2>3, <2>4, <2>5, <2>6
  <2>9. Teletype!Echo
    BY <1>0, <1>1, <1>2, <2>7, <2>8 DEF Teletype!Echo
  <2> QED
    BY <2>9
<1>10. CASE CtrlL
  <2>1. SetScreen(Located([Screen EXCEPT !.mem = Clear(Screen.mem)], 0, 0))
    BY <1>3, <1>10 DEF CtrlL
  <2>2. PICK z : z = Located([Screen EXCEPT !.mem = Clear(Screen.mem)], 0, 0)
    OBVIOUS
  <2>3. OnIt(z) /\ Placed(z) /\ SameBehind(z.mem, memory) /\ Shows(z) = Teletype!Blank
    BY <1>3, <2>2, ClearShows DEF OnIt
  <2>4. Teletype!Becomes(Teletype!Blank)
    BY <1>5, <2>1, <2>2, <2>3
  <2>5. Teletype!Echo
    BY <1>0, <1>1, <2>4 DEF Teletype!Echo
  <2> QED
    BY <2>5
<1> QED
  BY <1>6, <1>7, <1>8, <1>9, <1>10

LEMMA CtrlCStops ==
    ASSUME PutcInv, Undisturbed, CtrlC
    PROVE  Teletype!Stop
<1>1. ~MidPutc
  <2>1. cuts' = IF MidPutc THEN cuts + 1 ELSE cuts
    BY DEF CtrlC
  <2>2. cuts \in Nat /\ cuts' = cuts
    BY DEF Undisturbed, PutcInv, PageInv, IInv
  <2> QED
    BY <2>1, <2>2
<1>2. w'.out = <<>> /\ ~MidPutc'
  BY DEF CtrlC, Idle, MidPutc
<1>3. /\ UNCHANGED <<memory, screen_x, screen_y, crt>>
      /\ UNCHANGED <<terminal_active_id, screen_coord_storage, terminal_flags>>
  BY DEF CtrlC, screen, terminals
<1>4. Front = Screen /\ Front' = Screen /\ SameBehind(memory', memory)
  BY <1>1, <1>2, <1>3 DEF Front, Screen, SameBehind
<1>5. TerminalTexts' = TerminalTexts
  <2>1. Shows(Front)' = Shows(Front)
    BY <1>4 DEF Shows
  <2> QED
    BY <1>1, <1>3, <1>4, <2>1, AtRest, FrontStays
<1>6. <<Front.crt.lo, Front.crt.hi>>' = <<Front.crt.lo, Front.crt.hi>>
  BY <1>4
<1> QED
  BY <1>2, <1>3, <1>5, <1>6 DEF Teletype!Stop

\* After a switch each terminal shows, or will, what it did.
LEMMA AltFTexts ==
    ASSUME PutcInv, NEW t \in Terminals, AltF(t), t # terminal_active_id, ~MidPutc, ~MidPutc'
    PROVE  TerminalTexts' = TerminalTexts
<1>0. PageInv /\ terminal_active_id \in Terminals
  BY DEF PutcInv, PageInv, IInv
<1>1. PICK a : a = terminal_active_id
  OBVIOUS
<1>2. /\ screen_x' = screen_coord_storage[t].x /\ screen_y' = screen_coord_storage[t].y
      /\ terminal_active_id' = t
      /\ \A u \in Terminals : screen_coord_storage'[u] =
            IF u = a THEN [x |-> screen_x, y |-> screen_y] ELSE screen_coord_storage[u]
      /\ memory' = Swapped(a, t)
  BY <1>0, <1>1, AltFMem
<1>3. /\ \A i \in Memory : i < PageCells => memory'[i] = memory[i + PageStart(t)]
      /\ \A i \in Memory : i >= PageCells =>
           memory'[i] = IF i \in Saved(a) THEN memory[i - PageStart(a)] ELSE memory[i]
  BY <1>0, <1>1, <1>2, SwappedMem DEF PageInv
<1>4. Front = Screen /\ Front' = Screen'
  BY DEF Front
<1>5. /\ Front.mem = memory /\ Front.x = screen_x /\ Front.y = screen_y
      /\ Front'.mem = memory' /\ Front'.x = screen_x' /\ Front'.y = screen_y'
  BY <1>4 DEF Screen
\* The terminal that comes to the front.
<1>6. RowsAt(memory', 0) = RowsAt(memory, PageStart(t))
  <2>1. ASSUME NEW i \in 0 .. NumCols - 1, NEW j \in 0 .. NumRows - 1
        PROVE  memory'[0 + Cell(i, j)] = memory[PageStart(t) + Cell(i, j)]
    <3>1. PICK k \in 0 .. PageCells - 1, b \in Nat :
            /\ k = Cell(i, j) /\ 0 + k = k /\ b = PageStart(t)
            /\ k \in Memory /\ k < PageCells /\ k + b = b + k
      BY PageCell
    <3>2. memory'[k] = memory[k + b]
      BY <1>3, <3>1
    <3> QED
      BY <3>1, <3>2
  <2> QED
    BY <2>1, SameRows
\* The one that leaves it.
<1>7. RowsAt(memory', PageStart(a)) = RowsAt(memory, 0)
  <2>1. ASSUME NEW i \in 0 .. NumCols - 1, NEW j \in 0 .. NumRows - 1
        PROVE  memory'[PageStart(a) + Cell(i, j)] = memory[0 + Cell(i, j)]
    <3>1. PICK k \in 0 .. PageCells - 1, b \in Nat :
            /\ k = Cell(i, j) /\ 0 + k = k /\ b = PageStart(a)
            /\ b + k \in Memory /\ b + k >= PageCells /\ b + k \in Saved(a) /\ b + k - b = k
      BY <1>0, <1>1, PageCell
    <3>2. memory'[b + k] = memory[k]
      BY <1>3, <3>1
    <3> QED
      BY <3>1, <3>2
  <2> QED
    BY <2>1, SameRows
\* The others.
<1>8. ASSUME NEW u \in Terminals, u # a
      PROVE  RowsAt(memory', PageStart(u)) = RowsAt(memory, PageStart(u))
  <2>1. ASSUME NEW i \in 0 .. NumCols - 1, NEW j \in 0 .. NumRows - 1
        PROVE  memory'[PageStart(u) + Cell(i, j)] = memory[PageStart(u) + Cell(i, j)]
    <3>1. PICK k \in 0 .. PageCells - 1, b \in Nat :
            /\ k = Cell(i, j) /\ b = PageStart(u)
            /\ b + k \in Memory /\ b + k >= PageCells
            /\ \A v \in Terminals : v # u => b + k \notin Saved(v)
      BY PageCell
    <3>2. b + k \notin Saved(a)
      BY <1>0, <1>1, <1>8, <3>1
    <3>3. memory'[b + k] = memory[b + k]
      BY <1>3, <3>1, <3>2
    <3> QED
      BY <3>1, <3>3
  <2> QED
    BY <2>1, SameRows
<1>9. ASSUME NEW u \in Terminals PROVE TerminalTexts'[u] = TerminalTexts[u]
  <2>1. TerminalTexts[u] =
          IF u = a THEN [rows |-> RowsAt(memory, 0), x |-> screen_x, y |-> screen_y]
          ELSE [rows |-> RowsAt(memory, PageStart(u)),
                x |-> screen_coord_storage[u].x, y |-> screen_coord_storage[u].y]
    BY <1>1, <1>5, TextIs DEF TerminalTexts, PageStart
  <2>2. TerminalTexts'[u] =
          IF u = t THEN [rows |-> RowsAt(memory', 0), x |-> screen_x', y |-> screen_y']
          ELSE [rows |-> RowsAt(memory', PageStart(u)),
                x |-> screen_coord_storage'[u].x, y |-> screen_coord_storage'[u].y]
    BY <1>2, <1>5, TextIs DEF TerminalTexts, PageStart
  <2>3. CASE u = t
    BY <1>1, <1>2, <1>6, <2>1, <2>2, <2>3
  <2>4. CASE u = a
    <3>1. screen_coord_storage'[u].x = screen_x /\ screen_coord_storage'[u].y = screen_y
      BY <1>2, <2>4
    <3> QED
      BY <1>1, <1>7, <2>1, <2>2, <2>4, <3>1
  <2>5. CASE u # t /\ u # a
    <3>1. screen_coord_storage'[u] = screen_coord_storage[u]
      BY <1>2, <2>5
    <3> QED
      BY <1>8, <2>1, <2>2, <2>5, <3>1
  <2> QED
    BY <2>3, <2>4, <2>5
<1>10. PICK T, U : T = TerminalTexts /\ U = TerminalTexts'
  OBVIOUS
<1>11. T = [u \in Terminals |-> T[u]]
  BY <1>10 DEF TerminalTexts
<1>12. U = [u \in Terminals |-> U[u]]
  BY <1>10 DEF TerminalTexts
<1> QED
  BY <1>9, <1>10, <1>11, <1>12

LEMMA AltFSwitches ==
    ASSUME PutcInv, Undisturbed, NEW t \in Terminals, AltF(t)
    PROVE  [Teletype!Switch(t)]_<<Teletype!vars>>
<1>0. PageInv
  BY DEF PutcInv
<1>1. CASE t = terminal_active_id
  <2>1. GoesOn /\ UNCHANGED <<screen, terminals>>
    BY <1>1 DEF AltF
  <2>2. ~MidPutc /\ ~MidPutc' /\ w' = w
    BY <2>1 DEF GoesOn, Undisturbed, MidPutc
  <2> QED
    BY <2>1, <2>2, SameScreenStutters
<1>2. CASE t # terminal_active_id
  <2>1. ~MidPutc /\ ~MidPutc'
    <3>1. cuts' = IF MidPutc THEN cuts + 1 ELSE cuts
      BY <1>2 DEF AltF
    <3>2. cuts \in Nat /\ cuts' = cuts
      BY <1>0 DEF Undisturbed, PageInv, IInv
    <3>3. dirty' = (w'.pc # "rest") /\ ~dirty'
      BY <1>2, Zenon DEF AltF, Undisturbed
    <3>4. w'.pc = "rest"
      BY <3>3, Zenon
    <3>5. ~MidPutc'
      BY <3>4 DEF MidPutc
    <3> QED
      BY <3>1, <3>2, <3>5
  <2>2. TerminalTexts' = TerminalTexts
    BY <1>2, <2>1, AltFTexts
  <2>3. /\ terminal_active_id' = t
        /\ screen_x' = screen_coord_storage[t].x /\ screen_y' = screen_coord_storage[t].y
    BY <1>0, <1>2, AltFMem
  <2>4. terminal_flags' = [terminal_flags EXCEPT ![t] = FALSE]
    BY <1>2 DEF AltF
  <2>5. terminal_flags[t] => w'.out = Welcome
    <3>1. terminal_flags[t] => w' = Writing(Welcome)
      BY <1>2 DEF AltF
    <3> QED
      BY <3>1 DEF Writing, Idle
  <2>6. <<Front.crt.lo, Front.crt.hi>>' = Teletype!Position(TerminalTexts[t])
    <3>1. Front' = Screen'
      BY <2>1 DEF Front
    <3>2. Front'.crt = crt'
      BY <3>1 DEF Screen
    <3>3. PICK x, y, rows :
            /\ TerminalTexts[t] = [rows |-> rows, x |-> x, y |-> y]
            /\ x \in Nat /\ y \in Nat /\ x = screen_x' /\ y = screen_y'
      <4>1. screen_coord_storage[t].x \in Nat /\ screen_coord_storage[t].y \in Nat
        BY <1>0 DEF PageInv, IInv, Stored
      <4> QED
        BY <1>2, <2>3, <4>1, BehindText
    <3>4. PICK p : p = Cell(x, y)
      OBVIOUS
    <3>5. y * NumCols + x = p
      BY <3>3, <3>4, Sizes DEF Cell
    <3>6. Teletype!Position(TerminalTexts[t]) = <<p % ByteSize, (p \div ByteSize) % ByteSize>>
      BY <3>3, <3>5 DEF Teletype!Position
    <3>7. crt' = Cursor(p)
      BY <1>0, <1>2, <3>3, <3>4, AltFCrt
    <3>8. crt'.lo = p % ByteSize /\ crt'.hi = (p \div ByteSize) % ByteSize
      BY <3>7 DEF Cursor
    <3> QED
      BY <3>2, <3>6, <3>8
  <2>7. Teletype!Switch(t)
    BY <2>2, <2>3, <2>4, <2>5, <2>6 DEF Teletype!Switch
  <2> QED
    BY <2>7
<1> QED
  BY <1>1, <1>2

LEMMA UndisturbedSteps ==
    ASSUME PutcInv, PutcInv', [Next]_vars
    PROVE  [Undisturbed => Teletype!Next]_<<Teletype!vars>>
<1> SUFFICES ASSUME Undisturbed PROVE [Teletype!Next]_<<Teletype!vars>>
  OBVIOUS
<1>1. ASSUME NEW text \in Texts, Write(text) PROVE Teletype!Next
  BY <1>1, WriteStarts DEF Teletype!Next
<1>2. CASE PutcStep
  BY <1>2, PutcStepShows DEF Teletype!Next
<1>3. CASE (\E code \in KeyCodes : TypeKey(code)) \/ EnterKey \/ Backspace \/ Tab \/ CtrlL
  BY <1>3, KeyEchoes DEF Teletype!Next
<1>4. CASE CtrlC
  BY <1>4, CtrlCStops DEF Teletype!Next
<1>5. ASSUME NEW t \in Terminals, AltF(t) PROVE [Teletype!Next]_<<Teletype!vars>>
  <2>1. [Teletype!Switch(t)]_<<Teletype!vars>>
    BY <1>5, AltFSwitches
  <2>2. t \in Teletype!Terminals
    BY DEF Teletype!Terminals, Terminals
  <2> QED
    BY <2>1, <2>2 DEF Teletype!Next
<1>6. CASE ReadLine
  <2>1. ~MidPutc /\ w' = w /\ UNCHANGED <<screen, terminals>>
    BY <1>6 DEF ReadLine, MidPutc, Idle
  <2>2. ~MidPutc'
    BY <2>1 DEF MidPutc
  <2> QED
    BY <2>1, <2>2, SameScreenStutters
<1>7. CASE UNCHANGED vars
  <2>1. /\ UNCHANGED <<memory, screen_x, screen_y, crt, w, before>>
        /\ UNCHANGED <<terminal_active_id, screen_coord_storage, terminal_flags>>
    BY <1>7 DEF vars, screen, terminals
  <2>2. terminal_active_id \in Terminals
    BY DEF PutcInv, PageInv, IInv
  <2>3. Front' = Front /\ SameBehind(memory', memory)
    BY <2>1 DEF Front, Screen, MidPutc, SameBehind
  <2>4. Shows(Front)' = Shows(Front) /\ Front'.crt = Front.crt /\ w'.out = w.out
    BY <2>1, <2>3 DEF Shows
  <2> QED
    BY <2>1, <2>2, <2>3, <2>4, Stutters
<1> QED
  BY <1>1, <1>2, <1>3, <1>4, <1>5, <1>6, <1>7 DEF Next

LEMMA TextsInitially == Init => Teletype!Init
<1> SUFFICES ASSUME Init PROVE Teletype!Init
  OBVIOUS
<1>1. /\ memory = [i \in Memory |-> IF i \in Shown THEN "blank" ELSE "nul"]
      /\ screen_x = 0 /\ screen_y = 0 /\ crt = Cursor(0) /\ terminal_active_id = 0
      /\ screen_coord_storage = [t \in Terminals |-> [x |-> 0, y |-> 0]]
      /\ terminal_flags = [t \in Terminals |-> t # 0] /\ w = Idle
  BY DEF Init
<1>2. ~MidPutc /\ w.out = <<>>
  BY <1>1 DEF MidPutc, Idle
<1>3. Front.mem = memory /\ Front.x = 0 /\ Front.y = 0 /\ Front.crt = Cursor(0)
  BY <1>1, <1>2 DEF Front, Screen
<1>4. ASSUME NEW base, \A i \in 0 .. NumCols - 1 : \A j \in 0 .. NumRows - 1 : base + Cell(i, j) \in Memory
      PROVE  RowsAt(memory, base) = [j \in 0 .. NumRows - 1 |-> Teletype!BlankRow]
  <2>1. \A i \in 0 .. NumCols - 1 : \A j \in 0 .. NumRows - 1 : Glyph(memory, base + Cell(i, j)) = "blank"
    BY <1>1, <1>4 DEF Glyph
  <2> QED
    BY <2>1 DEF RowsAt, Teletype!BlankRow
<1>5. RowsAt(memory, 0) = [j \in 0 .. NumRows - 1 |-> Teletype!BlankRow]
  BY <1>4, CellShown
<1>6. ASSUME NEW t \in Terminals
      PROVE  RowsAt(memory, PageStart(t)) = [j \in 0 .. NumRows - 1 |-> Teletype!BlankRow]
  <2>1. \A i \in 0 .. NumCols - 1 : \A j \in 0 .. NumRows - 1 : PageStart(t) + Cell(i, j) \in Memory
    BY PageCell
  <2> QED
    BY <1>4, <2>1
<1>7. ASSUME NEW t \in Terminals PROVE TerminalTexts[t] = Teletype!Blank
  BY <1>1, <1>3, <1>5, <1>6, TextIs DEF TerminalTexts, PageStart, Teletype!Blank
<1>8. TerminalTexts = [t \in Terminals |-> Teletype!Blank]
  <2>1. PICK T : T = TerminalTexts
    OBVIOUS
  <2>2. T = [t \in Terminals |-> T[t]]
    BY <2>1 DEF TerminalTexts
  <2> QED
    BY <1>7, <2>1, <2>2
<1>9. <<Front.crt.lo, Front.crt.hi>> = Teletype!Position(Teletype!Blank)
  <2>1. 0 * NumCols + 0 = 0
    BY Sizes
  <2>2. Teletype!Position(Teletype!Blank) = <<0 % ByteSize, (0 \div ByteSize) % ByteSize>>
    BY <2>1 DEF Teletype!Position, Teletype!Blank
  <2> QED
    BY <1>3, <2>2 DEF Cursor
<1> QED
  BY <1>1, <1>2, <1>8, <1>9 DEF Teletype!Init, Teletype!Terminals, Terminals

\* The screen implements terminals that show text, on a screen of any size and
\* with any number of terminals: as long as no key falls into a putc, whatever
\* programs write and keys echo goes where single steps would put it, the
\* cursor with it, on each terminal and across the switches.
THEOREM ScreensAreText == Spec => ImplementsTextScreens
<1>1. Spec => []PutcInv
  BY PutcInitially, PutcInductive, PTL DEF Spec
<1>2. PutcInv /\ PutcInv' /\ [Next]_vars => [Undisturbed => Teletype!Next]_<<Teletype!vars>>
  BY UndisturbedSteps
<1>3. Init => Teletype!Init
  BY TextsInitially
<1> QED
  BY <1>1, <1>2, <1>3, PTL DEF Spec, ImplementsTextScreens
=============================================================================
