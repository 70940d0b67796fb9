------------------------------- MODULE Console -------------------------------
(***************************************************************************)
(* The screen: putc and delete_c (lib.c), terminal_write, scrolling, the   *)
(* cursor and the saved screens of the terminals (terminal.c), and what    *)
(* keyboard_handler (keyboard.c) shows of the keys.                        *)
(*                                                                         *)
(* A program's write runs with interrupts enabled, so putc is cut between  *)
(* the load and the store of each increment of screen_x and screen_y (the  *)
(* kernel is built without optimisation), and around its accesses to the   *)
(* video memory and each cursor port.  The loads that one expression makes *)
(* and the store they go into are one step: the address of a cell with the *)
(* character stored there, the position for the cursor, a cell that moves  *)
(* up.  The keyboard handler uses the same variables and is one step.      *)
(* The attribute bytes, the contents of the typed line, and how scan codes *)
(* and held keys make up a key (Interrupts) are left out.                  *)
(***************************************************************************)
EXTENDS Integers, Sequences

CONSTANTS
    NumRows, NumCols, \* NUM_ROWS and NUM_COLS, 25 and 80
    PageCells,        \* characters in the 4KB of a screen, 2048
    NumTerminals,     \* 3 in the code
    BufSize,          \* BUF_SIZE, 128
    ByteSize,         \* values of a byte of the cursor position, 256
    Texts,            \* what programs write
    Welcome,          \* what a new terminal prints
    KeyCodes,         \* the keys pressed in this instance
    FKeys,            \* the terminals whose Alt+F key is
    MaxKeys, MaxWrites, \* bounds: keys that do something, calls of write
    MaxMidPutc        \* bound: how many of the keys fall into a putc

Chars == {"out", "key", "tab", "nl", "nul"}
Terminals == 0 .. NumTerminals - 1
Codes == {"char", "enter", "dead", "back", "tab", "ctrl L", "ctrl C"}

ASSUME ConsoleAssumption ==
    /\ NumRows \in Nat \ {0, 1} /\ NumCols \in Nat \ {0}
    /\ PageCells \in Nat /\ PageCells >= NumRows * NumCols
    /\ NumTerminals \in Nat \ {0}
    /\ BufSize \in Nat /\ BufSize > 1
    /\ ByteSize \in Nat \ {0}
    /\ Texts \subseteq Seq(Chars) /\ Welcome \in Seq(Chars)
    /\ KeyCodes \subseteq Codes /\ FKeys \subseteq Terminals
    /\ MaxKeys \in Nat /\ MaxWrites \in Nat /\ MaxMidPutc \in Nat

VARIABLES
    memory,        \* from 0xB8000 on: the screen, then a copy per terminal
    screen_x, screen_y,
    crt,           \* the cursor's registers and the selected one
    screen_coord_storage,
    terminal_active_id,
    terminal_flags, \* TRUE: the terminal still needs its first shell
    line_buffer_location,
    w,             \* the write that is running: see Idle
    suspended,     \* terminal -> the write it was left in
    before,        \* the screen when the running putc began
    dirty,         \* whether a key has fallen into the running putc
    cuts,          \* putcs so far that a key abandoned or suspended
    plain,         \* terminal -> its line was typed on the screen, without a
                   \* dead key, Enter, a full line's tab, Ctrl+L or output,
                   \* and nothing was shown below the screen since it was left
    keys, writes, midPutc

screen == <<memory, screen_x, screen_y, crt>>
terminals == <<screen_coord_storage, terminal_active_id, terminal_flags, suspended>>
typing == <<line_buffer_location, plain>>
counters == <<cuts, keys, writes, midPutc>>
vars == <<screen, terminals, typing, w, before, dirty, counters>>

\* out: the characters left; pc: where in putc; fn: for which function
\* terminal_update_location runs; r, ax, ay, k: registers and arguments.
Idle == [out |-> <<>>, pc |-> "rest", fn |-> "putc", r |-> 0, ax |-> 0, ay |-> 0, k |-> 0]

Writing(text) == [Idle EXCEPT !.out = text]

MidPutc == w.pc # "rest"

NoScreen == [mem |-> <<>>, x |-> 0, y |-> 0, crt |-> [index |-> 14, lo |-> 0, hi |-> 0]]

-----------------------------------------------------------------------------
(* The screen as the keyboard handler, which nothing interrupts, uses it:  *)
(* operators on s = [mem, x, y, crt].                                      *)

Screen == [mem |-> memory, x |-> screen_x, y |-> screen_y, crt |-> crt]

SetScreen(s) ==
    /\ memory' = s.mem
    /\ screen_x' = s.x /\ screen_y' = s.y
    /\ crt' = s.crt

Cell(x, y) == NumCols * y + x

\* terminal_update_cursor: the low byte through register 15, the high one
\* through register 14.
Cursor(pos) == [index |-> 14, lo |-> pos % ByteSize, hi |-> (pos \div ByteSize) % ByteSize]

Located(s, x, y) == [s EXCEPT !.x = x, !.y = y, !.crt = Cursor(Cell(x, y))]

LastRow == (NumRows - 1) * NumCols .. NumRows * NumCols - 1

Cleared(mem, cells) == [i \in DOMAIN mem |-> IF i \in cells THEN "blank" ELSE mem[i]]

\* Mutant: the loop of clear goes on for a row too many.
ClearRowMore(mem) == Cleared(mem, 0 .. (NumRows + 1) * NumCols - 1)

Clear(mem) == Cleared(mem, 0 .. NumRows * NumCols - 1)

\* terminal_scroll_up
Scrolled(s) ==
    LET moved == [i \in DOMAIN s.mem |->
                    IF i < (NumRows - 1) * NumCols THEN s.mem[i + NumCols] ELSE s.mem[i]]
    IN  Located([s EXCEPT !.mem = Cleared(moved, LastRow)], 0, NumRows - 1)

NewLine(s) ==
    LET below == [s EXCEPT !.x = 0, !.y = @ + 1]
        there == IF below.y >= NumRows THEN Scrolled(below) ELSE below
    IN  Located(there, there.x, there.y)

\* After a character: the end of a row is a newline.
Wrapped(s) ==
    LET next == IF s.x >= NumCols THEN NewLine(s) ELSE s
    IN  Located(next, next.x % NumCols, next.y % NumRows)

Putc(s, c) ==
    IF c = "nul" THEN s ELSE IF c = "nl" THEN NewLine(s)
    ELSE Wrapped([s EXCEPT !.mem[Cell(s.x, s.y)] = c, !.x = @ + 1])

\* Mutant: delete_c goes back over the end of a row without leaving it.
DeleteCSameRow(s) ==
    LET here == [s EXCEPT !.mem[Cell(s.x, s.y)] = "nul"]
        x == IF s.x # 0 THEN s.x - 1 ELSE IF s.y # 0 THEN NumCols - 1 ELSE 0
    IN  Located([here EXCEPT !.mem[Cell(x, s.y)] = "blank"], x, s.y)

DeleteC(s) ==
    LET here == [s EXCEPT !.mem[Cell(s.x, s.y)] = "nul"]
        x == IF s.x # 0 THEN s.x - 1 ELSE IF s.y # 0 THEN NumCols - 1 ELSE 0
        y == IF s.x = 0 /\ s.y # 0 THEN s.y - 1 ELSE s.y
    IN  Located([here EXCEPT !.mem[Cell(x, y)] = "blank"], x, y)

-----------------------------------------------------------------------------
(* putc as a program's write runs it *)

Shown == 0 .. NumRows * NumCols - 1
Memory == 0 .. (NumTerminals + 1) * PageCells - 1

Init ==
    /\ memory = [i \in Memory |-> IF i \in Shown THEN "blank" ELSE "nul"]
    /\ screen_x = 0 /\ screen_y = 0
    /\ crt = Cursor(0)
    /\ screen_coord_storage = [t \in Terminals |-> [x |-> 0, y |-> 0]]
    /\ terminal_active_id = 0
    /\ terminal_flags = [t \in Terminals |-> t # 0]
    /\ line_buffer_location = [t \in Terminals |-> 0]
    /\ w = Idle
    /\ suspended = [t \in Terminals |-> Idle]
    /\ before = NoScreen /\ dirty = FALSE
    /\ plain = [t \in Terminals |-> TRUE]
    /\ cuts = 0 /\ keys = 0 /\ writes = 0 /\ midPutc = 0

\* terminal_write: a program that is not in a write starts one; a size below
\* 1 writes nothing.
Write(text) ==
    /\ w = Idle
    /\ text # <<>>
    /\ writes < MaxWrites
    /\ writes' = writes + 1
    /\ w' = Writing(text)
    /\ UNCHANGED <<screen, terminals, typing, before, dirty, cuts, keys, midPutc>>

OnScreen == screen_x < NumCols /\ screen_y < NumRows

\* What is shown at a position off the screen may fall into a saved screen.
StillPlain(t) == plain[t] /\ (t = terminal_active_id \/ OnScreen)

\* The program's step at pc: it goes on at `next`, with its registers set by upd.
At(pc) == w.pc = pc /\ UNCHANGED <<terminals, line_buffer_location, counters>>
Go(upd) == w' = upd /\ UNCHANGED <<before, dirty, plain>>

\* After the last step of a putc: the next character, if any.
Done(v) == [Idle EXCEPT !.out = Tail(v.out)]
Finish == w' = Done(w) /\ dirty' = FALSE /\ before' = NoScreen /\ UNCHANGED plain

PutcStart ==
    /\ At("rest") /\ w.out # <<>>
    /\ IF Head(w.out) = "nul" THEN Finish
       ELSE /\ w' = [w EXCEPT !.pc = IF Head(w.out) = "nl" THEN "load_y" ELSE "cell"]
            /\ before' = Screen
            /\ plain' = [plain EXCEPT ![terminal_active_id] = line_buffer_location[terminal_active_id] = 0]
            /\ UNCHANGED dirty
    /\ UNCHANGED screen

PutCell ==
    /\ At("cell")
    /\ memory' = [memory EXCEPT ![Cell(screen_x, screen_y)] = Head(w.out)]
    /\ w' = [w EXCEPT !.pc = "load_x"]
    /\ plain' = [t \in Terminals |-> StillPlain(t)]
    /\ UNCHANGED <<screen_x, screen_y, crt, before, dirty>>

LoadX ==
    /\ At("load_x")
    /\ Go([w EXCEPT !.pc = "store_x", !.r = screen_x + 1])
    /\ UNCHANGED screen

StoreX ==
    /\ At("store_x")
    /\ screen_x' = w.r
    /\ Go([w EXCEPT !.pc = "wrap"])
    /\ UNCHANGED <<memory, screen_y, crt>>

Wrap ==
    /\ At("wrap")
    /\ Go([w EXCEPT !.pc = IF screen_x >= NumCols THEN "load_y" ELSE "load_mod_x"])
    /\ UNCHANGED screen

LoadY ==
    /\ At("load_y")
    /\ Go([w EXCEPT !.pc = "store_y", !.r = screen_y + 1])
    /\ UNCHANGED screen

StoreY ==
    /\ At("store_y")
    /\ screen_y' = w.r
    /\ Go([w EXCEPT !.pc = "zero_x"])
    /\ UNCHANGED <<memory, screen_x, crt>>

ZeroX ==
    /\ At("zero_x")
    /\ screen_x' = 0
    /\ Go([w EXCEPT !.pc = "full"])
    /\ UNCHANGED <<memory, screen_y, crt>>

\* Mutant: a screen is full one row too late.
FullOneRowLate ==
    /\ At("full")
    /\ Go(IF screen_y > NumRows
            THEN [w EXCEPT !.pc = "scroll", !.k = 0]
            ELSE [w EXCEPT !.pc = "arg_y", !.fn = "newline"])
    /\ UNCHANGED screen

Full ==
    /\ At("full")
    /\ Go(IF screen_y >= NumRows
            THEN [w EXCEPT !.pc = "scroll", !.k = 0]
            ELSE [w EXCEPT !.pc = "arg_y", !.fn = "newline"])
    /\ UNCHANGED screen

\* terminal_scroll_up, a character at a time.
ScrollCell ==
    /\ At("scroll")
    /\ memory' = [memory EXCEPT ![w.k] = IF w.k \in LastRow THEN "blank" ELSE memory[w.k + NumCols]]
    /\ Go(IF w.k + 1 \in Shown
            THEN [w EXCEPT !.k = @ + 1]
            ELSE [w EXCEPT !.pc = "compare", !.fn = "scroll", !.ax = 0, !.ay = NumRows - 1])
    /\ UNCHANGED <<screen_x, screen_y, crt>>

LoadModX ==
    /\ At("load_mod_x")
    /\ Go([w EXCEPT !.pc = "store_mod_x", !.r = screen_x % NumCols])
    /\ UNCHANGED screen

StoreModX ==
    /\ At("store_mod_x")
    /\ screen_x' = w.r
    /\ Go([w EXCEPT !.pc = "load_mod_y"])
    /\ UNCHANGED <<memory, screen_y, crt>>

LoadModY ==
    /\ At("load_mod_y")
    /\ Go([w EXCEPT !.pc = "store_mod_y", !.r = (screen_y + screen_x \div NumCols) % NumRows])
    /\ UNCHANGED screen

StoreModY ==
    /\ At("store_mod_y")
    /\ screen_y' = w.r
    /\ Go([w EXCEPT !.pc = "arg_y", !.fn = "putc"])
    /\ UNCHANGED <<memory, screen_x, crt>>

\* terminal_update_location(screen_x, screen_y); the last argument is loaded
\* first.
ArgY ==
    /\ At("arg_y")
    /\ Go([w EXCEPT !.pc = "arg_x", !.ay = screen_y])
    /\ UNCHANGED screen

ArgX ==
    /\ At("arg_x")
    /\ Go([w EXCEPT !.pc = "compare", !.ax = screen_x])
    /\ UNCHANGED screen

Compare ==
    /\ At("compare")
    /\ Go([w EXCEPT !.pc = IF w.ax # screen_x \/ w.ay # screen_y THEN "set_x" ELSE "cursor"])
    /\ UNCHANGED screen

SetX ==
    /\ At("set_x")
    /\ screen_x' = w.ax
    /\ Go([w EXCEPT !.pc = "set_y"])
    /\ UNCHANGED <<memory, screen_y, crt>>

SetY ==
    /\ At("set_y")
    /\ screen_y' = w.ay
    /\ Go([w EXCEPT !.pc = "cursor"])
    /\ UNCHANGED <<memory, screen_x, crt>>

\* terminal_update_cursor; k holds the position.
CursorPosition ==
    /\ At("cursor")
    /\ Go([w EXCEPT !.pc = "select_lo", !.k = Cell(screen_x, screen_y)])
    /\ UNCHANGED screen

Select(pc, next, register) ==
    /\ At(pc)
    /\ crt' = [crt EXCEPT !.index = register]
    /\ Go([w EXCEPT !.pc = next])
    /\ UNCHANGED <<memory, screen_x, screen_y>>

\* The data port reaches whichever register is selected.
Out(byte) == crt' = IF crt.index = 15 THEN [crt EXCEPT !.lo = byte] ELSE [crt EXCEPT !.hi = byte]

CursorLo ==
    /\ At("lo")
    /\ Out(w.k % ByteSize)
    /\ Go([w EXCEPT !.pc = "select_hi"])
    /\ UNCHANGED <<memory, screen_x, screen_y>>

\* The update ends; it belonged to scroll_up, to a newline, or to putc, and
\* the newline to a character that filled its line or to the text.
CursorHi ==
    /\ At("hi")
    /\ Out((w.k \div ByteSize) % ByteSize)
    /\ UNCHANGED <<memory, screen_x, screen_y>>
    /\ CASE w.fn = "scroll" -> Go([w EXCEPT !.pc = "arg_y", !.fn = "newline"])
         [] w.fn = "newline" /\ Head(w.out) # "nl" -> Go([w EXCEPT !.pc = "load_mod_x"])
         [] OTHER -> Finish

PutcStep ==
    \/ PutcStart \/ PutCell \/ LoadX \/ StoreX \/ Wrap
    \/ LoadY \/ StoreY \/ ZeroX \/ Full \/ ScrollCell
    \/ LoadModX \/ StoreModX \/ LoadModY \/ StoreModY
    \/ ArgY \/ ArgX \/ Compare \/ SetX \/ SetY
    \/ CursorPosition \/ Select("select_lo", "lo", 15) \/ CursorLo
    \/ Select("select_hi", "hi", 14) \/ CursorHi

-----------------------------------------------------------------------------
(* keyboard_handler *)

\* A key that may change the screen; it may find a putc in the middle.
Key ==
    /\ keys < MaxKeys
    /\ keys' = keys + 1
    /\ IF MidPutc THEN midPutc < MaxMidPutc /\ midPutc' = midPutc + 1
                  ELSE UNCHANGED midPutc
    /\ UNCHANGED writes

\* The key leaves the running write as it is.
GoesOn == dirty' = MidPutc /\ UNCHANGED <<w, before, suspended, cuts>>

Line == line_buffer_location[terminal_active_id]

\* The line grows by n; the keys of it, this one too, are plain.
Typed(n, isPlain) ==
    /\ line_buffer_location' = [line_buffer_location EXCEPT ![terminal_active_id] = @ + n]
    /\ plain' = [t \in Terminals |->
                    IF t = terminal_active_id
                      THEN Line + n = 0 \/ (plain[t] /\ isPlain /\ ~MidPutc /\ OnScreen)
                      ELSE StillPlain(t)]

\* A code the table kbd has a character for, or 0: Caps Lock, the F keys
\* without Alt, the arrows after their prefix.  printf("%c", 0) shows nothing.
TypeKey(code) ==
    /\ code \in {"char", "dead"} \cap KeyCodes /\ Key
    /\ IF Line >= BufSize - 1 THEN UNCHANGED <<screen, typing>> ELSE
       IF code = "dead" THEN Typed(1, FALSE) /\ SetScreen(Putc(Screen, "nul"))
                        ELSE Typed(1, TRUE) /\ SetScreen(Putc(Screen, "key"))
    /\ GoesOn
    /\ UNCHANGED <<screen_coord_storage, terminal_active_id, terminal_flags>>

\* Each of the two ifs that store an Enter also shows it.
EnterKey ==
    /\ "enter" \in KeyCodes /\ Key
    /\ CASE Line < BufSize - 2 -> Typed(1, FALSE) /\ SetScreen(Putc(Screen, "nl"))
         [] Line = BufSize - 2 -> Typed(2, FALSE) /\ SetScreen(Putc(Putc(Screen, "nl"), "nl"))
         [] Line = BufSize - 1 -> Typed(1, FALSE) /\ SetScreen(Putc(Screen, "nl"))
         [] OTHER -> UNCHANGED <<screen, typing>>
    /\ GoesOn
    /\ UNCHANGED <<screen_coord_storage, terminal_active_id, terminal_flags>>

Backspace ==
    /\ "back" \in KeyCodes /\ Key
    /\ IF Line # 0 THEN Typed(-1, TRUE) /\ SetScreen(DeleteC(Screen))
                   ELSE UNCHANGED <<screen, typing>>
    /\ GoesOn
    /\ UNCHANGED <<screen_coord_storage, terminal_active_id, terminal_flags>>

\* tab_case: up to four spaces go into the line, four onto the screen.
Tab ==
    /\ "tab" \in KeyCodes /\ Key
    /\ LET room == IF Line > BufSize - 1 THEN 0 ELSE BufSize - 1 - Line
           n == IF room < 4 THEN room ELSE 4 IN Typed(n, n = 4)
    /\ SetScreen(Putc(Putc(Putc(Putc(Screen, "tab"), "tab"), "tab"), "tab"))
    /\ GoesOn
    /\ UNCHANGED <<screen_coord_storage, terminal_active_id, terminal_flags>>

\* Ctrl+L: terminal_clear_and_reset.
CtrlL ==
    /\ "ctrl L" \in KeyCodes /\ Key
    /\ Typed(0, FALSE)
    /\ SetScreen(Located([Screen EXCEPT !.mem = Clear(memory)], 0, 0))
    /\ GoesOn
    /\ UNCHANGED <<screen_coord_storage, terminal_active_id, terminal_flags>>

\* Ctrl+C: the program is halted, and its write with it.
CtrlC ==
    /\ "ctrl C" \in KeyCodes /\ Key
    /\ w' = Idle /\ dirty' = FALSE /\ before' = NoScreen
    /\ cuts' = IF MidPutc THEN cuts + 1 ELSE cuts
    /\ UNCHANGED <<screen, terminals, typing>>

\* The page of terminal t.
Saved(t) == (t + 1) * PageCells .. (t + 2) * PageCells - 1

\* Mutant: the screen that is left is not stored.
SwappedNotStored(old, new) ==
    [i \in Memory |-> IF i < PageCells THEN memory[i + (new + 1) * PageCells] ELSE memory[i]]

\* The first memcpy of terminal_switch puts the screen into the page of the
\* terminal that is left, the second fetches the page of the next one.
Swapped(old, new) ==
    LET stored == [i \in Memory |-> IF i \in Saved(old) THEN memory[i - (old + 1) * PageCells]
                                                         ELSE memory[i]]
    IN  [i \in Memory |-> IF i < PageCells THEN stored[i + (new + 1) * PageCells] ELSE stored[i]]

\* Alt+F: terminal_switch up to where it starts a shell or saves esp and ebp.
\* A new terminal prints its welcome with interrupts enabled.  Which of the
\* programs left in a write goes on after a switch back is the subject of
\* ProcessControl: here it may be any of them, or none.
AltF(t) ==
    /\ t \in FKeys /\ Key
    /\ IF t = terminal_active_id THEN GoesOn /\ UNCHANGED <<screen, terminals, plain>> ELSE
       LET to == screen_coord_storage[t]
           s == Located([Screen EXCEPT !.mem = Swapped(terminal_active_id, t)], to.x, to.y) IN
       /\ screen_coord_storage' = [screen_coord_storage EXCEPT ![terminal_active_id] =
                                     [x |-> screen_x, y |-> screen_y]]
       /\ SetScreen(s)
       /\ terminal_active_id' = t
       /\ terminal_flags' = [terminal_flags EXCEPT ![t] = FALSE]
       /\ cuts' = IF MidPutc THEN cuts + 1 ELSE cuts
       /\ LET left == [suspended EXCEPT ![terminal_active_id] = w] IN
          IF terminal_flags[t] THEN w' = Writing(Welcome) /\ suspended' = left
          ELSE \/ w' = Idle /\ suspended' = left
               \/ \E u \in Terminals : w' = left[u] /\ suspended' = [left EXCEPT ![u] = Idle]
       /\ dirty' = (w'.pc # "rest")
       /\ before' = IF dirty' THEN s ELSE NoScreen
       /\ plain' = [plain EXCEPT ![t] = @ /\ ~dirty']
    /\ UNCHANGED line_buffer_location

\* terminal_read hands the line out and starts a new one.
ReadLine ==
    /\ w = Idle
    /\ Line # 0
    /\ line_buffer_location' = [line_buffer_location EXCEPT ![terminal_active_id] = 0]
    /\ plain' = [plain EXCEPT ![terminal_active_id] = TRUE]
    /\ UNCHANGED <<screen, terminals, w, before, dirty, counters>>

Next ==
    \/ \E text \in Texts : Write(text)
    \/ PutcStep
    \/ \E code \in KeyCodes : TypeKey(code)
    \/ EnterKey \/ Backspace \/ Tab \/ CtrlL \/ CtrlC
    \/ \E t \in Terminals : AltF(t)
    \/ ReadLine

Spec == Init /\ [][Next]_vars
-----------------------------------------------------------------------------
(* What the screen shows *)

\* Screen s as text: what is in a page from cell `base` on, and the position.
Text(mem, base, x, y) ==
    [rows |-> [j \in 0 .. NumRows - 1 |-> [i \in 0 .. NumCols - 1 |->
        LET g == mem[base + Cell(i, j)] IN IF g = "nul" THEN "blank" ELSE g]],
     x |-> x, y |-> y]

\* The terminal in front as it was when the running putc began.
Front == IF MidPutc THEN before ELSE Screen

\* What each terminal shows, or will when it comes to the front.
TerminalTexts == [t \in Terminals |->
    IF t = terminal_active_id THEN Text(Front.mem, 0, Front.x, Front.y)
    ELSE Text(memory, (t + 1) * PageCells, screen_coord_storage[t].x, screen_coord_storage[t].y)]

Teletype == INSTANCE TextScreens WITH
    term <- TerminalTexts,
    active <- terminal_active_id,
    fresh <- terminal_flags,
    cursor <- <<Front.crt.lo, Front.crt.hi>>,
    out <- w.out

\* No key falls into a putc, and none has left the position off the screen.
Undisturbed ==
    /\ ~dirty /\ ~dirty' /\ cuts' = cuts
    /\ Front.x < NumCols /\ Front.y < NumRows

\* Every character written by a program or typed goes where a terminal with
\* lines, wrapping and scrolling puts it, on every terminal, whatever the
\* switches between them; the cursor follows.
ImplementsTextScreens ==
    Teletype!Init /\ [][Undisturbed => Teletype!Next]_<<Teletype!vars>>

\* putc and the keys' echo may interrupt one another anywhere: when a putc has
\* ended the position is on the screen again, unless Ctrl+C or Alt+F cut one
\* short on the way; then it is at most a column and a row off for each.
BackOnScreen == ~MidPutc => screen_x < NumCols + cuts /\ screen_y < NumRows + cuts

\* The saved screens lie right behind the screen: they change only by Alt+F,
\* or while the position is below the last row.
SavedScreensKept ==
    [][\A t \in Terminals :
         \/ terminal_active_id' # terminal_active_id
         \/ screen_y >= NumRows
         \/ \A i \in Saved(t) : memory'[i] = memory[i]]_vars

\* The line that a backspace edits is what stands before the cursor, so that
\* it takes away what was typed: with lines typed in one go, on any terminal,
\* as long as no key adds a byte that is not shown, and nothing is shown below
\* the last row while the terminal is not in front.
TypedBeforeCursor ==
    plain[terminal_active_id] =>
        \A n \in 1 .. Line :
            LET cell == Cell(screen_x, screen_y) - n IN
            cell >= 0 => memory[cell] \in {"key", "tab"}
=============================================================================
