----------------------------- MODULE ConsoleProofs -----------------------------
(***************************************************************************)
(* Theorems about the console, for every size of the screen that holds at  *)
(* least one character: after boot (Console) and while the kernel boots    *)
(* with interrupts on (ConsoleIrq).                                        *)
(***************************************************************************)
EXTENDS Console, ConsoleIrq, SequenceTheorems, TLAPS

--------------------------------------------------------------------------------
(* What the methods of Console keep. *)

CellSet == [character : Printable, foreground : Colors, background : Colors]
Grid(n) == [0 .. n - 1 -> [0 .. COLUMNS - 1 -> CellSet]]

\* A console with its cursor on the screen or one step off it.
Consoles ==
    [cursor_x : 0 .. COLUMNS, cursor_y : 0 .. ROWS,
     foreground : Colors, background : Colors,
     cells : Grid(MAX_ROWS), screen : Grid(ROWS),
     input : Seq(Printable), line_ready : BOOLEAN]

\* TextSynced at one place of the screen of a console that shows s for t.
Agree(s, t, background) ==
    /\ s.character = t.character
    /\ (t.character # " " \/ background = BLACK) => s = Look(t)

Synced(c) ==
    \A row \in 0 .. ROWS - 1, col \in 0 .. COLUMNS - 1 :
        Agree(c.screen[row][col], c.cells[row][col], c.background)

\* d is c after a method that writes, moves or erases.
Kept(c, d) ==
    /\ d \in Consoles
    /\ d.foreground = c.foreground /\ d.background = c.background
    /\ c.cursor_x < COLUMNS => d.cursor_x < COLUMNS
    /\ c.cursor_y < ROWS => d.cursor_y < ROWS
    /\ Synced(c) => Synced(d)

LEMMA KeptTrans ==
    ASSUME NEW c, NEW d, NEW e, Kept(c, d), Kept(d, e)
    PROVE  Kept(c, e)
  BY DEF Kept

LEMMA Looks ==
    /\ EMPTY \in CellSet /\ \A b \in Colors : Cell(" ", WHITE, b) \in CellSet
    /\ \A ch \in Printable, f, b \in Colors : Cell(ch, f, b) \in CellSet
    /\ \A t \in CellSet : Look(t) \in CellSet /\ Look(t).character = t.character
    /\ \A b \in Colors : Agree(Cell(" ", WHITE, b), EMPTY, b)
  BY TerminalAssumption DEF CellSet, EMPTY, Cell, Look, Agree, Printable

LEMMA Fields ==
    ASSUME NEW c \in Consoles
    PROVE  /\ c.cursor_x \in 0 .. COLUMNS /\ c.cursor_y \in 0 .. ROWS
           /\ c.foreground \in Colors /\ c.background \in Colors
           /\ c.cells \in Grid(MAX_ROWS) /\ c.screen \in Grid(ROWS)
           /\ c.input \in Seq(Printable) /\ c.line_ready \in BOOLEAN
  BY DEF Consoles

LEMMA GridAt ==
    ASSUME NEW n \in Nat, NEW g \in Grid(n), NEW row \in 0 .. n - 1, NEW col \in 0 .. COLUMNS - 1
    PROVE  g[row][col] \in CellSet
  BY DEF Grid

\* One cell is replaced.
Put(g, row, col, t) == [g EXCEPT ![row][col] = t]

LEMMA GridUpdate ==
    ASSUME NEW n \in Nat, NEW g \in Grid(n), NEW t \in CellSet,
           NEW row \in 0 .. n - 1, NEW col \in 0 .. COLUMNS - 1,
           NEW h, h = Put(g, row, col, t)
    PROVE  /\ h \in Grid(n) /\ h[row][col] = t
           /\ \A i \in 0 .. n - 1, j \in 0 .. COLUMNS - 1 :
                  ~(i = row /\ j = col) => h[i][j] = g[i][j]
  BY DEF Grid, Put

LEMMA SetCellKept ==
    ASSUME NEW c \in Consoles, NEW row \in Nat, NEW col \in Nat, NEW t \in CellSet,
           NEW d, d = set_cell(c, row, col, t)
    PROVE  /\ d \in Consoles
           /\ d.cursor_x = c.cursor_x /\ d.cursor_y = c.cursor_y
           /\ d.foreground = c.foreground /\ d.background = c.background
           /\ d.screen = c.screen /\ d.input = c.input
           /\ row < MAX_ROWS /\ col < COLUMNS => d.cells = Put(c.cells, row, col, t)
           /\ ~(row < MAX_ROWS /\ col < COLUMNS) => d.cells = c.cells
  <1>1. COLUMNS \in Nat /\ ROWS \in Nat /\ MAX_ROWS \in Nat
    BY TerminalAssumption
  <1>2. CASE row < MAX_ROWS /\ col < COLUMNS
    <2>1. row \in 0 .. MAX_ROWS - 1 /\ col \in 0 .. COLUMNS - 1
      BY <1>1, <1>2
    <2>2. PICK g : g = Put(c.cells, row, col, t)
      OBVIOUS
    <2>3. g \in Grid(MAX_ROWS)
      BY <1>1, <2>1, <2>2, Fields, GridUpdate
    <2>4. d = [c EXCEPT !.cells = g]
      BY <2>1, <2>2 DEF set_cell, Consoles, Put
    <2> QED
      BY <1>2, <2>2, <2>3, <2>4 DEF Consoles
  <1>3. CASE ~(row < MAX_ROWS /\ col < COLUMNS)
    BY <1>1, <1>3 DEF set_cell
  <1> QED
    BY <1>2, <1>3

LEMMA RenderCellKept ==
    ASSUME NEW c \in Consoles, NEW row \in Nat, NEW col \in Nat,
           NEW d, d = render_cell(c, row, col)
    PROVE  /\ d \in Consoles
           /\ d.cursor_x = c.cursor_x /\ d.cursor_y = c.cursor_y
           /\ d.foreground = c.foreground /\ d.background = c.background
           /\ d.cells = c.cells /\ d.input = c.input
           /\ row < ROWS /\ col < COLUMNS
                => d.screen = Put(c.screen, row, col, Look(c.cells[row][col]))
           /\ ~(row < ROWS /\ col < COLUMNS) => d.screen = c.screen
  <1>1. COLUMNS \in Nat /\ ROWS \in Nat /\ MAX_ROWS \in Nat /\ ROWS <= MAX_ROWS
    BY TerminalAssumption
  <1>2. CASE row < ROWS /\ col < COLUMNS
    <2>1. row \in 0 .. ROWS - 1 /\ col \in 0 .. COLUMNS - 1 /\ row \in 0 .. MAX_ROWS - 1
      BY <1>1, <1>2
    <2>2. c.cells[row][col] \in CellSet
      BY <1>1, <2>1, Fields, GridAt
    <2>3. Look(c.cells[row][col]) \in CellSet
      BY <2>2, Looks
    <2>4. PICK g : g = Put(c.screen, row, col, Look(c.cells[row][col]))
      OBVIOUS
    <2>5. g \in Grid(ROWS)
      BY <1>1, <2>1, <2>3, <2>4, Fields, GridUpdate
    <2>6. d = [c EXCEPT !.screen = g]
      BY <1>1, <1>2, <2>4 DEF render_cell, Consoles, Put
    <2> QED
      BY <1>2, <2>4, <2>5, <2>6 DEF Consoles
  <1>3. CASE ~(row < ROWS /\ col < COLUMNS)
    BY <1>1, <1>3 DEF render_cell
  <1> QED
    BY <1>2, <1>3

(***************************************************************************)
(* A cell that is stored and drawn: cell buffer and screen stay in step.   *)
(***************************************************************************)
LEMMA StampKept ==
    ASSUME NEW c \in Consoles, NEW t \in CellSet, NEW d, d = Stamp(c, t)
    PROVE  /\ Kept(c, d)
           /\ d.cursor_x = c.cursor_x /\ d.cursor_y = c.cursor_y /\ d.input = c.input
           /\ c.cursor_x < COLUMNS /\ c.cursor_y < ROWS
                => d.cells = Put(c.cells, c.cursor_y, c.cursor_x, t)
  <1>1. COLUMNS \in Nat /\ ROWS \in Nat /\ MAX_ROWS \in Nat /\ ROWS <= MAX_ROWS
    BY TerminalAssumption
  <1>2. PICK x \in Nat, y \in Nat : x = c.cursor_x /\ y = c.cursor_y
    BY <1>1, Fields
  <1>3. PICK s : s = set_cell(c, y, x, t)
    OBVIOUS
  <1>4. /\ s \in Consoles
        /\ s.cursor_x = c.cursor_x /\ s.cursor_y = c.cursor_y
        /\ s.foreground = c.foreground /\ s.background = c.background
        /\ s.screen = c.screen /\ s.input = c.input
        /\ y < MAX_ROWS /\ x < COLUMNS => s.cells = Put(c.cells, y, x, t)
        /\ ~(y < MAX_ROWS /\ x < COLUMNS) => s.cells = c.cells
    BY <1>3, SetCellKept
  <1>5. d = render_cell(s, y, x)
    BY <1>2, <1>3 DEF Stamp
  <1>6. /\ d \in Consoles
        /\ d.cursor_x = s.cursor_x /\ d.cursor_y = s.cursor_y
        /\ d.foreground = s.foreground /\ d.background = s.background
        /\ d.cells = s.cells /\ d.input = s.input
        /\ y < ROWS /\ x < COLUMNS
             => d.screen = Put(s.screen, y, x, Look(s.cells[y][x]))
        /\ ~(y < ROWS /\ x < COLUMNS) => d.screen = s.screen
    <2>1. s \in Consoles
      BY <1>4
    <2> QED
      BY <1>5, <2>1, RenderCellKept
  <1>7. ASSUME Synced(c), NEW row \in 0 .. ROWS - 1, NEW col \in 0 .. COLUMNS - 1
        PROVE  Agree(d.screen[row][col], d.cells[row][col], d.background)
    <2>1. Agree(c.screen[row][col], c.cells[row][col], c.background)
      BY <1>7 DEF Synced
    <2>2. c.cells \in Grid(MAX_ROWS) /\ c.screen \in Grid(ROWS)
      BY Fields
    <2>3. row \in 0 .. MAX_ROWS - 1
      BY <1>1
    <2>4. PICK u \in CellSet : u = Look(t) /\ u.character = t.character
      BY Looks
    <2>5. CASE row = y /\ col = x
      <3>1. y < ROWS /\ x < COLUMNS /\ y < MAX_ROWS
        BY <1>1, <2>5
      <3>2. d.cells[row][col] = t
        BY <1>1, <1>4, <1>6, <2>2, <2>3, <2>5, <3>1, GridUpdate, SMTT(30)
      <3>3. d.screen = Put(c.screen, row, col, u)
        BY <1>4, <1>6, <2>4, <2>5, <3>1, <3>2
      <3>4. d.screen[row][col] = u
        BY <1>1, <2>2, <3>3, GridUpdate
      <3> QED
        BY <2>4, <3>2, <3>4 DEF Agree
    <2>6. CASE ~(row = y /\ col = x)
      <3>1. d.screen[row][col] = c.screen[row][col]
        <4>1. CASE y < ROWS /\ x < COLUMNS
          <5>1. y \in 0 .. ROWS - 1 /\ x \in 0 .. COLUMNS - 1 /\ y \in 0 .. MAX_ROWS - 1
            BY <1>1, <4>1
          <5>2. s.cells[y][x] = t
            BY <1>1, <1>4, <2>2, <4>1, <5>1, GridUpdate
          <5>3. d.screen = Put(c.screen, y, x, u)
            BY <1>4, <1>6, <2>4, <4>1, <5>2
          <5>4. \A i \in 0 .. ROWS - 1, j \in 0 .. COLUMNS - 1 :
                    ~(i = y /\ j = x) => d.screen[i][j] = c.screen[i][j]
            BY <1>1, <2>2, <5>1, <5>3, GridUpdate, SMTT(30)
          <5> QED
            BY <2>6, <5>4
        <4>2. CASE ~(y < ROWS /\ x < COLUMNS)
          BY <1>4, <1>6, <4>2
        <4> QED
          BY <4>1, <4>2
      <3>2. d.cells[row][col] = c.cells[row][col]
        <4>1. CASE y < MAX_ROWS /\ x < COLUMNS
          <5>1. y \in 0 .. MAX_ROWS - 1 /\ x \in 0 .. COLUMNS - 1
            BY <1>1, <4>1
          <5>2. d.cells = Put(c.cells, y, x, t)
            BY <1>4, <1>6, <4>1
          <5> QED
            BY <1>1, <2>2, <2>3, <2>6, <5>1, <5>2, GridUpdate, SMTT(30)
        <4>2. CASE ~(y < MAX_ROWS /\ x < COLUMNS)
          BY <1>4, <1>6, <4>2
        <4> QED
          BY <4>1, <4>2
      <3> QED
        BY <1>4, <1>6, <2>1, <3>1, <3>2
    <2> QED
      BY <2>5, <2>6
  <1>8. Synced(c) => Synced(d)
    BY <1>7 DEF Synced
  <1>9. Kept(c, d)
    BY <1>2, <1>4, <1>6, <1>8 DEF Kept
  <1> QED
    BY <1>1, <1>2, <1>4, <1>6, <1>9

\* The cursor moves.
Move(c, x, y) == [c EXCEPT !.cursor_x = x, !.cursor_y = y]

LEMMA MoveKept ==
    ASSUME NEW c \in Consoles, NEW x \in 0 .. COLUMNS, NEW y \in 0 .. ROWS,
           NEW d, d = Move(c, x, y)
    PROVE  /\ d \in Consoles /\ d.cursor_x = x /\ d.cursor_y = y
           /\ d.foreground = c.foreground /\ d.background = c.background
           /\ d.cells = c.cells /\ d.screen = c.screen /\ d.input = c.input
           /\ Synced(c) => Synced(d)
  <1>1. /\ d \in Consoles /\ d.cursor_x = x /\ d.cursor_y = y
        /\ d.foreground = c.foreground /\ d.background = c.background
        /\ d.cells = c.cells /\ d.screen = c.screen /\ d.input = c.input
    BY DEF Consoles, Move
  <1> QED
    BY <1>1 DEF Synced

LEMMA MoveSwap ==
    ASSUME NEW c \in Consoles, NEW x \in 0 .. COLUMNS, NEW y \in 0 .. ROWS
    PROVE  [c EXCEPT !.cursor_y = y, !.cursor_x = x] = Move(c, x, y)
  BY DEF Consoles, Move

\* The cells after the screen has moved up by a row.
Scrolled(cells) ==
    [r \in 0 .. MAX_ROWS - 1 |->
        IF r < ROWS - 1 THEN cells[r + 1]
        ELSE IF r = ROWS - 1 THEN [x \in 0 .. COLUMNS - 1 |-> EMPTY]
        ELSE cells[r]]

(***************************************************************************)
(* Scrolling moves the cells as it moves the pixels.                       *)
(***************************************************************************)
LEMMA ScrollKept ==
    ASSUME ROWS > 0, COLUMNS > 0, NEW c \in Consoles, NEW d, d = scroll(c)
    PROVE  /\ Kept(c, d)
           /\ d.cursor_x = 0 /\ d.cursor_y = ROWS - 1 /\ d.input = c.input
           /\ d.cells = Scrolled(c.cells)
  <1>1. COLUMNS \in Nat /\ ROWS \in Nat /\ MAX_ROWS \in Nat /\ ROWS <= MAX_ROWS
    BY TerminalAssumption
  <1>2. PICK b \in Colors : b = c.background
    BY Fields
  <1>3. PICK t \in CellSet : t = Cell(" ", WHITE, b)
    BY Looks
  <1>4. PICK s : s = [r \in 0 .. ROWS - 1 |-> IF r < ROWS - 1 THEN c.screen[r + 1]
                                             ELSE [x \in 0 .. COLUMNS - 1 |-> t]]
    OBVIOUS
  <1>5. PICK g : g = Scrolled(c.cells)
    OBVIOUS
  <1>6. c.cells \in Grid(MAX_ROWS) /\ c.screen \in Grid(ROWS)
    BY Fields
  <1>7. EMPTY \in CellSet
    BY Looks
  <1>8. s \in Grid(ROWS)
    BY <1>1, <1>4, <1>6 DEF Grid
  <1>9. g \in Grid(MAX_ROWS)
    <2>1. PICK e \in CellSet : e = EMPTY
      BY <1>7
    <2> QED
      BY <1>1, <1>5, <1>6, <2>1 DEF Grid, Scrolled
  <1>10. d = [c EXCEPT !.screen = s, !.cells = g, !.cursor_x = 0, !.cursor_y = ROWS - 1]
    BY <1>2, <1>3, <1>4, <1>5 DEF scroll, Scrolled
  <1>11. 0 \in 0 .. COLUMNS /\ ROWS - 1 \in 0 .. ROWS
    BY <1>1
  <1>12. /\ d \in Consoles /\ d.cursor_x = 0 /\ d.cursor_y = ROWS - 1
         /\ d.foreground = c.foreground /\ d.background = c.background
         /\ d.cells = g /\ d.screen = s /\ d.input = c.input
    BY <1>8, <1>9, <1>10, <1>11 DEF Consoles
  <1>13. ASSUME Synced(c), NEW row \in 0 .. ROWS - 1, NEW col \in 0 .. COLUMNS - 1
         PROVE  Agree(d.screen[row][col], d.cells[row][col], d.background)
    <2>0. row \in 0 .. MAX_ROWS - 1
      BY <1>1
    <2>1. CASE row < ROWS - 1
      <3>1. row + 1 \in 0 .. ROWS - 1
        BY <1>1, <2>1
      <3>2. Agree(c.screen[row + 1][col], c.cells[row + 1][col], c.background)
        BY <1>13, <3>1 DEF Synced
      <3>3. s[row] = c.screen[row + 1] /\ g[row] = c.cells[row + 1]
        BY <1>4, <1>5, <2>0, <2>1 DEF Scrolled
      <3> QED
        BY <1>12, <3>2, <3>3
    <2>2. CASE row = ROWS - 1
      <3>1. s[row][col] = t /\ g[row][col] = EMPTY
        BY <1>4, <1>5, <2>0, <2>2 DEF Scrolled
      <3>2. Agree(t, EMPTY, b)
        BY <1>3, Looks
      <3> QED
        BY <1>2, <1>12, <3>1, <3>2
    <2> QED
      BY <1>1, <2>1, <2>2
  <1>14. Kept(c, d)
    BY <1>1, <1>12, <1>13 DEF Kept, Synced
  <1> QED
    BY <1>5, <1>12, <1>14

LEMMA NewlineKept ==
    ASSUME ROWS > 0, COLUMNS > 0, NEW c \in Consoles, NEW d, d = newline(c)
    PROVE  /\ Kept(c, d) /\ d.cursor_x = 0 /\ d.cursor_y < ROWS /\ d.input = c.input
           /\ c.cursor_y + 1 < ROWS => d.cursor_y = c.cursor_y + 1 /\ d.cells = c.cells
           /\ c.cursor_y + 1 >= ROWS => d.cursor_y = ROWS - 1 /\ d.cells = Scrolled(c.cells)
  <1>1. COLUMNS \in Nat /\ ROWS \in Nat /\ c.cursor_y \in 0 .. ROWS
    BY TerminalAssumption, Fields
  <1>2. CASE c.cursor_y + 1 < ROWS
    <2>1. PICK y \in 0 .. ROWS : y = c.cursor_y + 1
      BY <1>1, <1>2
    <2>2. PICK x \in 0 .. COLUMNS : x = 0
      BY <1>1
    <2>3. d = Move(c, x, y)
      BY <1>1, <1>2, <2>1, <2>2 DEF newline, Consoles, Move
    <2>4. /\ d \in Consoles /\ d.cursor_x = x /\ d.cursor_y = y
          /\ d.foreground = c.foreground /\ d.background = c.background
          /\ d.cells = c.cells /\ d.input = c.input
          /\ Synced(c) => Synced(d)
      BY <2>3, MoveKept
    <2> QED
      BY <1>1, <1>2, <2>1, <2>2, <2>4 DEF Kept
  <1>3. CASE c.cursor_y + 1 >= ROWS
    <2>1. d = scroll(c)
      BY <1>1, <1>3 DEF newline
    <2> QED
      BY <1>1, <1>3, <2>1, ScrollKept
  <1> QED
    BY <1>1, <1>2, <1>3

LEMMA WrapKept ==
    ASSUME ROWS > 0, COLUMNS > 0, NEW c \in Consoles, NEW d, d = Wrap(c)
    PROVE  Kept(c, d) /\ d.cursor_x < COLUMNS /\ d.input = c.input
  <1>1. COLUMNS \in Nat /\ c.cursor_x \in 0 .. COLUMNS
    BY TerminalAssumption, Fields
  <1>2. CASE c.cursor_x >= COLUMNS
    <2>1. d = newline(c)
      BY <1>2 DEF Wrap
    <2> QED
      BY <1>1, <2>1, NewlineKept
  <1>3. CASE c.cursor_x < COLUMNS
    <2>1. d = c
      BY <1>1, <1>3 DEF Wrap
    <2> QED
      BY <1>3, <2>1 DEF Kept
  <1> QED
    BY <1>1, <1>2, <1>3

LEMMA WriteCellKept ==
    ASSUME ROWS > 0, COLUMNS > 0, NEW c \in Consoles, NEW ch \in Printable,
           NEW d, d = write_cell(c, ch)
    PROVE  Kept(c, d) /\ d.cursor_x < COLUMNS /\ d.input = c.input
  <1>1. COLUMNS \in Nat /\ ROWS \in Nat
    BY TerminalAssumption
  <1>2. PICK w : w = Wrap(c)
    OBVIOUS
  <1>3. Kept(c, w) /\ w \in Consoles /\ w.cursor_x < COLUMNS /\ w.input = c.input
    BY <1>2, WrapKept DEF Kept
  <1>4. PICK t \in CellSet : t = Cell(ch, w.foreground, w.background)
    BY <1>3, Fields, Looks
  <1>5. PICK s : s = Stamp(w, t)
    OBVIOUS
  <1>6. /\ Kept(w, s) /\ s \in Consoles
        /\ s.cursor_x = w.cursor_x /\ s.cursor_y = w.cursor_y /\ s.input = w.input
    BY <1>3, <1>5, StampKept DEF Kept
  <1>7. PICK x \in 0 .. COLUMNS, y \in 0 .. ROWS : x = s.cursor_x + 1 /\ y = s.cursor_y
    BY <1>1, <1>3, <1>6, Fields
  <1>8. PICK m : m = Move(s, x, y)
    OBVIOUS
  <1>9. /\ m \in Consoles /\ m.cursor_x = x /\ m.cursor_y = y
        /\ m.foreground = s.foreground /\ m.background = s.background
        /\ m.input = s.input
        /\ Synced(s) => Synced(m)
    BY <1>6, <1>8, MoveKept
  <1>10. m = [s EXCEPT !.cursor_x = @ + 1]
    BY <1>6, <1>7, <1>8 DEF Consoles, Move
  <1>11. d = Wrap(m)
    BY <1>1, <1>2, <1>4, <1>5, <1>10 DEF write_cell
  <1>12. Kept(m, d) /\ d.cursor_x < COLUMNS /\ d.input = m.input
    BY <1>9, <1>11, WrapKept
  <1>13. Kept(c, s)
    BY <1>3, <1>6, KeptTrans
  <1>14. Kept(c, d)
    BY <1>7, <1>9, <1>12, <1>13 DEF Kept
  <1> QED
    BY <1>3, <1>6, <1>9, <1>12, <1>14

LEMMA TabKept ==
    ASSUME ROWS > 0, COLUMNS > 0, NEW c \in Consoles, NEW d, d = tab(c)
    PROVE  Kept(c, d) /\ d.cursor_x < COLUMNS /\ d.input = c.input
  <1>1. COLUMNS \in Nat /\ ROWS \in Nat /\ c.cursor_x \in 0 .. COLUMNS /\ c.cursor_y \in 0 .. ROWS
    BY TerminalAssumption, Fields
  <1>2. PICK n : n = (c.cursor_x \div TAB_SIZE + 1) * TAB_SIZE
    OBVIOUS
  <1>3. n \in Nat
    BY <1>1, <1>2 DEF TAB_SIZE
  <1>4. CASE n >= COLUMNS
    <2>1. d = newline(c)
      BY <1>2, <1>4 DEF tab
    <2> QED
      BY <1>1, <2>1, NewlineKept
  <1>5. CASE n < COLUMNS
    <2>1. PICK x \in 0 .. COLUMNS, y \in 0 .. ROWS : x = n /\ y = c.cursor_y
      BY <1>1, <1>3, <1>5
    <2>2. d = [c EXCEPT !.cursor_x = n]
      BY <1>1, <1>2, <1>3, <1>5 DEF tab
    <2>3. d = Move(c, x, y)
      BY <2>1, <2>2 DEF Consoles, Move
    <2>4. /\ d \in Consoles /\ d.cursor_x = x /\ d.cursor_y = y
          /\ d.foreground = c.foreground /\ d.background = c.background
          /\ d.input = c.input
          /\ Synced(c) => Synced(d)
      BY <2>3, MoveKept
    <2> QED
      BY <1>5, <2>1, <2>4 DEF Kept
  <1> QED
    BY <1>1, <1>3, <1>4, <1>5

\* Where backspace erases.
BackX(c) == IF c.cursor_x > 0 THEN c.cursor_x - 1 ELSE IF c.cursor_y > 0 THEN COLUMNS - 1 ELSE 0
BackY(c) == IF c.cursor_x > 0 \/ c.cursor_y = 0 THEN c.cursor_y ELSE c.cursor_y - 1

LEMMA BackspaceKept ==
    ASSUME ROWS > 0, COLUMNS > 0, NEW c \in Consoles, NEW d, d = backspace(c)
    PROVE  /\ Kept(c, d) /\ d.cursor_x = BackX(c) /\ d.cursor_y = BackY(c) /\ d.input = c.input
           /\ c.cursor_x > 0 /\ c.cursor_y < ROWS
                => d.cells = Put(c.cells, c.cursor_y, c.cursor_x - 1, EMPTY)
  <1>1. COLUMNS \in Nat /\ ROWS \in Nat /\ c.cursor_x \in 0 .. COLUMNS /\ c.cursor_y \in 0 .. ROWS
    BY TerminalAssumption, Fields
  <1>2. CASE c.cursor_x = 0 /\ c.cursor_y = 0
    <2>1. d = c
      BY <1>2 DEF backspace
    <2> QED
      BY <1>2, <2>1 DEF Kept, BackX, BackY
  <1>3. CASE ~(c.cursor_x = 0 /\ c.cursor_y = 0)
    <2>1. PICK x \in 0 .. COLUMNS, y \in 0 .. ROWS : x = BackX(c) /\ y = BackY(c)
      BY <1>1, <1>3 DEF BackX, BackY
    <2>2. PICK m : m = Move(c, x, y)
      OBVIOUS
    <2>3. /\ m \in Consoles /\ m.cursor_x = x /\ m.cursor_y = y
          /\ m.foreground = c.foreground /\ m.background = c.background
          /\ m.cells = c.cells /\ m.input = c.input
          /\ Synced(c) => Synced(m)
      BY <2>2, MoveKept
    <2>e. PICK e \in CellSet : e = EMPTY
      BY Looks
    <2>4. CASE c.cursor_x > 0
      <3>1. x = c.cursor_x - 1 /\ y = c.cursor_y
        BY <2>1, <2>4 DEF BackX, BackY
      <3>2. m = [c EXCEPT !.cursor_x = c.cursor_x - 1]
        BY <2>2, <3>1 DEF Consoles, Move
      <3>3. d = Stamp(m, EMPTY)
        BY <1>1, <2>4, <3>2 DEF backspace
      <3>4. /\ Kept(m, d) /\ d.cursor_x = m.cursor_x /\ d.cursor_y = m.cursor_y /\ d.input = m.input
            /\ m.cursor_x < COLUMNS /\ m.cursor_y < ROWS
                => d.cells = Put(m.cells, m.cursor_y, m.cursor_x, EMPTY)
        BY <2>3, <2>e, <3>3, StampKept
      <3>5. Kept(c, d)
        BY <1>1, <2>3, <3>1, <3>4 DEF Kept
      <3>6. c.cursor_y < ROWS => d.cells = Put(c.cells, c.cursor_y, c.cursor_x - 1, EMPTY)
        BY <1>1, <2>3, <3>1, <3>4
      <3> QED
        BY <2>1, <2>3, <3>4, <3>5, <3>6
    <2>5. CASE c.cursor_x = 0 /\ c.cursor_y > 0
      <3>1. x = COLUMNS - 1 /\ y = c.cursor_y - 1
        BY <1>1, <2>1, <2>5 DEF BackX, BackY
      <3>2. m = [c EXCEPT !.cursor_y = y, !.cursor_x = x]
        BY <2>2, MoveSwap
      <3>3. d = Stamp(m, EMPTY)
        <4>1. m = [c EXCEPT !.cursor_y = c.cursor_y - 1,
                            !.cursor_x = IF COLUMNS = 0 THEN 0 ELSE COLUMNS - 1]
          <5>1. (IF COLUMNS = 0 THEN 0 ELSE COLUMNS - 1) = x /\ c.cursor_y - 1 = y
            BY <1>1, <3>1
          <5> QED
            BY <3>2, <5>1, Zenon
        <4>2. /\ ~(c.cursor_x = 0 /\ c.cursor_y = 0) /\ ~(c.cursor_x > 0)
              /\ c.cursor_x = 0 /\ c.cursor_y > 0
          BY <1>1, <2>5
        <4> QED
          BY <4>1, <4>2 DEF backspace
      <3>4. /\ Kept(m, d) /\ d.cursor_x = m.cursor_x /\ d.cursor_y = m.cursor_y /\ d.input = m.input
        BY <2>3, <2>e, <3>3, StampKept
      <3>5. Kept(c, d)
        BY <1>1, <2>3, <2>5, <3>1, <3>4 DEF Kept
      <3> QED
        BY <2>1, <2>3, <2>5, <3>4, <3>5
    <2> QED
      BY <1>1, <1>3, <2>4, <2>5
  <1> QED
    BY <1>2, <1>3

\* What write_str can meet.
Chars == Printable \cup {"LF", "CR", "TAB", "BS", "other"}

LEMMA PutCharKept ==
    ASSUME ROWS > 0, COLUMNS > 0, NEW c \in Consoles, NEW ch \in Chars,
           NEW d, d = put_char(c, ch)
    PROVE  Kept(c, d) /\ d.input = c.input /\ (ch = "LF" => d.cursor_x = 0)
  <1>1. COLUMNS \in Nat /\ ROWS \in Nat /\ c.cursor_x \in 0 .. COLUMNS /\ c.cursor_y \in 0 .. ROWS
    BY TerminalAssumption, Fields
  <1>2. ch \in Printable => ch \notin {"LF", "CR", "TAB", "BS", "other"}
    BY TerminalAssumption DEF Printable
  <1>3. CASE ch = "LF"
    <2>1. d = newline(c)
      BY <1>2, <1>3 DEF put_char
    <2> QED
      BY <2>1, NewlineKept
  <1>4. CASE ch = "CR"
    <2>1. PICK x \in 0 .. COLUMNS, y \in 0 .. ROWS : x = 0 /\ y = c.cursor_y
      BY <1>1
    <2>2. d = [c EXCEPT !.cursor_x = 0]
      BY <1>2, <1>4 DEF put_char
    <2>3. d = Move(c, x, y)
      BY <2>1, <2>2 DEF Consoles, Move
    <2>4. /\ d \in Consoles /\ d.cursor_x = x /\ d.cursor_y = y
          /\ d.foreground = c.foreground /\ d.background = c.background
          /\ d.input = c.input
          /\ Synced(c) => Synced(d)
      BY <2>3, MoveKept
    <2> QED
      BY <1>1, <1>4, <2>1, <2>4 DEF Kept
  <1>5. CASE ch = "TAB"
    <2>1. d = tab(c)
      BY <1>2, <1>5 DEF put_char
    <2> QED
      BY <1>5, <2>1, TabKept
  <1>6. CASE ch = "BS"
    <2>1. d = backspace(c)
      BY <1>2, <1>6 DEF put_char
    <2> QED
      BY <1>6, <2>1, BackspaceKept
  <1>7. CASE ch \in Printable
    <2>1. d = write_cell(c, ch)
      BY <1>2, <1>7 DEF put_char
    <2> QED
      BY <1>2, <1>7, <2>1, WriteCellKept
  <1>8. CASE ch = "other"
    <2>1. d = c
      BY <1>2, <1>8 DEF put_char
    <2> QED
      BY <1>8, <2>1 DEF Kept
  <1> QED
    BY <1>3, <1>4, <1>5, <1>6, <1>7, <1>8 DEF Chars

LEMMA NoInput == \E i \in Seq(Printable) : i = <<>>
  <1>1. <<>> \in Seq(Printable)
    OBVIOUS
  <1> QED
    BY <1>1, Zenon

WithInput(c, s) == [c EXCEPT !.input = s]

LEMMA InputKept ==
    ASSUME NEW c \in Consoles, NEW s \in Seq(Printable), NEW d, d = WithInput(c, s)
    PROVE  /\ Kept(c, d) /\ d.input = s /\ d.cells = c.cells
           /\ d.cursor_x = c.cursor_x /\ d.cursor_y = c.cursor_y
  <1>1. /\ d \in Consoles /\ d.input = s /\ d.cells = c.cells /\ d.screen = c.screen
        /\ d.cursor_x = c.cursor_x /\ d.cursor_y = c.cursor_y
        /\ d.foreground = c.foreground /\ d.background = c.background
    BY DEF Consoles, WithInput
  <1> QED
    BY <1>1 DEF Kept, Synced

LEMMA ReadyKept ==
    ASSUME NEW c \in Consoles, NEW b \in BOOLEAN, NEW d, d = [c EXCEPT !.line_ready = b]
    PROVE  /\ Kept(c, d) /\ d.input = c.input /\ d.cells = c.cells
           /\ d.cursor_x = c.cursor_x /\ d.cursor_y = c.cursor_y
  <1>1. /\ d \in Consoles /\ d.input = c.input /\ d.cells = c.cells /\ d.screen = c.screen
        /\ d.cursor_x = c.cursor_x /\ d.cursor_y = c.cursor_y
        /\ d.foreground = c.foreground /\ d.background = c.background
    BY DEF Consoles
  <1> QED
    BY <1>1 DEF Kept, Synced

\* Enter, up to the command: a line feed, and the line taken out.
Entered(c) == read_line(receive_key(c, "enter"))

LEMMA EnteredKept ==
    ASSUME ROWS > 0, COLUMNS > 0, NEW c \in Consoles, NEW d, d = Entered(c)
    PROVE  Kept(c, d) /\ d.input = <<>> /\ d.cursor_x = 0
  <1>1. PICK p : p = put_char(c, "LF")
    OBVIOUS
  <1>2. Kept(c, p) /\ p \in Consoles /\ p.cursor_x = 0
    BY <1>1, PutCharKept DEF Kept, Chars
  <1>3. PICK r : r = [p EXCEPT !.line_ready = TRUE]
    OBVIOUS
  <1>4. Kept(p, r) /\ r \in Consoles /\ r.cursor_x = 0
    BY <1>2, <1>3, ReadyKept DEF Kept
  <1>5. "enter" \notin Printable
    BY TerminalAssumption DEF Printable
  <1>6. r = receive_key(c, "enter")
    BY <1>1, <1>3, <1>5 DEF receive_key
  <1>7. PICK e \in Seq(Printable) : e = <<>>
    BY NoInput
  <1>8. PICK q : q = WithInput(r, e)
    OBVIOUS
  <1>9. Kept(r, q) /\ q \in Consoles /\ q.cursor_x = 0 /\ q.input = <<>>
    <2>1. Kept(r, q) /\ q.input = e /\ q.cursor_x = r.cursor_x
      BY <1>4, <1>8, InputKept
    <2> QED
      BY <1>4, <1>7, <2>1 DEF Kept
  <1>10. d = [q EXCEPT !.line_ready = FALSE]
    BY <1>6, <1>7, <1>8 DEF Entered, read_line, WithInput
  <1>11. Kept(q, d) /\ d.cursor_x = 0 /\ d.input = <<>>
    BY <1>9, <1>10, ReadyKept
  <1>12. Kept(c, r)
    BY <1>2, <1>4, KeptTrans
  <1>13. Kept(c, q)
    BY <1>9, <1>12, KeptTrans
  <1> QED
    BY <1>11, <1>13, KeptTrans

\* The other keys.
LEMMA ReceiveKeyKept ==
    ASSUME ROWS > 0, COLUMNS > 0, NEW c \in Consoles, NEW key \in Keys \ {"enter"},
           NEW d, d = receive_key(c, key)
    PROVE  /\ Kept(c, d)
           /\ \/ d = c
              \/ /\ key = "backspace" /\ Len(c.input) > 0 /\ c.cursor_x > 2
                 /\ d = backspace(WithInput(c, SubSeq(c.input, 1, Len(c.input) - 1)))
                 /\ d.input = SubSeq(c.input, 1, Len(c.input) - 1)
              \/ /\ key \in Printable /\ Len(c.input) < INPUT_SIZE
                 /\ d = write_cell(WithInput(c, Append(c.input, key)), key)
                 /\ d.input = Append(c.input, key)
  <1>1. Kept(c, c)
    BY DEF Kept
  <1>2. c.input \in Seq(Printable)
    BY Fields
  <1>3. /\ key \in Printable => key \notin {"LF", "CR", "TAB", "BS", "other", "enter", "backspace"}
        /\ "backspace" \notin Printable /\ "other" \notin Printable
    BY TerminalAssumption DEF Printable
  <1>4. CASE key = "backspace"
    <2>1. CASE Len(c.input) > 0 /\ c.cursor_x > 2
      <3>1. PICK s : s = SubSeq(c.input, 1, Len(c.input) - 1)
        OBVIOUS
      <3>2. s \in Seq(Printable)
        BY <1>2, <2>1, <3>1
      <3>3. PICK w : w = WithInput(c, s)
        OBVIOUS
      <3>4. Kept(c, w) /\ w \in Consoles /\ w.input = s
        BY <3>2, <3>3, InputKept DEF Kept
      <3>5. d = put_char(w, "BS") /\ put_char(w, "BS") = backspace(w)
        BY <1>3, <1>4, <2>1, <3>1, <3>3, TerminalAssumption
        DEF receive_key, WithInput, put_char, Printable
      <3>6. Kept(w, d) /\ d.input = w.input
        BY <3>4, <3>5, PutCharKept DEF Chars
      <3>7. Kept(c, d)
        BY <3>4, <3>6, KeptTrans
      <3> QED
        BY <1>4, <2>1, <3>1, <3>3, <3>4, <3>5, <3>6, <3>7
    <2>2. CASE ~(Len(c.input) > 0 /\ c.cursor_x > 2)
      <3>1. d = c
        BY <1>3, <1>4, <2>2 DEF receive_key
      <3> QED
        BY <1>1, <3>1
    <2> QED
      BY <2>1, <2>2
  <1>5. CASE key \in Printable
    <2>1. CASE Len(c.input) < INPUT_SIZE
      <3>1. PICK s : s = Append(c.input, key)
        OBVIOUS
      <3>2. s \in Seq(Printable)
        BY <1>2, <1>5, <3>1
      <3>3. PICK w : w = WithInput(c, s)
        OBVIOUS
      <3>4. Kept(c, w) /\ w \in Consoles /\ w.input = s
        BY <3>2, <3>3, InputKept DEF Kept
      <3>5. d = put_char(w, key) /\ put_char(w, key) = write_cell(w, key)
        BY <1>3, <1>5, <2>1, <3>1, <3>3 DEF receive_key, WithInput, put_char
      <3>6. Kept(w, d) /\ d.input = w.input
        BY <1>5, <3>4, <3>5, WriteCellKept
      <3>7. Kept(c, d)
        BY <3>4, <3>6, KeptTrans
      <3> QED
        BY <1>5, <2>1, <3>1, <3>3, <3>4, <3>5, <3>6, <3>7
    <2>2. CASE ~(Len(c.input) < INPUT_SIZE)
      <3>1. d = c
        BY <1>3, <1>5, <2>2 DEF receive_key
      <3> QED
        BY <1>1, <3>1
    <2> QED
      BY <2>1, <2>2
  <1>6. CASE key = "other"
    <2>1. d = c
      BY <1>3, <1>6 DEF receive_key
    <2> QED
      BY <1>1, <2>1
  <1> QED
    BY <1>4, <1>5, <1>6 DEF Keys, Printable

LEMMA PromptKept ==
    ASSUME ROWS > 0, COLUMNS > 0, NEW c \in Consoles, NEW d, d = Prompt(c)
    PROVE  /\ Kept(c, d) /\ d.input = c.input
           /\ d = write_cell(write_cell(c, ">"), " ")
  <1>1. \A e : put_char(e, ">") = write_cell(e, ">") /\ put_char(e, " ") = write_cell(e, " ")
    BY TerminalAssumption DEF put_char, Printable
  <1>2. PICK e : e = write_cell(c, ">")
    OBVIOUS
  <1>3. Kept(c, e) /\ e \in Consoles /\ e.input = c.input
    BY <1>2, WriteCellKept DEF Kept, Printable
  <1>4. d = write_cell(e, " ")
    BY <1>1, <1>2 DEF Prompt
  <1>5. Kept(e, d) /\ d.input = e.input
    BY <1>3, <1>4, WriteCellKept DEF Printable
  <1> QED
    BY <1>2, <1>3, <1>4, <1>5, KeptTrans

LEMMA ClearKept ==
    ASSUME ROWS > 0, COLUMNS > 0, NEW c \in Consoles, NEW d, d = clear(c)
    PROVE  /\ Kept(c, d) /\ Synced(d)
           /\ d.input = <<>> /\ d.cursor_x = 0 /\ d.cursor_y = 0
  <1>1. COLUMNS \in Nat /\ ROWS \in Nat /\ MAX_ROWS \in Nat /\ ROWS <= MAX_ROWS
    BY TerminalAssumption
  <1>2. PICK b \in Colors : b = c.background
    BY Fields
  <1>3. PICK t \in CellSet : t = Cell(" ", WHITE, b)
    BY Looks
  <1>4. PICK e \in CellSet : e = EMPTY
    BY Looks
  <1>5. PICK g : g = Uniform(e, MAX_ROWS)
    OBVIOUS
  <1>6. PICK s : s = Uniform(t, ROWS)
    OBVIOUS
  <1>7. g \in Grid(MAX_ROWS) /\ s \in Grid(ROWS)
    BY <1>1, <1>5, <1>6 DEF Uniform, Grid
  <1>8. PICK i \in Seq(Printable) : i = <<>>
    BY NoInput
  <1>9. d = [c EXCEPT !.cells = g, !.cursor_x = 0, !.cursor_y = 0,
                      !.input = i, !.line_ready = FALSE, !.screen = s]
    BY <1>2, <1>3, <1>4, <1>5, <1>6, <1>8 DEF clear
  <1>10. /\ d \in Consoles /\ d.input = i /\ d.cursor_x = 0 /\ d.cursor_y = 0
         /\ d.cells = g /\ d.screen = s
         /\ d.foreground = c.foreground /\ d.background = c.background
    <2>1. PICK m : m = [c EXCEPT !.cells = g, !.cursor_x = 0, !.cursor_y = 0]
      OBVIOUS
    <2>2. /\ m \in Consoles /\ m.cursor_x = 0 /\ m.cursor_y = 0 /\ m.cells = g
          /\ m.foreground = c.foreground /\ m.background = c.background
      <3>1. 0 \in 0 .. COLUMNS /\ 0 \in 0 .. ROWS
        BY <1>1
      <3> QED
        BY <1>7, <2>1, <3>1 DEF Consoles
    <2>3. d = [m EXCEPT !.input = i, !.line_ready = FALSE, !.screen = s]
      BY <1>9, <2>1
    <2> QED
      BY <1>7, <2>2, <2>3 DEF Consoles
  <1>11. ASSUME NEW row \in 0 .. ROWS - 1, NEW col \in 0 .. COLUMNS - 1
         PROVE  Agree(d.screen[row][col], d.cells[row][col], d.background)
    <2>1. row \in 0 .. MAX_ROWS - 1
      BY <1>1
    <2>2. d.screen[row][col] = t /\ d.cells[row][col] = e
      BY <1>5, <1>6, <1>10, <2>1 DEF Uniform
    <2> QED
      BY <1>2, <1>3, <1>4, <1>10, <2>2, Looks
  <1>12. Synced(d)
    BY <1>11 DEF Synced
  <1> QED
    BY <1>1, <1>8, <1>10, <1>12 DEF Kept

LEMMA BootedKept ==
    ASSUME ROWS > 0, COLUMNS > 0
    PROVE  /\ Booted \in Consoles /\ Synced(Booted) /\ Booted.input = <<>>
           /\ Booted.cursor_x < COLUMNS /\ Booted.cursor_y < ROWS
           /\ Booted.foreground = WHITE
           /\ \E c \in Consoles : /\ c.cursor_x = 0 /\ c.cursor_y = 0 /\ c.input = <<>>
                                  /\ Booted = Prompt(c)
  <1>1. COLUMNS \in Nat /\ ROWS \in Nat /\ MAX_ROWS \in Nat /\ ROWS <= MAX_ROWS
    BY TerminalAssumption
  <1>2. PICK e \in CellSet : e = EMPTY /\ e = Cell(" ", WHITE, BLACK)
    BY Looks DEF EMPTY
  <1>3. PICK g : g = Uniform(e, MAX_ROWS)
    OBVIOUS
  <1>4. PICK s : s = Uniform(e, ROWS)
    OBVIOUS
  <1>5. g \in Grid(MAX_ROWS) /\ s \in Grid(ROWS)
    BY <1>1, <1>3, <1>4 DEF Uniform, Grid
  <1>6. PICK i \in Seq(Printable) : i = <<>>
    BY NoInput
  <1>7. PICK n : n = [cursor_x |-> 0, cursor_y |-> 0, foreground |-> WHITE, background |-> BLACK,
                      cells |-> g, screen |-> s, input |-> i, line_ready |-> FALSE]
    OBVIOUS
  <1>8. n \in Consoles /\ n.foreground = WHITE
    BY <1>1, <1>5, <1>7, TerminalAssumption DEF Consoles
  <1>9. PICK c : c = clear(n)
    OBVIOUS
  <1>10. /\ Kept(n, c) /\ c \in Consoles /\ c.foreground = WHITE /\ Synced(c)
         /\ c.input = <<>> /\ c.cursor_x = 0 /\ c.cursor_y = 0
    BY <1>8, <1>9, ClearKept DEF Kept
  <1>11. Booted = Prompt(c)
    BY <1>2, <1>3, <1>4, <1>6, <1>7, <1>9 DEF Booted
  <1>12. Kept(c, Booted) /\ Booted.input = c.input
    BY <1>10, <1>11, PromptKept
  <1> QED
    BY <1>10, <1>11, <1>12 DEF Kept

--------------------------------------------------------------------------------
(* The console as one line of cells: what stands before the cursor.            *)

LEMMA DivisionUnique ==
    ASSUME NEW w \in Nat \ {0}, NEW p \in Int, NEW q \in Int,
           NEW x \in 0 .. w - 1, NEW y \in 0 .. w - 1, w * p + x = w * q + y
    PROVE  p = q /\ x = y
  <1>1. w * p \in Int /\ w * q \in Int
    OBVIOUS
  <1>2. ~(p < q)
    <2> SUFFICES ASSUME p < q PROVE FALSE
      OBVIOUS
    <2>1. p + 1 <= q
      OBVIOUS
    <2>2. w * (p + 1) <= w * q
      BY <2>1
    <2>3. w * (p + 1) = w * p + w
      OBVIOUS
    <2> QED
      BY <1>1, <2>2, <2>3
  <1>3. ~(q < p)
    <2> SUFFICES ASSUME q < p PROVE FALSE
      OBVIOUS
    <2>1. q + 1 <= p
      OBVIOUS
    <2>2. w * (q + 1) <= w * p
      BY <2>1
    <2>3. w * (q + 1) = w * q + w
      OBVIOUS
    <2> QED
      BY <1>1, <2>2, <2>3
  <1>4. p = q
    BY <1>2, <1>3
  <1> QED
    BY <1>1, <1>4

LEMMA Place ==
    ASSUME COLUMNS > 0, NEW q \in Int, NEW m \in 0 .. COLUMNS - 1
    PROVE  /\ q * COLUMNS + m \in Int
           /\ (q * COLUMNS + m) \div COLUMNS = q /\ (q * COLUMNS + m) % COLUMNS = m
  <1>1. COLUMNS \in Nat \ {0}
    BY TerminalAssumption
  <1>2. PICK i \in Int : i = q * COLUMNS + m
    BY <1>1
  <1>3. i \div COLUMNS \in Int /\ i % COLUMNS \in 0 .. COLUMNS - 1
        /\ i = COLUMNS * (i \div COLUMNS) + (i % COLUMNS)
    BY <1>1
  <1>4. PICK p \in Int, x \in 0 .. COLUMNS - 1 : p = i \div COLUMNS /\ x = i % COLUMNS
    BY <1>3
  <1>5. COLUMNS * p + x = COLUMNS * q + m
    BY <1>1, <1>2, <1>3, <1>4
  <1>6. p = q /\ x = m
    BY <1>1, <1>5, DivisionUnique
  <1> QED
    BY <1>2, <1>4, <1>6

LEMMA Placed ==
    ASSUME COLUMNS > 0, NEW i \in Int
    PROVE  \E q \in Int, m \in 0 .. COLUMNS - 1 :
              i = q * COLUMNS + m /\ i \div COLUMNS = q /\ i % COLUMNS = m
  <1>1. COLUMNS \in Nat \ {0}
    BY TerminalAssumption
  <1>2. i \div COLUMNS \in Int /\ i % COLUMNS \in 0 .. COLUMNS - 1
        /\ i = COLUMNS * (i \div COLUMNS) + (i % COLUMNS)
    BY <1>1
  <1>3. PICK q \in Int, m \in 0 .. COLUMNS - 1 : q = i \div COLUMNS /\ m = i % COLUMNS
    BY <1>2
  <1>4. COLUMNS * q = q * COLUMNS
    BY <1>1
  <1> QED
    BY <1>2, <1>3, <1>4

LEMMA ModuloShift ==
    ASSUME COLUMNS > 0, NEW q \in Int, NEW a \in Nat
    PROVE  (q * COLUMNS + a) % COLUMNS = a % COLUMNS
  <1>1. COLUMNS \in Nat \ {0}
    BY TerminalAssumption
  <1>2. PICK p \in Int, m \in 0 .. COLUMNS - 1 : a = p * COLUMNS + m /\ a % COLUMNS = m
    <2>1. a \in Int
      OBVIOUS
    <2> QED
      BY <2>1, Placed
  <1>3. q * COLUMNS + a = (q + p) * COLUMNS + m
    BY <1>1, <1>2
  <1>4. ((q + p) * COLUMNS + m) % COLUMNS = m
    BY <1>2, Place
  <1> QED
    BY <1>2, <1>3, <1>4

\* The cell at place i of the line of cells g, and the place of the cursor.
InLine(g, i) == g[i \div COLUMNS][i % COLUMNS]
Cur(c) == c.cursor_y * COLUMNS + c.cursor_x

\* The cursor is on the console.
OnScreen(c) == c \in Consoles /\ c.cursor_x < COLUMNS /\ c.cursor_y < ROWS

LEMMA CurPlace ==
    ASSUME COLUMNS > 0, ROWS > 0, NEW c, OnScreen(c)
    PROVE  /\ c.cursor_x \in 0 .. COLUMNS - 1 /\ c.cursor_y \in 0 .. ROWS - 1
           /\ Cur(c) \in Nat
           /\ Cur(c) \div COLUMNS = c.cursor_y /\ Cur(c) % COLUMNS = c.cursor_x
  <1>1. COLUMNS \in Nat \ {0} /\ ROWS \in Nat \ {0}
    BY TerminalAssumption
  <1>2. PICK x \in 0 .. COLUMNS - 1, y \in 0 .. ROWS - 1 : x = c.cursor_x /\ y = c.cursor_y
    BY <1>1, Fields DEF OnScreen
  <1>3. y \in Nat /\ y * COLUMNS \in Nat /\ y \in Int
    BY <1>1
  <1>4. (y * COLUMNS + x) \div COLUMNS = y /\ (y * COLUMNS + x) % COLUMNS = x
    BY <1>3, Place
  <1> QED
    BY <1>2, <1>3, <1>4 DEF Cur

(***************************************************************************)
(* Places up to the cursor lie on the screen.                              *)
(***************************************************************************)
LEMMA BeforeCursor ==
    ASSUME COLUMNS > 0, ROWS > 0, NEW c, OnScreen(c), NEW i \in 0 .. Cur(c)
    PROVE  /\ i \div COLUMNS \in 0 .. c.cursor_y /\ i % COLUMNS \in 0 .. COLUMNS - 1
           /\ i \div COLUMNS \in 0 .. ROWS - 1 /\ i \div COLUMNS \in 0 .. MAX_ROWS - 1
           /\ i = (i \div COLUMNS) * COLUMNS + (i % COLUMNS)
  <1>1. COLUMNS \in Nat \ {0} /\ ROWS \in Nat \ {0} /\ MAX_ROWS \in Nat /\ ROWS <= MAX_ROWS
    BY TerminalAssumption
  <1>2. PICK x \in 0 .. COLUMNS - 1, y \in 0 .. ROWS - 1 : x = c.cursor_x /\ y = c.cursor_y
    BY CurPlace
  <1>3. Cur(c) = y * COLUMNS + x
    BY <1>2 DEF Cur
  <1>4. i \in Int
    BY <1>1, <1>2, <1>3
  <1>5. PICK q \in Int, m \in 0 .. COLUMNS - 1 :
            i = q * COLUMNS + m /\ i \div COLUMNS = q /\ i % COLUMNS = m
    BY <1>4, Placed
  <1>6. y * COLUMNS \in Nat /\ q * COLUMNS \in Int
    BY <1>1
  <1>7. q >= 0
    <2> SUFFICES ASSUME q + 1 <= 0 PROVE FALSE
      OBVIOUS
    <2>1. (q + 1) * COLUMNS <= 0 /\ (q + 1) * COLUMNS = q * COLUMNS + COLUMNS
      BY <1>1
    <2>2. i >= 0
      BY <1>3, <1>6
    <2> QED
      BY <1>1, <1>5, <1>6, <2>1, <2>2
  <1>8. q <= y
    <2> SUFFICES ASSUME y + 1 <= q PROVE FALSE
      OBVIOUS
    <2>1. (y + 1) * COLUMNS <= q * COLUMNS /\ (y + 1) * COLUMNS = y * COLUMNS + COLUMNS
      BY <1>1
    <2>2. i <= y * COLUMNS + x
      BY <1>3, <1>6
    <2> QED
      BY <1>1, <1>5, <1>6, <2>1, <2>2
  <1> QED
    BY <1>1, <1>2, <1>5, <1>7, <1>8

(***************************************************************************)
(* Scrolling takes every place one row of places back.                     *)
(***************************************************************************)
LEMMA ScrolledInLine ==
    ASSUME COLUMNS > 0, ROWS > 0, NEW c, OnScreen(c), NEW g \in Grid(MAX_ROWS),
           NEW i \in 0 .. Cur(c), i - COLUMNS >= 0
    PROVE  InLine(Scrolled(g), i - COLUMNS) = InLine(g, i)
  <1>1. COLUMNS \in Nat \ {0} /\ ROWS \in Nat \ {0} /\ MAX_ROWS \in Nat /\ ROWS <= MAX_ROWS
    BY TerminalAssumption
  <1>2. PICK q \in 0 .. ROWS - 1, m \in 0 .. COLUMNS - 1 :
            i = q * COLUMNS + m /\ i \div COLUMNS = q /\ i % COLUMNS = m
    BY BeforeCursor
  <1>3. q >= 1
    BY <1>1, <1>2
  <1>4. q - 1 \in Int /\ i - COLUMNS = (q - 1) * COLUMNS + m
    BY <1>1, <1>2
  <1>5. (i - COLUMNS) \div COLUMNS = q - 1 /\ (i - COLUMNS) % COLUMNS = m
    BY <1>4, Place
  <1>6. Scrolled(g)[q - 1] = g[q]
    <2>1. q - 1 \in 0 .. MAX_ROWS - 1 /\ q - 1 < ROWS - 1 /\ (q - 1) + 1 = q
      BY <1>1, <1>3
    <2> QED
      BY <2>1 DEF Scrolled
  <1> QED
    BY <1>2, <1>5, <1>6 DEF InLine

(***************************************************************************)
(* A character written at the cursor, seen in the line of cells: it stands *)
(* where the cursor was and the cursor is one further, both less a row if  *)
(* the screen had to scroll, and so is everything before it.               *)
(***************************************************************************)
LEMMA WriteInLine ==
    ASSUME COLUMNS > 0, ROWS > 0, NEW c, OnScreen(c), NEW ch \in Printable,
           NEW d, d = write_cell(c, ch)
    PROVE  /\ OnScreen(d)
           /\ \E k \in {0, COLUMNS} :
                /\ Cur(d) = Cur(c) + 1 - k
                /\ Cur(c) - k >= 0 => InLine(d.cells, Cur(c) - k).character = ch
                /\ \A i \in 0 .. Cur(c) - 1 :
                      i - k >= 0 => InLine(d.cells, i - k) = InLine(c.cells, i)
  <1>1. COLUMNS \in Nat \ {0} /\ ROWS \in Nat \ {0} /\ MAX_ROWS \in Nat /\ ROWS <= MAX_ROWS
    BY TerminalAssumption
  <1>2. c \in Consoles /\ c.cursor_x < COLUMNS /\ c.cursor_y < ROWS
    BY DEF OnScreen
  <1>3. PICK x \in 0 .. COLUMNS - 1, y \in 0 .. ROWS - 1 : x = c.cursor_x /\ y = c.cursor_y
    BY CurPlace
  <1>4. Wrap(c) = c
    BY <1>1, <1>3 DEF Wrap
  <1>5. PICK t \in CellSet : t = Cell(ch, c.foreground, c.background) /\ t.character = ch
    BY <1>2, Fields, Looks DEF Cell
  <1>6. PICK s : s = Stamp(c, t)
    OBVIOUS
  <1>7. PICK g : g = Put(c.cells, y, x, t)
    OBVIOUS
  <1>8. /\ s \in Consoles /\ s.cursor_x = x /\ s.cursor_y = y /\ s.cells = g
    BY <1>2, <1>3, <1>6, <1>7, StampKept DEF Kept
  <1>9. PICK u \in 0 .. COLUMNS, v \in 0 .. ROWS : u = x + 1 /\ v = y
    BY <1>1
  <1>10. PICK m : m = Move(s, u, v)
    OBVIOUS
  <1>11. m \in Consoles /\ m.cursor_x = u /\ m.cursor_y = v /\ m.cells = s.cells
    BY <1>8, <1>10, MoveKept
  <1>12. m = [s EXCEPT !.cursor_x = @ + 1]
    BY <1>8, <1>9, <1>10 DEF Consoles, Move
  <1>13. d = Wrap(m)
    BY <1>1, <1>4, <1>5, <1>6, <1>12 DEF write_cell
  <1>14. Kept(c, d) /\ d.cursor_x < COLUMNS
    BY <1>2, WriteCellKept
  <1>15. OnScreen(d)
    BY <1>2, <1>14 DEF OnScreen, Kept
  <1>16. Cur(c) = y * COLUMNS + x /\ y * COLUMNS \in Nat /\ Cur(c) \in Nat
    BY <1>1, <1>3 DEF Cur
  <1>17. /\ g \in Grid(MAX_ROWS)
         /\ InLine(g, Cur(c)) = t
         /\ \A i \in 0 .. Cur(c) - 1 : InLine(g, i) = InLine(c.cells, i)
    <2>0. PICK h \in Grid(MAX_ROWS) : h = c.cells
      BY <1>2, Fields
    <2>1. y \in 0 .. MAX_ROWS - 1 /\ g = Put(h, y, x, t)
      BY <1>1, <1>7, <2>0
    <2>2. /\ g \in Grid(MAX_ROWS) /\ g[y][x] = t
          /\ \A i \in 0 .. MAX_ROWS - 1, j \in 0 .. COLUMNS - 1 :
                ~(i = y /\ j = x) => g[i][j] = h[i][j]
      BY <1>1, <2>1, GridUpdate
    <2>3. InLine(g, Cur(c)) = t
      BY <1>3, <2>2, CurPlace DEF InLine
    <2>4. ASSUME NEW i \in 0 .. Cur(c) - 1 PROVE InLine(g, i) = InLine(c.cells, i)
      <3>1. i \in 0 .. Cur(c)
        BY <1>16
      <3>2. PICK q \in 0 .. MAX_ROWS - 1, n \in 0 .. COLUMNS - 1 :
                i = q * COLUMNS + n /\ i \div COLUMNS = q /\ i % COLUMNS = n
        BY <3>1, BeforeCursor
      <3>3. ~(q = y /\ n = x)
        BY <1>16, <2>4, <3>2
      <3> QED
        BY <2>0, <2>2, <3>2, <3>3 DEF InLine
    <2> QED
      BY <2>2, <2>3, <2>4
  <1>18. CASE u < COLUMNS
    <2>1. d = m
      BY <1>1, <1>11, <1>13, <1>18 DEF Wrap
    <2>2. Cur(d) = Cur(c) + 1 - 0 /\ d.cells = g
      BY <1>1, <1>8, <1>9, <1>11, <1>16, <2>1 DEF Cur
    <2>3. Cur(c) - 0 = Cur(c) /\ \A i \in 0 .. Cur(c) - 1 : i - 0 = i
      BY <1>16
    <2> QED
      BY <1>5, <1>15, <1>17, <2>2, <2>3
  <1>19. CASE u = COLUMNS /\ v + 1 < ROWS
    <2>1. d = newline(m)
      BY <1>1, <1>11, <1>13, <1>19 DEF Wrap
    <2>2. d.cursor_x = 0 /\ d.cursor_y = m.cursor_y + 1 /\ d.cells = m.cells
      BY <1>11, <1>19, <2>1, NewlineKept
    <2>3. (y + 1) * COLUMNS = y * COLUMNS + COLUMNS
      BY <1>1
    <2>4. Cur(d) = Cur(c) + 1 - 0 /\ d.cells = g
      BY <1>1, <1>8, <1>9, <1>11, <1>16, <1>19, <2>2, <2>3 DEF Cur
    <2>5. Cur(c) - 0 = Cur(c) /\ \A i \in 0 .. Cur(c) - 1 : i - 0 = i
      BY <1>16
    <2> QED
      BY <1>5, <1>15, <1>17, <2>4, <2>5
  <1>20. CASE u = COLUMNS /\ v + 1 >= ROWS
    <2>1. d = newline(m)
      BY <1>1, <1>11, <1>13, <1>20 DEF Wrap
    <2>2. d.cursor_x = 0 /\ d.cursor_y = ROWS - 1 /\ d.cells = Scrolled(m.cells)
      BY <1>11, <1>20, <2>1, NewlineKept
    <2>3. Cur(d) = Cur(c) + 1 - COLUMNS /\ d.cells = Scrolled(g)
      <3>1. y = ROWS - 1
        BY <1>1, <1>9, <1>20
      <3> QED
        BY <1>1, <1>8, <1>9, <1>11, <1>16, <1>20, <2>2, <3>1 DEF Cur
    <2>4. ASSUME Cur(c) - COLUMNS >= 0 PROVE InLine(d.cells, Cur(c) - COLUMNS).character = ch
      <3>1. Cur(c) \in 0 .. Cur(c)
        BY <1>16
      <3>2. InLine(Scrolled(g), Cur(c) - COLUMNS) = InLine(g, Cur(c))
        BY <1>17, <2>4, <3>1, ScrolledInLine
      <3> QED
        BY <1>5, <1>17, <2>3, <3>2
    <2>5. ASSUME NEW i \in 0 .. Cur(c) - 1, i - COLUMNS >= 0
          PROVE  InLine(d.cells, i - COLUMNS) = InLine(c.cells, i)
      <3>1. i \in 0 .. Cur(c)
        BY <1>16
      <3>2. InLine(Scrolled(g), i - COLUMNS) = InLine(g, i)
        BY <1>17, <2>5, <3>1, ScrolledInLine
      <3> QED
        BY <1>17, <2>3, <3>2
    <2> QED
      BY <1>15, <2>3, <2>4, <2>5
  <1> QED
    BY <1>1, <1>18, <1>19, <1>20

(***************************************************************************)
(* s is what was written since the beginning of a row: as much of it as    *)
(* the console still holds stands before the cursor.                       *)
(***************************************************************************)
Shows(c, s) ==
    /\ \A i \in 1 .. Len(s) :
          Cur(c) - i >= 0 => InLine(c.cells, Cur(c) - i).character = s[Len(s) - i + 1]
    /\ \E q \in Int : Cur(c) - Len(s) = q * COLUMNS

LEMMA ShowsNothing ==
    ASSUME COLUMNS > 0, ROWS > 0, NEW c, OnScreen(c), c.cursor_x = 0
    PROVE  Shows(c, <<>>)
  <1>1. COLUMNS \in Nat /\ c.cursor_y \in Int
    BY TerminalAssumption, CurPlace
  <1>2. Cur(c) - Len(<<>>) = c.cursor_y * COLUMNS
    BY <1>1 DEF Cur
  <1>3. 1 .. Len(<<>>) = {}
    OBVIOUS
  <1> QED
    BY <1>1, <1>2, <1>3 DEF Shows

LEMMA ShowsWrite ==
    ASSUME COLUMNS > 0, ROWS > 0, NEW c, OnScreen(c), NEW ch \in Printable,
           NEW s \in Seq(Printable), Shows(c, s), NEW d, d = write_cell(c, ch)
    PROVE  OnScreen(d) /\ Shows(d, Append(s, ch))
  <1>1. COLUMNS \in Nat \ {0} /\ Cur(c) \in Nat /\ Len(s) \in Nat
    BY TerminalAssumption, CurPlace
  <1>2. /\ OnScreen(d)
        /\ \E k \in {0, COLUMNS} :
             /\ Cur(d) = Cur(c) + 1 - k
             /\ Cur(c) - k >= 0 => InLine(d.cells, Cur(c) - k).character = ch
             /\ \A i \in 0 .. Cur(c) - 1 :
                   i - k >= 0 => InLine(d.cells, i - k) = InLine(c.cells, i)
    BY WriteInLine
  <1>3. PICK k \in {0, COLUMNS} :
             /\ Cur(d) = Cur(c) + 1 - k
             /\ Cur(c) - k >= 0 => InLine(d.cells, Cur(c) - k).character = ch
             /\ \A i \in 0 .. Cur(c) - 1 :
                   i - k >= 0 => InLine(d.cells, i - k) = InLine(c.cells, i)
    BY <1>2
  <1>4. PICK a \in Seq(Printable) : a = Append(s, ch)
    <2>1. Append(s, ch) \in Seq(Printable)
      OBVIOUS
    <2> QED
      BY <2>1, Zenon
  <1>5. /\ Len(a) = Len(s) + 1 /\ a[Len(s) + 1] = ch
        /\ \A i \in 1 .. Len(s) : a[i] = s[i]
    BY <1>4
  <1>6. ASSUME NEW i \in 1 .. Len(a), Cur(d) - i >= 0
        PROVE  InLine(d.cells, Cur(d) - i).character = a[Len(a) - i + 1]
    <2>1. CASE i = 1
      <3>1. Cur(d) - i = Cur(c) - k /\ Len(a) - i + 1 = Len(s) + 1
        BY <1>1, <1>3, <1>5, <2>1
      <3> QED
        BY <1>3, <1>5, <1>6, <3>1
    <2>2. CASE i > 1
      <3>1. PICK j \in 1 .. Len(s) : j = i - 1
        BY <1>1, <1>5, <2>2
      <3>2. PICK p \in Int : p = Cur(c) - j
        BY <1>1
      <3>3. Cur(d) - i = p - k /\ Len(a) - i + 1 = Len(s) - j + 1 /\ p >= 0 /\ p <= Cur(c) - 1
        BY <1>1, <1>3, <1>5, <1>6, <3>1, <3>2, SMTT(30)
      <3>4. InLine(d.cells, p - k) = InLine(c.cells, p)
        BY <1>1, <1>3, <1>6, <3>3
      <3>5. InLine(c.cells, p).character = s[Len(s) - j + 1]
        BY <3>2, <3>3 DEF Shows
      <3>6. a[Len(s) - j + 1] = s[Len(s) - j + 1]
        BY <1>1, <1>5, <3>1
      <3> QED
        BY <3>3, <3>4, <3>5, <3>6
    <2> QED
      BY <1>1, <1>5, <2>1, <2>2
  <1>7. \E q \in Int : Cur(d) - Len(a) = q * COLUMNS
    <2>1. PICK q \in Int : Cur(c) - Len(s) = q * COLUMNS
      BY DEF Shows
    <2>2. PICK z \in Int : z = q * COLUMNS
      BY <1>1
    <2>3. CASE k = 0
      <3>1. Cur(d) - Len(a) = z
        BY <1>1, <1>3, <1>5, <2>1, <2>2, <2>3
      <3> QED
        BY <2>2, <3>1
    <2>4. CASE k = COLUMNS
      <3>1. (q - 1) * COLUMNS = z - COLUMNS /\ q - 1 \in Int
        BY <1>1, <2>2
      <3>2. Cur(d) - Len(a) = z - COLUMNS
        BY <1>1, <1>3, <1>5, <2>1, <2>2, <2>4
      <3> QED
        BY <3>1, <3>2
    <2> QED
      BY <2>3, <2>4
  <1>8. Shows(d, a)
    BY <1>6, <1>7 DEF Shows
  <1> QED
    BY <1>2, <1>4, <1>8

LEMMA FrontOf ==
    ASSUME NEW s \in Seq(Printable), Len(s) > 0
    PROVE  /\ SubSeq(s, 1, Len(s) - 1) \in Seq(Printable)
           /\ Len(SubSeq(s, 1, Len(s) - 1)) = Len(s) - 1
           /\ \A i \in 1 .. Len(s) - 1 : SubSeq(s, 1, Len(s) - 1)[i] = s[i]
  <1>1. Len(s) \in Nat /\ Len(s) - 1 \in 0 .. Len(s)
    OBVIOUS
  <1>2. PICK n \in Int : n = Len(s) - 1
    BY <1>1
  <1>3. PICK m \in Int : m = 1
    OBVIOUS
  <1>4. \A i \in m .. n : s[i] \in Printable
    BY <1>1, <1>2, <1>3
  <1>5. /\ SubSeq(s, m, n) \in Seq(Printable)
        /\ Len(SubSeq(s, m, n)) = IF m <= n THEN n - m + 1 ELSE 0
        /\ \A i \in 1 .. n - m + 1 : SubSeq(s, m, n)[i] = s[m + i - 1]
    BY <1>4, SubSeqProperties
  <1>6. /\ (IF m <= n THEN n - m + 1 ELSE 0) = Len(s) - 1
        /\ n - m + 1 = Len(s) - 1 /\ \A i \in 1 .. Len(s) - 1 : m + i - 1 = i
    BY <1>1, <1>2, <1>3
  <1> QED
    BY <1>2, <1>3, <1>5, <1>6

(***************************************************************************)
(* Erasing the last character of s shows the rest of it.                   *)
(***************************************************************************)
LEMMA ShowsBackspace ==
    ASSUME COLUMNS > 0, ROWS > 0, NEW c, OnScreen(c), c.cursor_x > 0,
           NEW s \in Seq(Printable), Len(s) > 0, Shows(c, s), NEW d, d = backspace(c)
    PROVE  OnScreen(d) /\ Shows(d, SubSeq(s, 1, Len(s) - 1))
  <1>1. COLUMNS \in Nat \ {0} /\ ROWS \in Nat \ {0} /\ MAX_ROWS \in Nat /\ ROWS <= MAX_ROWS
    BY TerminalAssumption
  <1>2. Cur(c) \in Nat /\ Len(s) \in Nat
    BY CurPlace
  <1>3. PICK x \in 0 .. COLUMNS - 1, y \in 0 .. ROWS - 1 : x = c.cursor_x /\ y = c.cursor_y
    BY CurPlace
  <1>4. c \in Consoles
    BY DEF OnScreen
  <1>5. PICK e \in CellSet : e = EMPTY
    BY Looks
  <1>6. /\ Kept(c, d) /\ d.cursor_x = BackX(c) /\ d.cursor_y = BackY(c)
        /\ c.cursor_x > 0 /\ c.cursor_y < ROWS
             => d.cells = Put(c.cells, c.cursor_y, c.cursor_x - 1, EMPTY)
    BY <1>4, BackspaceKept
  <1>7. /\ d.cursor_x = x - 1 /\ d.cursor_y = y /\ x > 0
        /\ d.cells = Put(c.cells, y, x - 1, e)
    BY <1>1, <1>3, <1>5, <1>6 DEF BackX, BackY
  <1>8. OnScreen(d)
    BY <1>1, <1>4, <1>3, <1>6, <1>7 DEF OnScreen, Kept
  <1>9. Cur(c) = y * COLUMNS + x /\ y * COLUMNS \in Nat /\ Cur(d) = Cur(c) - 1
    BY <1>1, <1>3, <1>7 DEF Cur
  <1>10. \A i \in 0 .. Cur(d) - 1 : InLine(d.cells, i) = InLine(c.cells, i)
    <2>1. PICK g \in Grid(MAX_ROWS) : g = c.cells
      BY <1>4, Fields
    <2>2. PICK z \in 0 .. COLUMNS - 1 : z = x - 1
      BY <1>1, <1>7
    <2>3. y \in 0 .. MAX_ROWS - 1 /\ d.cells = Put(g, y, z, e)
      BY <1>1, <1>7, <2>1, <2>2
    <2>4. \A i \in 0 .. MAX_ROWS - 1, j \in 0 .. COLUMNS - 1 :
                ~(i = y /\ j = z) => d.cells[i][j] = g[i][j]
      BY <1>1, <2>3, GridUpdate, SMTT(30)
    <2>5. ASSUME NEW i \in 0 .. Cur(d) - 1 PROVE InLine(d.cells, i) = InLine(c.cells, i)
      <3>1. i \in 0 .. Cur(c)
        BY <1>2, <1>9
      <3>2. PICK q \in 0 .. MAX_ROWS - 1, n \in 0 .. COLUMNS - 1 :
                i = q * COLUMNS + n /\ i \div COLUMNS = q /\ i % COLUMNS = n
        BY <3>1, BeforeCursor
      <3>3. ~(q = y /\ n = z)
        BY <1>9, <2>2, <2>5, <3>2
      <3> QED
        BY <2>1, <2>4, <3>2, <3>3 DEF InLine
    <2> QED
      BY <2>5
  <1>11. PICK a \in Seq(Printable) : a = SubSeq(s, 1, Len(s) - 1)
    BY FrontOf, Zenon
  <1>12. Len(a) = Len(s) - 1 /\ \A i \in 1 .. Len(a) : a[i] = s[i]
    BY <1>11, FrontOf
  <1>13. ASSUME NEW i \in 1 .. Len(a), Cur(d) - i >= 0
         PROVE  InLine(d.cells, Cur(d) - i).character = a[Len(a) - i + 1]
    <2>1. PICK j \in 1 .. Len(s) : j = i + 1
      BY <1>2, <1>12
    <2>2. /\ Cur(d) - i = Cur(c) - j /\ Len(a) - i + 1 = Len(s) - j + 1
          /\ Cur(d) - i \in 0 .. Cur(d) - 1 /\ Len(a) - i + 1 \in 1 .. Len(a)
      <3>1. Cur(d) \in Int /\ Cur(d) = Cur(c) - 1 /\ Len(a) = Len(s) - 1
        BY <1>2, <1>9, <1>12
      <3> QED
        BY <1>2, <1>13, <2>1, <3>1
    <2>3. InLine(c.cells, Cur(c) - j).character = s[Len(s) - j + 1]
      BY <1>13, <2>1, <2>2 DEF Shows
    <2> QED
      BY <1>10, <1>12, <2>2, <2>3
  <1>14. \E q \in Int : Cur(d) - Len(a) = q * COLUMNS
    <2>1. PICK q \in Int : Cur(c) - Len(s) = q * COLUMNS
      BY DEF Shows
    <2>2. Cur(d) - Len(a) = q * COLUMNS
      BY <1>2, <1>9, <1>12, <2>1
    <2> QED
      BY <2>2
  <1> QED
    BY <1>8, <1>11, <1>13, <1>14 DEF Shows

--------------------------------------------------------------------------------
(* The console after boot. *)

Gt == ">"
Sp == " "
PromptLine == <<Gt, Sp>>
WithPrompt(s) == PromptLine \o s

LEMMA PromptChars == Gt \in Printable /\ Sp \in Printable
  BY Zenon DEF Gt, Sp, Printable

LEMMA WithPromptFacts ==
    ASSUME NEW s \in Seq(Printable)
    PROVE  /\ WithPrompt(s) \in Seq(Printable) /\ Len(WithPrompt(s)) = Len(s) + 2
           /\ WithPrompt(s)[1] = Gt /\ WithPrompt(s)[2] = Sp
           /\ \A i \in 1 .. Len(s) : WithPrompt(s)[i + 2] = s[i]
  <1>1. PromptLine \in Seq(Printable) /\ Len(PromptLine) = 2
        /\ PromptLine[1] = Gt /\ PromptLine[2] = Sp
    BY PromptChars DEF PromptLine
  <1>2. /\ PromptLine \o s \in Seq(Printable)
        /\ Len(PromptLine \o s) = Len(PromptLine) + Len(s)
        /\ \A i \in 1 .. Len(PromptLine) + Len(s) :
              (PromptLine \o s)[i] = IF i <= Len(PromptLine) THEN PromptLine[i]
                                     ELSE s[i - Len(PromptLine)]
    BY <1>1, ConcatProperties
  <1>3. Len(s) \in Nat
    OBVIOUS
  <1>4. PICK w : w = PromptLine \o s
    OBVIOUS
  <1>5. w[1] = Gt /\ w[2] = Sp
    BY <1>1, <1>2, <1>3, <1>4
  <1>6. ASSUME NEW i \in 1 .. Len(s) PROVE w[i + 2] = s[i]
    <2>1. i + 2 \in 1 .. 2 + Len(s) /\ ~(i + 2 <= 2) /\ (i + 2) - 2 = i
      BY <1>3
    <2> QED
      BY <1>1, <1>2, <1>4, <2>1
  <1> QED
    BY <1>1, <1>2, <1>3, <1>4, <1>5, <1>6 DEF WithPrompt

LEMMA WithPromptAppend ==
    ASSUME NEW s \in Seq(Printable), NEW ch \in Printable
    PROVE  WithPrompt(Append(s, ch)) = Append(WithPrompt(s), ch)
  <1>1. PICK a \in Seq(Printable) : a = Append(s, ch)
    <2>1. Append(s, ch) \in Seq(Printable)
      OBVIOUS
    <2> QED
      BY <2>1, Zenon
  <1>2. /\ Len(a) = Len(s) + 1 /\ a[Len(s) + 1] = ch /\ Len(s) \in Nat
        /\ \A i \in 1 .. Len(s) : a[i] = s[i]
    BY <1>1
  <1>3. PICK v \in Seq(Printable) : v = WithPrompt(s)
    BY WithPromptFacts
  <1>4. PICK w \in Seq(Printable) : w = WithPrompt(a)
    BY WithPromptFacts
  <1>5. PICK b \in Seq(Printable) : b = Append(v, ch)
    <2>1. Append(v, ch) \in Seq(Printable)
      OBVIOUS
    <2> QED
      BY <2>1, Zenon
  <1>6. /\ Len(b) = Len(v) + 1 /\ b[Len(v) + 1] = ch
        /\ \A i \in 1 .. Len(v) : b[i] = v[i]
    BY <1>5
  <1>7. /\ Len(v) = Len(s) + 2 /\ v[1] = Gt /\ v[2] = Sp
        /\ \A i \in 1 .. Len(s) : v[i + 2] = s[i]
    BY <1>3, WithPromptFacts
  <1>8. /\ Len(w) = Len(a) + 2 /\ w[1] = Gt /\ w[2] = Sp
        /\ \A i \in 1 .. Len(a) : w[i + 2] = a[i]
    BY <1>4, WithPromptFacts
  <1>9. ASSUME NEW i \in 1 .. Len(w) PROVE w[i] = b[i]
    <2>1. CASE i <= 2
      BY <1>2, <1>6, <1>7, <1>8, <2>1
    <2>2. CASE i > 2
      <3>1. PICK j \in 1 .. Len(a) : i = j + 2
        <4>1. i - 2 \in 1 .. Len(a) /\ i = (i - 2) + 2
          BY <1>2, <1>8, <2>2
        <4> QED
          BY <4>1
      <3>2. CASE j <= Len(s)
        BY <1>2, <1>6, <1>7, <1>8, <3>1, <3>2
      <3>3. CASE j = Len(s) + 1
        BY <1>2, <1>6, <1>7, <1>8, <3>1, <3>3, SMTT(30)
      <3> QED
        BY <1>2, <3>2, <3>3
    <2> QED
      BY <2>1, <2>2
  <1>10. Len(w) = Len(b)
    BY <1>2, <1>6, <1>7, <1>8
  <1>11. w = b
    BY <1>9, <1>10, SeqEqual
  <1> QED
    BY <1>1, <1>3, <1>4, <1>5, <1>11

LEMMA WithPromptFront ==
    ASSUME NEW s \in Seq(Printable), Len(s) > 0
    PROVE  /\ Len(WithPrompt(s)) > 0
           /\ WithPrompt(SubSeq(s, 1, Len(s) - 1))
                = SubSeq(WithPrompt(s), 1, Len(WithPrompt(s)) - 1)
  <1>1. PICK f \in Seq(Printable) : f = SubSeq(s, 1, Len(s) - 1)
    BY FrontOf
  <1>2. Len(s) \in Nat /\ Len(f) = Len(s) - 1 /\ \A i \in 1 .. Len(f) : f[i] = s[i]
    BY <1>1, FrontOf
  <1>3. PICK v \in Seq(Printable) : v = WithPrompt(s)
    BY WithPromptFacts
  <1>4. PICK w \in Seq(Printable) : w = WithPrompt(f)
    BY WithPromptFacts
  <1>5. /\ Len(v) = Len(s) + 2 /\ v[1] = Gt /\ v[2] = Sp
        /\ \A i \in 1 .. Len(s) : v[i + 2] = s[i]
    BY <1>3, WithPromptFacts
  <1>6. /\ Len(w) = Len(f) + 2 /\ w[1] = Gt /\ w[2] = Sp
        /\ \A i \in 1 .. Len(f) : w[i + 2] = f[i]
    BY <1>4, WithPromptFacts
  <1>7. Len(v) > 0
    BY <1>2, <1>5
  <1>8. PICK b \in Seq(Printable) : b = SubSeq(v, 1, Len(v) - 1)
    BY <1>7, FrontOf
  <1>9. Len(b) = Len(v) - 1 /\ \A i \in 1 .. Len(b) : b[i] = v[i]
    BY <1>7, <1>8, FrontOf
  <1>10. Len(w) = Len(b)
    BY <1>2, <1>5, <1>6, <1>9
  <1>11. ASSUME NEW i \in 1 .. Len(w) PROVE w[i] = b[i]
    <2>1. CASE i <= 2
      BY <1>2, <1>5, <1>6, <1>9, <1>10, <2>1
    <2>2. CASE i > 2
      <3>1. PICK j \in 1 .. Len(f) : i = j + 2
        <4>1. i - 2 \in 1 .. Len(f) /\ i = (i - 2) + 2
          BY <1>2, <1>6, <2>2
        <4> QED
          BY <4>1
      <3>2. j \in 1 .. Len(s) /\ i \in 1 .. Len(b)
        BY <1>2, <1>10
      <3>3. w[i] = f[j] /\ b[i] = v[i]
        BY <1>6, <1>9, <3>1, <3>2
      <3> QED
        BY <1>2, <1>5, <3>1, <3>2, <3>3
    <2> QED
      BY <2>1, <2>2
  <1>12. w = b
    BY <1>10, <1>11, SeqEqual
  <1> QED
    BY <1>1, <1>3, <1>4, <1>7, <1>8, <1>12

LEMMA PromptShown ==
    ASSUME COLUMNS > 0, ROWS > 0, NEW c, OnScreen(c), c.cursor_x = 0, c.input = <<>>,
           NEW d, d = Prompt(c)
    PROVE  OnScreen(d) /\ d.input = <<>> /\ Shows(d, WithPrompt(d.input))
  <1>1. c \in Consoles
    BY DEF OnScreen
  <1>2. d = write_cell(write_cell(c, Gt), Sp) /\ d.input = <<>>
    BY <1>1, PromptKept, Zenon DEF Gt, Sp
  <1>3. PICK e : e = write_cell(c, Gt)
    OBVIOUS
  <1>4. Shows(c, <<>>) /\ <<>> \in Seq(Printable) /\ Gt \in Printable /\ Sp \in Printable
    BY ShowsNothing, PromptChars
  <1>5. OnScreen(e) /\ Shows(e, Append(<<>>, Gt))
    BY <1>3, <1>4, ShowsWrite
  <1>6. PICK s \in Seq(Printable) : s = Append(<<>>, Gt)
    <2>1. Append(<<>>, Gt) \in Seq(Printable)
      BY <1>4
    <2> QED
      BY <2>1, Zenon
  <1>7. OnScreen(d) /\ Shows(d, Append(s, Sp))
    BY <1>2, <1>3, <1>4, <1>5, <1>6, ShowsWrite
  <1>8. Append(s, Sp) = WithPrompt(<<>>)
    <2>2. PromptLine \in Seq(Printable) /\ Len(PromptLine) = 2
          /\ PromptLine[1] = Gt /\ PromptLine[2] = Sp
      BY <1>4 DEF PromptLine
    <2>1. Append(s, Sp) = PromptLine
      <3>1. Len(s) = 1 /\ s[1] = Gt
        BY <1>6
      <3>2. PICK b : b = Append(s, Sp)
        OBVIOUS
      <3>3. b \in Seq(Printable) /\ Len(b) = 2 /\ b[1] = Gt /\ b[2] = Sp
        <4>1. PICK c2 \in Printable : c2 = Sp
          BY <1>4
        <4>2. /\ Append(s, c2) \in Seq(Printable) /\ Len(Append(s, c2)) = Len(s) + 1
              /\ \A i \in 1 .. Len(s) : Append(s, c2)[i] = s[i]
              /\ Append(s, c2)[Len(s) + 1] = c2
          BY AppendProperties
        <4> QED
          BY <3>1, <3>2, <4>1, <4>2
      <3>4. \A i \in 1 .. 2 : b[i] = PromptLine[i]
        BY <2>2, <3>3
      <3>5. b = PromptLine
        BY <2>2, <3>3, <3>4, SeqEqual
      <3> QED
        BY <3>2, <3>5
    <2>3. PromptLine \o <<>> = PromptLine
      BY <2>2, ConcatEmptySeq
    <2> QED
      BY <2>1, <2>3 DEF WithPrompt
  <1> QED
    BY <1>2, <1>7, <1>8

\* One field is replaced.
WithFore(c, f) == [c EXCEPT !.foreground = f]
WithBack(c, b) == [c EXCEPT !.background = b]

LEMMA ForeKept ==
    ASSUME NEW c \in Consoles, NEW f \in Colors, NEW d, d = WithFore(c, f)
    PROVE  /\ d \in Consoles /\ d.foreground = f
           /\ d.cursor_x = c.cursor_x /\ d.cursor_y = c.cursor_y
           /\ d.cells = c.cells /\ d.input = c.input
           /\ Synced(c) => Synced(d)
  <1>1. /\ d \in Consoles /\ d.foreground = f
        /\ d.cursor_x = c.cursor_x /\ d.cursor_y = c.cursor_y
        /\ d.cells = c.cells /\ d.screen = c.screen /\ d.background = c.background
        /\ d.input = c.input
    BY DEF Consoles, WithFore
  <1> QED
    BY <1>1 DEF Synced

LEMMA BackKept ==
    ASSUME NEW c \in Consoles, NEW b \in Colors
    PROVE  WithBack(c, b) \in Consoles
  BY DEF Consoles, WithBack

(***************************************************************************)
(* The inductive invariant: besides the types, the cursor is in the first  *)
(* column when the prompt is due, because the output of a command ends in  *)
(* a line feed, and while a line is typed the prompt and what was typed    *)
(* stand before the cursor.                                                *)
(***************************************************************************)
ConTypes ==
    /\ OnScreen(con) /\ Synced(con)
    /\ Len(con.input) <= INPUT_SIZE
    /\ mode \in {"wait", "run", "write", "prompt", "halted"}
    /\ out \in Seq(Chars)
    /\ saved \in Colors \cup {"none"}

AtLineStart ==
    /\ mode # "wait" => con.input = <<>>
    /\ mode \in {"run", "prompt"} => con.cursor_x = 0
    /\ mode = "write" /\ out = <<>> => con.cursor_x = 0
    /\ mode = "write" /\ out # <<>> => out[Len(out)] = "LF"

Echoed == mode = "wait" => Shows(con, WithPrompt(con.input))

ConInv == ConTypes /\ AtLineStart /\ Echoed

LEMMA ConInitInv ==
    ASSUME COLUMNS > 0, ROWS > 0, ConInit
    PROVE  ConInv
  <1>1. /\ con = Booted /\ mode = "wait" /\ out = <<>> /\ saved = "none"
    BY DEF ConInit
  <1>2. PICK c \in Consoles : /\ c.cursor_x = 0 /\ c.cursor_y = 0 /\ c.input = <<>>
                              /\ Booted = Prompt(c)
    BY BootedKept
  <1>3. OnScreen(c)
    BY <1>2 DEF OnScreen
  <1>4. OnScreen(con) /\ con.input = <<>> /\ Shows(con, WithPrompt(con.input))
    BY <1>1, <1>2, <1>3, PromptShown
  <1>5. Synced(con)
    BY <1>1, BootedKept
  <1>6. Len(con.input) <= INPUT_SIZE
    BY <1>4, TerminalAssumption
  <1>7. out \in Seq(Chars)
    BY <1>1
  <1> QED
    BY <1>1, <1>4, <1>5, <1>6, <1>7 DEF ConInv, ConTypes, AtLineStart, Echoed

LEMMA KeyInv ==
    ASSUME COLUMNS > 0, ROWS > 0, ConInv, Key
    PROVE  ConInv'
  <1>1. mode = "wait" /\ mode' = "wait" /\ UNCHANGED <<line, out, saved, prints>>
    BY DEF Key
  <1>2. PICK key \in Keys \ {"enter"} : con' = receive_key(con, key)
    BY DEF Key
  <1>3. /\ OnScreen(con) /\ con \in Consoles /\ Synced(con) /\ Len(con.input) <= INPUT_SIZE
        /\ Shows(con, WithPrompt(con.input))
    BY <1>1 DEF ConInv, ConTypes, Echoed, OnScreen
  <1>4. PICK s \in Seq(Printable) : s = con.input
    BY <1>3, Fields
  <1>5. /\ Kept(con, con')
        /\ \/ con' = con
           \/ /\ key = "backspace" /\ Len(con.input) > 0 /\ con.cursor_x > 2
              /\ con' = backspace(WithInput(con, SubSeq(con.input, 1, Len(con.input) - 1)))
              /\ con'.input = SubSeq(con.input, 1, Len(con.input) - 1)
           \/ /\ key \in Printable /\ Len(con.input) < INPUT_SIZE
              /\ con' = write_cell(WithInput(con, Append(con.input, key)), key)
              /\ con'.input = Append(con.input, key)
    BY <1>2, <1>3, ReceiveKeyKept
  <1>6. OnScreen(con') /\ Synced(con')
    BY <1>3, <1>5 DEF OnScreen, Kept
  <1>7. Len(con'.input) <= INPUT_SIZE /\ Shows(con', WithPrompt(con'.input))
    <2>1. CASE con' = con
      BY <1>3, <2>1
    <2>2. CASE /\ Len(con.input) > 0 /\ con.cursor_x > 2
               /\ con' = backspace(WithInput(con, SubSeq(con.input, 1, Len(con.input) - 1)))
               /\ con'.input = SubSeq(con.input, 1, Len(con.input) - 1)
      <3>1. PICK f \in Seq(Printable) : f = SubSeq(s, 1, Len(s) - 1) /\ Len(f) = Len(s) - 1
        BY <1>4, <2>2, FrontOf
      <3>2. PICK w : w = WithInput(con, f)
        OBVIOUS
      <3>3. /\ w \in Consoles /\ w.cursor_x = con.cursor_x /\ w.cursor_y = con.cursor_y
            /\ w.cells = con.cells
        BY <1>3, <3>2, InputKept DEF Kept
      <3>4. OnScreen(w)
        BY <1>3, <3>3 DEF OnScreen
      <3>5. PICK v \in Seq(Printable) : v = WithPrompt(s)
        BY WithPromptFacts
      <3>6. Shows(w, v)
        BY <1>3, <1>4, <3>3, <3>5 DEF Shows, Cur
      <3>7. Len(v) > 0 /\ WithPrompt(f) = SubSeq(v, 1, Len(v) - 1)
        BY <1>4, <2>2, <3>1, <3>5, WithPromptFront
      <3>8. con' = backspace(w) /\ w.cursor_x > 0
        BY <1>3, <1>4, <2>2, <3>1, <3>2, <3>3, CurPlace
      <3>9. Shows(con', SubSeq(v, 1, Len(v) - 1))
        BY <3>4, <3>6, <3>7, <3>8, ShowsBackspace
      <3>10. Len(f) <= INPUT_SIZE
        BY <1>3, <1>4, <3>1, TerminalAssumption
      <3> QED
        BY <1>4, <2>2, <3>1, <3>7, <3>9, <3>10
    <2>3. CASE /\ key \in Printable /\ Len(con.input) < INPUT_SIZE
               /\ con' = write_cell(WithInput(con, Append(con.input, key)), key)
               /\ con'.input = Append(con.input, key)
      <3>1. Append(s, key) \in Seq(Printable) /\ Len(Append(s, key)) = Len(s) + 1
        BY <2>3
      <3>2. PICK a \in Seq(Printable) : a = Append(s, key) /\ Len(a) = Len(s) + 1
        BY <3>1
      <3>3. PICK w : w = WithInput(con, a)
        OBVIOUS
      <3>4. /\ w \in Consoles /\ w.cursor_x = con.cursor_x /\ w.cursor_y = con.cursor_y
            /\ w.cells = con.cells
        BY <1>3, <3>3, InputKept DEF Kept
      <3>5. OnScreen(w)
        BY <1>3, <3>4 DEF OnScreen
      <3>6. PICK v \in Seq(Printable) : v = WithPrompt(s)
        BY WithPromptFacts
      <3>7. Shows(w, v)
        BY <1>3, <1>4, <3>4, <3>6 DEF Shows, Cur
      <3>8. con' = write_cell(w, key)
        BY <1>4, <2>3, <3>2, <3>3
      <3>9. Shows(con', Append(v, key))
        BY <2>3, <3>5, <3>7, <3>8, ShowsWrite
      <3>10. WithPrompt(a) = Append(v, key)
        BY <2>3, <3>2, <3>6, WithPromptAppend
      <3>11. Len(a) <= INPUT_SIZE
        BY <1>4, <2>3, <3>2, TerminalAssumption
      <3> QED
        BY <1>4, <2>3, <3>2, <3>9, <3>10, <3>11
    <2> QED
      BY <1>5, <2>1, <2>2, <2>3
  <1>8. ConTypes' /\ AtLineStart' /\ Echoed'
    BY <1>1, <1>6, <1>7 DEF ConInv, ConTypes, AtLineStart, Echoed
  <1> QED
    BY <1>8 DEF ConInv

LEMMA EnterInv ==
    ASSUME COLUMNS > 0, ROWS > 0, ConInv, Enter
    PROVE  ConInv'
  <1>1. /\ mode = "wait" /\ con' = Entered(con) /\ mode' \in {"prompt", "run"}
        /\ out' = out /\ saved' = saved
    BY DEF Enter, Entered
  <1>2. OnScreen(con) /\ con \in Consoles /\ Synced(con)
    BY DEF ConInv, ConTypes, OnScreen
  <1>3. Kept(con, con') /\ con'.input = <<>> /\ con'.cursor_x = 0
    BY <1>1, <1>2, EnteredKept
  <1>4. OnScreen(con') /\ Synced(con')
    BY <1>2, <1>3 DEF OnScreen, Kept
  <1>5. Len(con'.input) <= INPUT_SIZE
    BY <1>3, TerminalAssumption
  <1>6. ConTypes' /\ AtLineStart' /\ Echoed'
    BY <1>1, <1>3, <1>4, <1>5 DEF ConInv, ConTypes, AtLineStart, Echoed
  <1> QED
    BY <1>6 DEF ConInv

LEMMA WriteFmtInv ==
    ASSUME COLUMNS > 0, ROWS > 0, ConInv, WriteFmt \/ WriteFmtColor
    PROVE  ConInv'
  <1>1. /\ mode = "run" /\ mode' = "write" /\ out' \in Texts
        /\ saved' \in {"none", con.foreground}
        /\ con' = con \/ \E color \in Colors : con' = WithFore(con, color)
    BY DEF WriteFmt, WriteFmtColor, WithFore
  <1>2. OnScreen(con) /\ con \in Consoles /\ Synced(con) /\ con.foreground \in Colors
    BY Fields DEF ConInv, ConTypes, OnScreen
  <1>3. OnScreen(con') /\ Synced(con') /\ con'.input = con.input
    BY <1>1, <1>2, ForeKept DEF OnScreen
  <1>4. out' \in Seq(Chars) /\ out' # <<>> /\ out'[Len(out')] = "LF"
    BY <1>1, ConsoleAssumption DEF Chars
  <1>5. saved' \in Colors \cup {"none"}
    BY <1>1, <1>2
  <1>6. ConTypes' /\ AtLineStart' /\ Echoed'
    BY <1>1, <1>3, <1>4, <1>5 DEF ConInv, ConTypes, AtLineStart, Echoed
  <1> QED
    BY <1>6 DEF ConInv

LEMMA TailOf ==
    ASSUME NEW S, NEW s \in Seq(S), s # <<>>
    PROVE  /\ Head(s) \in S /\ Tail(s) \in Seq(S)
           /\ Tail(s) = <<>> => Head(s) = s[Len(s)]
           /\ Tail(s) # <<>> => Tail(s)[Len(Tail(s))] = s[Len(s)]
  <1>1. /\ Len(s) \in Nat \ {0} /\ Head(s) = s[1] /\ Head(s) \in S
        /\ Tail(s) \in Seq(S) /\ Len(Tail(s)) = Len(s) - 1
        /\ \A i \in 1 .. Len(s) - 1 : Tail(s)[i] = s[i + 1]
    OBVIOUS
  <1>2. Tail(s) = <<>> => Len(s) = 1
    <2>1. Tail(s) = <<>> => Len(Tail(s)) = 0
      BY <1>1, EmptySeq
    <2> QED
      BY <1>1, <2>1
  <1>3. PICK t \in Seq(S) : t = Tail(s)
    BY <1>1
  <1>4. t # <<>> => Len(t) \in Nat \ {0}
    OBVIOUS
  <1>5. ASSUME t # <<>> PROVE t[Len(t)] = s[Len(s)]
    <2>1. Len(t) \in 1 .. Len(s) - 1 /\ Len(t) + 1 = Len(s)
      BY <1>1, <1>3, <1>4, <1>5
    <2> QED
      BY <1>1, <1>3, <2>1
  <1> QED
    BY <1>1, <1>2, <1>3, <1>5

LEMMA PutCharInv ==
    ASSUME COLUMNS > 0, ROWS > 0, ConInv, PutChar
    PROVE  ConInv'
  <1>1. /\ mode = "write" /\ mode' = "write" /\ out # <<>> /\ saved' = saved
        /\ con' = put_char(con, Head(out)) /\ out' = Tail(out)
    BY DEF PutChar
  <1>2. /\ OnScreen(con) /\ con \in Consoles /\ Synced(con) /\ con.input = <<>>
        /\ out \in Seq(Chars) /\ out[Len(out)] = "LF"
    BY <1>1 DEF ConInv, ConTypes, AtLineStart, OnScreen
  <1>3. /\ Head(out) \in Chars /\ out' \in Seq(Chars)
        /\ out' = <<>> => Head(out) = "LF"
        /\ out' # <<>> => out'[Len(out')] = "LF"
    BY <1>1, <1>2, TailOf
  <1>4. PICK ch \in Chars : ch = Head(out)
    BY <1>3
  <1>5. Kept(con, con') /\ con'.input = con.input /\ (ch = "LF" => con'.cursor_x = 0)
    BY <1>1, <1>2, <1>4, PutCharKept
  <1>6. OnScreen(con') /\ Synced(con')
    BY <1>2, <1>5 DEF OnScreen, Kept
  <1>7. ConTypes' /\ AtLineStart' /\ Echoed'
    BY <1>1, <1>2, <1>3, <1>4, <1>5, <1>6 DEF ConInv, ConTypes, AtLineStart, Echoed
  <1> QED
    BY <1>7 DEF ConInv

LEMMA EndWriteInv ==
    ASSUME COLUMNS > 0, ROWS > 0, ConInv, EndWrite
    PROVE  ConInv'
  <1>1. /\ mode = "write" /\ out = <<>> /\ out' = out /\ saved' = "none" /\ mode' = "run"
        /\ con' = IF saved = "none" THEN con ELSE WithFore(con, saved)
    BY DEF EndWrite, WithFore
  <1>2. /\ OnScreen(con) /\ con \in Consoles /\ Synced(con) /\ con.input = <<>>
        /\ con.cursor_x = 0 /\ saved \in Colors \cup {"none"}
    BY <1>1 DEF ConInv, ConTypes, AtLineStart, OnScreen
  <1>3. OnScreen(con') /\ Synced(con') /\ con'.input = con.input /\ con'.cursor_x = con.cursor_x
    <2>1. CASE saved = "none"
      BY <1>1, <1>2, <2>1
    <2>2. CASE saved # "none"
      <3>1. PICK f \in Colors : f = saved
        BY <1>2, <2>2
      <3>2. con' = WithFore(con, f)
        BY <1>1, <2>2, <3>1
      <3> QED
        BY <1>2, <3>2, ForeKept DEF OnScreen
    <2> QED
      BY <2>1, <2>2
  <1>4. ConTypes' /\ AtLineStart' /\ Echoed'
    BY <1>1, <1>2, <1>3 DEF ConInv, ConTypes, AtLineStart, Echoed
  <1> QED
    BY <1>4 DEF ConInv

LEMMA ClearingInv ==
    ASSUME COLUMNS > 0, ROWS > 0, ConInv, SetBg \/ SetFg \/ ClearTerm
    PROVE  ConInv'
  <1>1. con \in Consoles
    BY DEF ConInv, ConTypes, OnScreen
  <1>2. /\ mode = "run" /\ mode' = "prompt" /\ out' = out /\ saved' = saved
        /\ \E c : /\ con' = clear(c)
                  /\ \/ c = con
                     \/ \E color \in Colors : c = WithFore(con, color) \/ c = WithBack(con, color)
    BY DEF SetBg, SetFg, ClearTerm, WithFore, WithBack
  <1>3. PICK c : /\ con' = clear(c)
                 /\ \/ c = con
                    \/ \E color \in Colors : c = WithFore(con, color) \/ c = WithBack(con, color)
    BY <1>2
  <1>4. c \in Consoles
    BY <1>1, <1>3, ForeKept, BackKept
  <1>5. /\ Kept(c, con') /\ Synced(con')
        /\ con'.input = <<>> /\ con'.cursor_x = 0 /\ con'.cursor_y = 0
    BY <1>3, <1>4, ClearKept
  <1>6. OnScreen(con')
    BY <1>5 DEF OnScreen, Kept
  <1>7. Len(con'.input) <= INPUT_SIZE
    BY <1>5, TerminalAssumption
  <1>8. ConTypes' /\ AtLineStart' /\ Echoed'
    BY <1>2, <1>5, <1>6, <1>7 DEF ConInv, ConTypes, AtLineStart, Echoed
  <1> QED
    BY <1>8 DEF ConInv

LEMMA ShowPromptInv ==
    ASSUME COLUMNS > 0, ROWS > 0, ConInv, ShowPrompt
    PROVE  ConInv'
  <1>1. /\ mode = "prompt" /\ mode' = "wait" /\ con' = Prompt(con) /\ out' = out /\ saved' = saved
    BY DEF ShowPrompt
  <1>2. OnScreen(con) /\ con \in Consoles /\ Synced(con) /\ con.input = <<>> /\ con.cursor_x = 0
    BY <1>1 DEF ConInv, ConTypes, AtLineStart, OnScreen
  <1>3. OnScreen(con') /\ con'.input = <<>> /\ Shows(con', WithPrompt(con'.input))
    BY <1>1, <1>2, PromptShown
  <1>4. Synced(con')
    BY <1>1, <1>2, PromptKept DEF Kept
  <1>5. ConTypes' /\ AtLineStart' /\ Echoed'
    BY <1>1, <1>2, <1>3, <1>4 DEF ConInv, ConTypes, AtLineStart, Echoed
  <1> QED
    BY <1>5 DEF ConInv

LEMMA ConNextInv ==
    ASSUME COLUMNS > 0, ROWS > 0, ConInv, [ConNext]_conVars
    PROVE  ConInv'
  <1>1. CASE Key
    BY <1>1, KeyInv
  <1>2. CASE Enter
    BY <1>2, EnterInv
  <1>3. CASE WriteFmt \/ WriteFmtColor
    BY <1>3, WriteFmtInv
  <1>4. CASE PutChar
    BY <1>4, PutCharInv
  <1>5. CASE EndWrite
    BY <1>5, EndWriteInv
  <1>6. CASE SetBg \/ SetFg \/ ClearTerm
    BY <1>6, ClearingInv
  <1>7. CASE Done \/ Halt
    <2>1. /\ mode = "run" /\ mode' \in {"prompt", "halted"}
          /\ con' = con /\ out' = out /\ saved' = saved
      BY <1>7 DEF Done, Halt
    <2>2. ConTypes' /\ AtLineStart' /\ Echoed'
      BY <2>1 DEF ConInv, ConTypes, AtLineStart, Echoed
    <2> QED
      BY <2>2 DEF ConInv
  <1>8. CASE ShowPrompt
    BY <1>8, ShowPromptInv
  <1>9. CASE Halted \/ UNCHANGED conVars
    <2>1. mode' = mode /\ con' = con /\ out' = out /\ saved' = saved
      BY <1>9 DEF Halted, conVars
    <2>2. ConTypes' /\ AtLineStart' /\ Echoed'
      BY <2>1 DEF ConInv, ConTypes, AtLineStart, Echoed
    <2> QED
      BY <2>2 DEF ConInv
  <1> QED
    BY <1>1, <1>2, <1>3, <1>4, <1>5, <1>6, <1>7, <1>8, <1>9 DEF ConNext, Running

LEMMA ConInvariant ==
    ASSUME COLUMNS > 0, ROWS > 0
    PROVE  ConSpec => []ConInv
  <1>1. ConInit => ConInv
    BY ConInitInv
  <1>2. ConInv /\ [ConNext]_conVars => ConInv'
    BY ConNextInv
  <1> QED
    BY <1>1, <1>2, PTL DEF ConSpec

(***************************************************************************)
(* The cursor stays on the console and the fields keep their types,        *)
(* whatever is typed and printed, on every console that holds at least one *)
(* character.                                                              *)
(***************************************************************************)
THEOREM ConTypeCorrect ==
    ASSUME COLUMNS > 0, ROWS > 0
    PROVE  ConSpec => []ConTypeOK
  <1>1. ConInv => ConTypeOK
    <2> SUFFICES ASSUME ConInv PROVE ConTypeOK
      OBVIOUS
    <2>1. /\ OnScreen(con) /\ con \in Consoles /\ Len(con.input) <= INPUT_SIZE
          /\ mode \in {"wait", "run", "write", "prompt", "halted"}
      BY DEF ConInv, ConTypes, OnScreen
    <2>2. con.foreground \in Colors /\ con.background \in Colors /\ con.cells \in Grid(MAX_ROWS)
      BY <2>1, Fields
    <2>3. con.cursor_x \in 0 .. COLUMNS - 1 /\ con.cursor_y \in 0 .. ROWS - 1
      BY <2>1, CurPlace
    <2> QED
      BY <2>1, <2>2, <2>3 DEF ConTypeOK, Grid, CellSet
  <1> QED
    BY <1>1, ConInvariant, PTL

(***************************************************************************)
(* The characters on the screen are those of the cell buffer at every      *)
(* moment, through every clear, scroll, write and erasure, and so is the   *)
(* whole look of every cell that is not blank.  A blank cell may differ in *)
(* its background once the background is not the default one.              *)
(***************************************************************************)
THEOREM ScreenMatchesCells ==
    ASSUME COLUMNS > 0, ROWS > 0
    PROVE  ConSpec => []TextSynced
  <1>1. ConInv => TextSynced
    <2> SUFFICES ASSUME ConInv, NEW p \in Visible
                 PROVE  Agree(con.screen[p[1]][p[2]], con.cells[p[1]][p[2]], con.background)
      BY DEF TextSynced, Agree, Shown
    <2>1. p[1] \in 0 .. ROWS - 1 /\ p[2] \in 0 .. COLUMNS - 1
      BY DEF Visible
    <2> QED
      BY <2>1 DEF ConInv, ConTypes, Synced
  <1> QED
    BY <1>1, ConInvariant, PTL

(***************************************************************************)
(* Enter runs what is shown: the prompt and, after it, the line in the     *)
(* input buffer stand before the cursor, however often the line has        *)
(* wrapped, scrolled or been erased, on every size of console.             *)
(***************************************************************************)
THEOREM LineRunIsLineShown ==
    ASSUME COLUMNS > 0, ROWS > 0
    PROVE  ConSpec => []EchoMatches
  <1>1. ConInv => EchoMatches
    <2> SUFFICES ASSUME ConInv, mode = "wait" PROVE EchoMatches
      BY DEF EchoMatches
    <2>1. OnScreen(con) /\ con \in Consoles /\ Shows(con, WithPrompt(con.input))
      BY DEF ConInv, ConTypes, Echoed, OnScreen
    <2>2. PICK s \in Seq(Printable) : s = con.input
      BY <2>1, Fields
    <2>3. PICK v \in Seq(Printable) : v = WithPrompt(s)
      BY WithPromptFacts
    <2>4. /\ Len(v) = Len(s) + 2 /\ v[1] = Gt /\ v[2] = Sp
          /\ \A i \in 1 .. Len(s) : v[i + 2] = s[i]
      BY <2>3, WithPromptFacts
    <2>5. PICK n \in Nat : n = Len(s)
      OBVIOUS
    <2>6. PICK k \in Nat : k = Cur(con) /\ k = Cursor
      BY <2>1, CurPlace DEF Cur, Cursor
    <2>7. \A i \in 1 .. n + 2 : k - i >= 0 => CellAt(k - i).character = v[n + 2 - i + 1]
      <3>1. \A i \in 1 .. Len(v) :
                k - i >= 0 => InLine(con.cells, k - i).character = v[Len(v) - i + 1]
        BY <2>1, <2>2, <2>3, <2>6 DEF Shows
      <3>2. \A j : InLine(con.cells, j) = CellAt(j)
        BY DEF CellAt, InLine
      <3>3. Len(v) = n + 2
        BY <2>4, <2>5
      <3>4. \A i \in 1 .. n + 2 :
                k - i >= 0 => InLine(con.cells, k - i).character = v[n + 2 - i + 1]
        BY <3>1, <3>3
      <3> QED
        BY <3>2, <3>4
    <2>8. ASSUME NEW i \in 1 .. n, k - i >= 0 PROVE CellAt(k - i).character = s[n - i + 1]
      <3>1. PICK j \in 1 .. n : j = n - i + 1 /\ j + 2 = n + 2 - i + 1
        <4>1. n - i + 1 \in 1 .. n /\ (n - i + 1) + 2 = n + 2 - i + 1
          OBVIOUS
        <4> QED
          BY <4>1
      <3>2. v[j + 2] = s[j]
        BY <2>4, <2>5
      <3>3. i \in 1 .. n + 2
        OBVIOUS
      <3>4. CellAt(k - i).character = v[n + 2 - i + 1]
        BY <2>7, <2>8, <3>3
      <3> QED
        BY <3>1, <3>2, <3>4
    <2>9. k - n - 1 >= 0 => CellAt(k - n - 1).character = Sp
      <3>1. n + 1 \in 1 .. n + 2 /\ k - (n + 1) = k - n - 1 /\ n + 2 - (n + 1) + 1 = 2
        OBVIOUS
      <3> QED
        BY <2>4, <2>7, <3>1
    <2>10. k - n - 2 >= 0 => CellAt(k - n - 2).character = Gt
      <3>1. n + 2 \in 1 .. n + 2 /\ k - (n + 2) = k - n - 2 /\ n + 2 - (n + 2) + 1 = 1
        OBVIOUS
      <3> QED
        BY <2>4, <2>7, <3>1
    <2>11. (k - n) % COLUMNS = 2 % COLUMNS
      <3>1. PICK q \in Int : k - Len(v) = q * COLUMNS
        BY <2>1, <2>2, <2>3, <2>6 DEF Shows
      <3>2. PICK z \in Int : z = q * COLUMNS
        BY TerminalAssumption
      <3>3. k - n = z + 2
        BY <2>4, <2>5, <3>1, <3>2
      <3>4. (q * COLUMNS + 2) % COLUMNS = 2 % COLUMNS
        BY ModuloShift
      <3> QED
        BY <3>2, <3>3, <3>4
    <2>12. (k - n - 1 >= 0 => CellAt(k - n - 1).character = " ")
           /\ (k - n - 2 >= 0 => CellAt(k - n - 2).character = ">")
      BY <2>9, <2>10, Zenon DEF Gt, Sp
    <2> QED
      BY <2>2, <2>5, <2>6, <2>8, <2>11, <2>12, Zenon DEF EchoMatches
  <1> QED
    BY <1>1, ConInvariant, PTL

--------------------------------------------------------------------------------
(* The console while the kernel boots.                                         *)

Steps == {"wrap", "pick", "set", "render", "loadx", "storex", "column0", "test",
          "loady", "storey", "pixels", "cells"}

\* Step b may come after step a; "end" is the end of put_char.
Follows(a, b) ==
    \/ a \in {"wrap", "test", "storey", "cells"} /\ b \in {"pick", "end"}
    \/ a = "pick" /\ b = "set"
    \/ a = "set" /\ b = "render"
    \/ a = "render" /\ b = "loadx"
    \/ a = "loadx" /\ b = "storex"
    \/ a = "storex" /\ b = "wrap"
    \/ a = "column0" /\ b = "test"
    \/ a = "loady" /\ b = "storey"
    \/ a = "pixels" /\ b = "cells"

First(t) == IF Len(t) = 0 THEN "end" ELSE t[1]

Chain(t) ==
    /\ t \in Seq(Steps)
    /\ \A i \in 1 .. Len(t) : Follows(t[i], IF i = Len(t) THEN "end" ELSE t[i + 1])

LEMMA ChainTail ==
    ASSUME NEW t, Chain(t), t # <<>>
    PROVE  /\ Chain(Tail(t)) /\ Head(t) = First(t) /\ Head(t) \in Steps
           /\ Follows(Head(t), First(Tail(t)))
           /\ \A i \in 1 .. Len(Tail(t)) : i + 1 \in 1 .. Len(t) /\ Tail(t)[i] = t[i + 1]
  <1>1. t \in Seq(Steps)
    BY DEF Chain
  <1>2. /\ Len(t) \in Nat \ {0} /\ Head(t) = t[1] /\ t[1] \in Steps
        /\ Tail(t) \in Seq(Steps) /\ Len(Tail(t)) = Len(t) - 1
        /\ \A i \in 1 .. Len(t) - 1 : Tail(t)[i] = t[i + 1]
    BY <1>1
  <1>3. PICK u \in Seq(Steps) : u = Tail(t)
    BY <1>2
  <1>4. PICK n \in Nat \ {0} : n = Len(t)
    BY <1>2
  <1>5. Len(u) = n - 1 /\ \A i \in 1 .. n - 1 : u[i] = t[i + 1]
    BY <1>2, <1>3, <1>4
  <1>6. \A i \in 1 .. n : Follows(t[i], IF i = n THEN "end" ELSE t[i + 1])
    BY <1>4 DEF Chain
  <1>7. ASSUME NEW i \in 1 .. n - 1
        PROVE  Follows(u[i], IF i = n - 1 THEN "end" ELSE u[i + 1])
    <2>1. i + 1 \in 1 .. n /\ u[i] = t[i + 1]
      BY <1>5
    <2>2. Follows(t[i + 1], IF i + 1 = n THEN "end" ELSE t[(i + 1) + 1])
      BY <1>6, <2>1
    <2>3. CASE i = n - 1
      BY <2>1, <2>2, <2>3
    <2>4. CASE i # n - 1
      <3>1. i + 1 \in 1 .. n - 1 /\ i + 1 # n
        BY <2>4
      <3>2. u[i + 1] = t[(i + 1) + 1]
        BY <1>5, <3>1
      <3> QED
        BY <2>1, <2>2, <2>4, <3>1, <3>2
    <2> QED
      BY <2>3, <2>4
  <1>8. Chain(u)
    BY <1>5, <1>7 DEF Chain
  <1>9. Follows(t[1], First(u))
    <2>1. 1 \in 1 .. n
      OBVIOUS
    <2>2. Follows(t[1], IF 1 = n THEN "end" ELSE t[1 + 1])
      BY <1>6, <2>1
    <2>3. CASE n = 1
      BY <1>5, <2>2, <2>3 DEF First
    <2>4. CASE n # 1
      <3>1. 1 \in 1 .. n - 1 /\ Len(u) # 0 /\ 1 # n
        BY <1>5, <2>4
      <3>2. First(u) = t[1 + 1]
        BY <1>5, <3>1 DEF First
      <3> QED
        BY <2>2, <3>1, <3>2
    <2> QED
      BY <2>3, <2>4
  <1>10. Head(t) = First(t)
    BY <1>2 DEF First
  <1> QED
    BY <1>2, <1>3, <1>4, <1>5, <1>8, <1>9, <1>10

Before(a, b, t) == <<a, b>> \o t

FromEither(u, a, b, t) ==
    \A i \in 1 .. Len(u) : u[i] \in {a, b} \/ (i - 2 \in 1 .. Len(t) /\ u[i] = t[i - 2])

LEMMA ChainCons ==
    ASSUME NEW t, Chain(t), NEW a \in Steps, NEW b \in Steps,
           Follows(a, b), Follows(b, First(t)), NEW u, u = Before(a, b, t)
    PROVE  Chain(u) /\ First(u) = a /\ FromEither(u, a, b, t)
  <1>1. t \in Seq(Steps)
    BY DEF Chain
  <1>2. PICK n \in Nat : n = Len(t)
    BY <1>1
  <1>3. PICK p \in Seq(Steps) : p = <<a, b>> /\ Len(p) = 2 /\ p[1] = a /\ p[2] = b
    <2>1. <<a, b>> \in Seq(Steps) /\ Len(<<a, b>>) = 2 /\ <<a, b>>[1] = a /\ <<a, b>>[2] = b
      OBVIOUS
    <2> QED
      BY <2>1
  <1>4. /\ u \in Seq(Steps) /\ Len(u) = Len(p) + Len(t)
        /\ \A i \in 1 .. Len(p) + Len(t) : u[i] = IF i <= Len(p) THEN p[i] ELSE t[i - Len(p)]
    <2>1. u = p \o t
      BY <1>3 DEF Before
    <2> QED
      BY <1>1, <1>3, <2>1, ConcatProperties
  <1>5. /\ Len(u) = n + 2 /\ u[1] = a /\ u[2] = b
        /\ \A i \in 1 .. n : u[i + 2] = t[i]
    <2>1. Len(u) = n + 2 /\ u[1] = a /\ u[2] = b
      BY <1>2, <1>3, <1>4
    <2>2. ASSUME NEW i \in 1 .. n PROVE u[i + 2] = t[i]
      <3>1. i + 2 \in 1 .. 2 + n /\ ~(i + 2 <= 2) /\ (i + 2) - 2 = i
        OBVIOUS
      <3> QED
        BY <1>2, <1>3, <1>4, <3>1
    <2> QED
      BY <2>1, <2>2
  <1>6. ASSUME NEW i \in 1 .. n + 2
        PROVE  Follows(u[i], IF i = n + 2 THEN "end" ELSE u[i + 1])
    <2>1. CASE i = 1
      BY <1>5, <2>1
    <2>2. CASE i = 2
      <3>1. CASE n = 0
        BY <1>2, <1>5, <2>2, <3>1 DEF First
      <3>2. CASE n # 0
        <4>1. 1 \in 1 .. n /\ u[1 + 2] = t[1] /\ First(t) = t[1]
          BY <1>2, <1>5, <3>2 DEF First
        <4> QED
          BY <1>5, <2>2, <3>2, <4>1
      <3> QED
        BY <3>1, <3>2
    <2>3. CASE i > 2
      <3>1. PICK j \in 1 .. n : i = j + 2
        <4>1. i - 2 \in 1 .. n /\ i = (i - 2) + 2
          BY <2>3
        <4> QED
          BY <4>1
      <3>2. Follows(t[j], IF j = n THEN "end" ELSE t[j + 1])
        BY <1>2 DEF Chain
      <3>3. CASE j = n
        BY <1>5, <3>1, <3>2, <3>3
      <3>4. CASE j # n
        <4>1. j + 1 \in 1 .. n /\ i + 1 = (j + 1) + 2 /\ i # n + 2
          BY <3>1, <3>4
        <4>2. u[(j + 1) + 2] = t[j + 1] /\ u[j + 2] = t[j]
          BY <1>5, <4>1
        <4>3. u[i + 1] = t[j + 1] /\ u[i] = t[j]
          BY <3>1, <4>1, <4>2
        <4> QED
          BY <3>2, <3>4, <4>1, <4>3
      <3> QED
        BY <3>3, <3>4
    <2>4. i = 1 \/ i = 2 \/ i > 2
      OBVIOUS
    <2> QED
      BY <2>1, <2>2, <2>3, <2>4
  <1>7. ASSUME NEW i \in 1 .. n + 2
        PROVE  u[i] \in {a, b} \/ (i - 2 \in 1 .. n /\ u[i] = t[i - 2])
    <2>1. CASE i = 1 \/ i = 2
      BY <1>5, <2>1
    <2>2. CASE i > 2
      <3>1. PICK j \in 1 .. n : i = j + 2 /\ i - 2 = j
        <4>1. i - 2 \in 1 .. n /\ i = (i - 2) + 2
          BY <2>2
        <4> QED
          BY <4>1
      <3> QED
        BY <1>5, <3>1
    <2>3. i = 1 \/ i = 2 \/ i > 2
      OBVIOUS
    <2> QED
      BY <2>1, <2>2, <2>3
  <1> QED
    BY <1>2, <1>4, <1>5, <1>6, <1>7 DEF Chain, First, FromEither

LEMMA ChainStart == Chain(CellSteps) /\ Chain(NewlineSteps) /\ Chain(<<>>)
  <1>1. CellSteps \in Seq(Steps) /\ Len(CellSteps) = 7
    BY DEF CellSteps, Steps
  <1>2. \A i \in 1 .. 7 : i \in {1, 2, 3, 4, 5, 6, 7}
    OBVIOUS
  <1>3. ASSUME NEW i \in 1 .. 7
        PROVE  Follows(CellSteps[i], IF i = 7 THEN "end" ELSE CellSteps[i + 1])
    BY <1>2 DEF CellSteps, Follows
  <1>4. NewlineSteps \in Seq(Steps) /\ Len(NewlineSteps) = 2
    BY DEF NewlineSteps, Steps
  <1>5. ASSUME NEW i \in 1 .. 2
        PROVE  Follows(NewlineSteps[i], IF i = 2 THEN "end" ELSE NewlineSteps[i + 1])
    BY DEF NewlineSteps, Follows
  <1>6. <<>> \in Seq(Steps) /\ 1 .. Len(<<>>) = {}
    OBVIOUS
  <1> QED
    BY <1>1, <1>3, <1>4, <1>5, <1>6 DEF Chain

\* A character that is not printable is never stored.
Storable(t, ch) == \A i \in 1 .. Len(t) : t[i] = "set" => ch \in Printable

LEMMA StepTaken ==
    ASSUME NEW t, Chain(t), t # <<>>, NEW ch, Storable(t, ch), NEW u, u = <<>> \o Tail(t)
    PROVE  Chain(u) /\ Storable(u, ch) /\ Head(t) = First(t) /\ Follows(First(t), First(u))
  <1>1. /\ Chain(Tail(t)) /\ Head(t) = First(t) /\ Follows(Head(t), First(Tail(t)))
        /\ \A i \in 1 .. Len(Tail(t)) : i + 1 \in 1 .. Len(t) /\ Tail(t)[i] = t[i + 1]
    BY ChainTail
  <1>2. u = Tail(t)
    <2>1. Tail(t) \in Seq(Steps)
      BY <1>1 DEF Chain
    <2> QED
      BY <2>1, ConcatEmptySeq
  <1>3. Storable(u, ch)
    BY <1>1, <1>2 DEF Storable
  <1> QED
    BY <1>1, <1>2, <1>3

Forks == {"wrap", "test"}
Ends == {"test", "storey", "cells"}

LEMMA StepExpanded ==
    ASSUME NEW t, Chain(t), t # <<>>, NEW ch, Storable(t, ch),
           NEW a \in Steps, NEW b \in Ends, a # "set", Follows(a, b),
           First(t) \in Forks, NEW u, u = Before(a, b, Tail(t))
    PROVE  Chain(u) /\ Storable(u, ch) /\ First(u) = a
  <1>1. /\ Chain(Tail(t)) /\ Head(t) = First(t) /\ Follows(Head(t), First(Tail(t)))
        /\ \A i \in 1 .. Len(Tail(t)) : i + 1 \in 1 .. Len(t) /\ Tail(t)[i] = t[i + 1]
    BY ChainTail
  <1>2. b \in Steps /\ Follows(b, First(Tail(t)))
    BY <1>1 DEF Steps, Follows, Forks, Ends
  <1>3. /\ Chain(u) /\ First(u) = a
        /\ \A i \in 1 .. Len(u) :
              u[i] \in {a, b} \/ (i - 2 \in 1 .. Len(Tail(t)) /\ u[i] = Tail(t)[i - 2])
    <2>1. PICK v : v = Tail(t)
      OBVIOUS
    <2>2. PICK d \in Steps : d = b
      BY <1>2
    <2>3. Chain(v) /\ Follows(a, d) /\ Follows(d, First(v)) /\ u = Before(a, d, v)
      BY <1>1, <1>2, <2>1, <2>2
    <2>4. Chain(u) /\ First(u) = a /\ FromEither(u, a, d, v)
      BY <2>3, ChainCons, Zenon
    <2> QED
      BY <2>1, <2>2, <2>4 DEF FromEither
  <1>4. ASSUME NEW i \in 1 .. Len(u), u[i] = "set" PROVE ch \in Printable
    <2>1. i - 2 \in 1 .. Len(Tail(t)) /\ u[i] = Tail(t)[i - 2]
      BY <1>3, <1>4 DEF Ends
    <2>2. PICK j \in 1 .. Len(Tail(t)) : j = i - 2
      BY <2>1
    <2> QED
      BY <1>1, <1>4, <2>1, <2>2 DEF Storable
  <1> QED
    BY <1>3, <1>4 DEF Storable

(***************************************************************************)
(* The keyboard handler, run between any two steps of the main thread.     *)
(***************************************************************************)
LEMMA IrqKept ==
    ASSUME con \in Consoles, KeyboardIrq
    PROVE  /\ con' \in Consoles
           /\ con.cursor_x < COLUMNS => con'.cursor_x < COLUMNS
           /\ con.cursor_y < ROWS => con'.cursor_y < ROWS
           /\ \/ con'.foreground = con.foreground /\ chosen' = chosen
              \/ \E color \in Colors :
                    /\ con'.foreground = color
                    /\ chosen' = IF old_color = "none" THEN color ELSE chosen
  <1>0. COLUMNS > 0 /\ ROWS > 0
    BY BootAssumption
  <1>1. PICK r : r = Entered(con)
    OBVIOUS
  <1>2. Kept(con, r) /\ r \in Consoles
    BY <1>0, <1>1, EnteredKept DEF Kept
  <1>3. CASE con' \in AfterEnter(con) /\ UNCHANGED chosen
    <2>1. PICK n : n = newline(r)
      OBVIOUS
    <2>2. PICK e : e = clear(r)
      OBVIOUS
    <2>3. Kept(con, n) /\ n \in Consoles
      <3>1. Kept(r, n)
        BY <1>0, <1>2, <2>1, NewlineKept
      <3> QED
        BY <1>2, <3>1, KeptTrans DEF Kept
    <2>4. Kept(con, e) /\ e \in Consoles
      <3>1. Kept(r, e)
        BY <1>0, <1>2, <2>2, ClearKept
      <3> QED
        BY <1>2, <3>1, KeptTrans DEF Kept
    <2>5. con' = Prompt(r) \/ con' = Prompt(n) \/ con' = Prompt(e)
      BY <1>1, <1>3, <2>1, <2>2 DEF AfterEnter, Entered
    <2>6. PICK m \in {r, n, e} : con' = Prompt(m)
      BY <2>5
    <2>7. m \in Consoles /\ Kept(con, m)
      BY <1>2, <2>3, <2>4, <2>6
    <2>8. Kept(m, con')
      BY <1>0, <2>6, <2>7, PromptKept
    <2>9. Kept(con, con')
      BY <2>7, <2>8, KeptTrans
    <2> QED
      BY <1>3, <2>9 DEF Kept
  <1>4. CASE (\E key \in Keys \ {"enter"} : con' = receive_key(con, key)) /\ chosen' = chosen
    <2>1. PICK key \in Keys \ {"enter"} : con' = receive_key(con, key)
      BY <1>4
    <2>2. Kept(con, con')
      BY <1>0, <2>1, ReceiveKeyKept
    <2> QED
      BY <1>4, <2>2 DEF Kept
  <1>5. ASSUME NEW color \in Colors, con' = AfterSetFg(con, color),
               chosen' = IF old_color = "none" THEN color ELSE chosen
        PROVE  /\ con' \in Consoles /\ con'.foreground = color
               /\ con.cursor_x < COLUMNS => con'.cursor_x < COLUMNS
               /\ con.cursor_y < ROWS => con'.cursor_y < ROWS
    <2>1. PICK f : f = WithFore(r, color)
      OBVIOUS
    <2>2. f \in Consoles /\ f.foreground = color
      BY <1>2, <2>1, ForeKept
    <2>3. PICK e : e = clear(f)
      OBVIOUS
    <2>4. Kept(f, e) /\ e \in Consoles /\ e.cursor_x = 0 /\ e.cursor_y = 0 /\ e.foreground = color
      BY <1>0, <2>2, <2>3, ClearKept DEF Kept
    <2>5. con' = Prompt(e)
      BY <1>1, <1>5, <2>1, <2>3 DEF AfterSetFg, Entered, WithFore
    <2>6. Kept(e, con')
      BY <1>0, <2>4, <2>5, PromptKept
    <2> QED
      BY <1>0, <2>4, <2>6 DEF Kept
  <1> QED
    BY <1>3, <1>4, <1>5 DEF KeyboardIrq

(***************************************************************************)
(* The inductive invariant.  BootTypes: what the main thread has still to  *)
(* do is one of the ways through put_char.  Ready: what holds before its   *)
(* next step, also after the handler ran; when the handler did not run     *)
(* since put_char began, the row it is about to enter is on the screen.    *)
(***************************************************************************)
BootChars == Printable \cup {"LF", "save", "color", "restore"}

BootTypes ==
    /\ con \in Consoles
    /\ text \in Seq(BootChars)
    /\ Chain(todo) /\ Storable(todo, spot.ch)
    /\ spot \in [ch : BootChars, row : Nat, col : Nat]

Ready ==
    /\ First(todo) \notin {"wrap", "column0", "storex"} => con.cursor_x < COLUMNS
    /\ First(todo) = "storex" => reg \in 0 .. COLUMNS
    /\ First(todo) = "loady" => con.cursor_y < ROWS
    /\ First(todo) = "storey" => reg \in 0 .. ROWS

Undisturbed ==
    ~hit => /\ First(todo) = "loady" => con.cursor_y + 1 < ROWS
            /\ First(todo) = "storey" => reg < ROWS

BootInv == BootTypes /\ Ready /\ Undisturbed

LEMMA BootInitInv ==
    ASSUME BootInit
    PROVE  BootInv
  <1>1. COLUMNS > 0 /\ ROWS > 0 /\ BootText \in Seq(BootChars)
    BY BootAssumption DEF BootChars
  <1>2. con \in Consoles /\ con.cursor_x < COLUMNS
    BY <1>1, BootedKept DEF BootInit
  <1>3. todo = <<>> /\ Len(todo) = 0
    BY DEF BootInit
  <1>4. Chain(todo) /\ Storable(todo, spot.ch) /\ First(todo) = "end"
    BY <1>3, ChainStart DEF Storable, First
  <1>5. spot \in [ch : BootChars, row : Nat, col : Nat] /\ text \in Seq(BootChars)
    BY <1>1 DEF BootInit, BootChars, Printable
  <1>6. BootTypes /\ Ready /\ Undisturbed
    BY <1>2, <1>4, <1>5 DEF BootTypes, Ready, Undisturbed
  <1> QED
    BY <1>6 DEF BootInv

LEMMA BetweenInv ==
    ASSUME BootInv, SaveColor \/ SetColor \/ RestoreColor, old_color \in Colors \/ ~RestoreColor
    PROVE  BootInv'
  <1>1. /\ todo' = todo /\ spot' = spot /\ reg' = reg /\ hit' = hit
        /\ text # <<>> /\ text' = Tail(text)
        /\ con' = con \/ \E f \in Colors : con' = WithFore(con, f)
    BY BootAssumption DEF SaveColor, SetColor, RestoreColor, Between, WithFore
  <1>2. con \in Consoles /\ text \in Seq(BootChars)
    BY DEF BootInv, BootTypes
  <1>3. con' \in Consoles /\ con'.cursor_x = con.cursor_x /\ con'.cursor_y = con.cursor_y
    BY <1>1, <1>2, ForeKept
  <1>4. text' \in Seq(BootChars)
    BY <1>1, <1>2, TailOf
  <1>5. BootTypes' /\ Ready' /\ Undisturbed'
    BY <1>1, <1>3, <1>4 DEF BootInv, BootTypes, Ready, Undisturbed
  <1> QED
    BY <1>5 DEF BootInv

LEMMA NextCharInv ==
    ASSUME BootInv, NextChar
    PROVE  BootInv'
  <1>1. /\ text # <<>> /\ Head(text) \notin {"save", "color", "restore"} /\ text' = Tail(text)
        /\ todo' = (IF Head(text) = "LF" THEN NewlineSteps ELSE CellSteps)
        /\ spot' = [spot EXCEPT !.ch = Head(text)] /\ con' = con
    BY DEF NextChar
  <1>2. /\ con \in Consoles /\ text \in Seq(BootChars)
        /\ spot \in [ch : BootChars, row : Nat, col : Nat]
    BY DEF BootInv, BootTypes
  <1>3. Head(text) \in BootChars /\ text' \in Seq(BootChars)
    BY <1>1, <1>2, TailOf
  <1>4. PICK ch \in BootChars : ch = Head(text)
    BY <1>3
  <1>5. spot' \in [ch : BootChars, row : Nat, col : Nat] /\ spot'.ch = ch
    BY <1>1, <1>2, <1>4
  <1>6. ch \in Printable \/ ch = "LF"
    BY <1>1, <1>4 DEF BootChars
  <1>7. Chain(todo') /\ First(todo') \in {"wrap", "column0"}
    <2>1. First(NewlineSteps) = "column0" /\ First(CellSteps) = "wrap"
      BY DEF First, NewlineSteps, CellSteps
    <2> QED
      BY <1>1, <2>1, ChainStart
  <1>8. Storable(todo', ch)
    <2>1. CASE ch = "LF"
      <3>1. \A i \in 1 .. Len(NewlineSteps) : NewlineSteps[i] # "set"
        BY DEF NewlineSteps
      <3> QED
        BY <1>1, <1>4, <2>1, <3>1 DEF Storable
    <2>2. CASE ch \in Printable
      BY <2>2 DEF Storable
    <2> QED
      BY <1>6, <2>1, <2>2
  <1>9. BootTypes' /\ Ready' /\ Undisturbed'
    BY <1>1, <1>2, <1>3, <1>5, <1>7, <1>8 DEF BootTypes, Ready, Undisturbed
  <1> QED
    BY <1>9 DEF BootInv

LEMMA KeyboardIrqInv ==
    ASSUME BootInv, KeyboardIrq
    PROVE  BootInv'
  <1>1. hit' = TRUE /\ text' = text /\ todo' = todo /\ spot' = spot /\ reg' = reg
    BY DEF KeyboardIrq
  <1>2. con \in Consoles
    BY DEF BootInv, BootTypes
  <1>3. /\ con' \in Consoles
        /\ con.cursor_x < COLUMNS => con'.cursor_x < COLUMNS
        /\ con.cursor_y < ROWS => con'.cursor_y < ROWS
    BY <1>2, IrqKept
  <1>4. BootTypes' /\ Ready' /\ Undisturbed'
    BY <1>1, <1>3 DEF BootInv, BootTypes, Ready, Undisturbed
  <1> QED
    BY <1>4 DEF BootInv

LEMMA AtTaken ==
    ASSUME BootInv, NEW name, At(name, <<>>)
    PROVE  /\ Chain(todo') /\ Storable(todo', spot.ch)
           /\ First(todo) = name /\ Follows(name, First(todo'))
           /\ text' = text /\ hit' = hit
  <1>1. /\ todo # <<>> /\ Head(todo) = name /\ todo' = <<>> \o Tail(todo)
        /\ text' = text /\ hit' = hit
    BY DEF At
  <1>2. Chain(todo) /\ Storable(todo, spot.ch)
    BY DEF BootInv, BootTypes
  <1>3. Chain(todo') /\ Storable(todo', spot.ch) /\ Head(todo) = First(todo)
        /\ Follows(First(todo), First(todo'))
    BY <1>1, <1>2, StepTaken, Zenon
  <1> QED
    BY <1>1, <1>3

LEMMA AtExpanded ==
    ASSUME BootInv, NEW name \in Forks, NEW a \in Steps,
           NEW b \in Ends, a # "set", Follows(a, b), At(name, <<a, b>>)
    PROVE  /\ Chain(todo') /\ Storable(todo', spot.ch)
           /\ First(todo) = name /\ First(todo') = a
           /\ text' = text /\ hit' = hit
  <1>1. /\ todo # <<>> /\ Head(todo) = name /\ todo' = Before(a, b, Tail(todo))
        /\ text' = text /\ hit' = hit
    BY DEF At, Before
  <1>2. Chain(todo) /\ Storable(todo, spot.ch)
    BY DEF BootInv, BootTypes
  <1>3. Head(todo) = First(todo)
    BY <1>1, <1>2, ChainTail
  <1>4. First(todo) \in Forks
    BY <1>1, <1>3
  <1>5. Chain(todo') /\ Storable(todo', spot.ch) /\ First(todo') = a
    BY <1>1, <1>2, <1>4, StepExpanded, Zenon
  <1> QED
    BY <1>1, <1>3, <1>5

LEMMA BootFacts ==
    ASSUME BootInv
    PROVE  /\ con \in Consoles /\ text \in Seq(BootChars)
           /\ spot \in [ch : BootChars, row : Nat, col : Nat]
           /\ COLUMNS \in Nat /\ COLUMNS > 0 /\ ROWS \in Nat /\ ROWS > 0
           /\ con.cursor_x \in 0 .. COLUMNS /\ con.cursor_y \in 0 .. ROWS
  BY BootAssumption, TerminalAssumption, Fields DEF BootInv, BootTypes

LEMMA WrapTestInv ==
    ASSUME BootInv, WrapTest
    PROVE  BootInv'
  <1>1. con' = con /\ spot' = spot /\ reg' = reg
    BY DEF WrapTest
  <1>2. CASE con.cursor_x >= COLUMNS
    <2>1. At("wrap", <<"column0", "test">>)
      BY <1>2 DEF WrapTest, NewlineSteps
    <2>2. /\ "column0" \in Steps /\ Follows("column0", "test")
          /\ "wrap" \in Forks /\ "test" \in Ends
      BY DEF Steps, Follows, Forks, Ends
    <2>3. /\ Chain(todo') /\ Storable(todo', spot.ch) /\ First(todo') = "column0"
          /\ text' = text /\ hit' = hit
      BY <2>1, <2>2, AtExpanded
    <2> QED
      BY <1>1, <2>3, BootFacts DEF BootInv, BootTypes, Ready, Undisturbed
  <1>3. CASE ~(con.cursor_x >= COLUMNS)
    <2>1. At("wrap", <<>>)
      BY <1>3 DEF WrapTest
    <2>2. /\ Chain(todo') /\ Storable(todo', spot.ch) /\ Follows("wrap", First(todo'))
          /\ text' = text /\ hit' = hit
      BY <2>1, AtTaken
    <2>3. First(todo') \in {"pick", "end"}
      BY <2>2 DEF Follows
    <2>4. con.cursor_x < COLUMNS
      BY <1>3, BootFacts
    <2> QED
      BY <1>1, <2>2, <2>3, <2>4, BootFacts DEF BootInv, BootTypes, Ready, Undisturbed
  <1> QED
    BY <1>2, <1>3

LEMMA RowTestInv ==
    ASSUME BootInv, RowTest
    PROVE  BootInv'
  <1>1. con' = con /\ spot' = spot /\ reg' = reg
    BY DEF RowTest
  <1>2. CASE con.cursor_y + 1 < ROWS
    <2>1. At("test", <<"loady", "storey">>)
      BY <1>2 DEF RowTest
    <2>2. /\ "loady" \in Steps /\ Follows("loady", "storey")
          /\ "test" \in Forks /\ "storey" \in Ends
      BY DEF Steps, Follows, Forks, Ends
    <2>3. /\ Chain(todo') /\ Storable(todo', spot.ch) /\ First(todo') = "loady"
          /\ text' = text /\ hit' = hit /\ First(todo) = "test"
      BY <2>1, <2>2, AtExpanded
    <2>4. con.cursor_x < COLUMNS /\ con.cursor_y < ROWS
      BY <1>2, <2>3, BootFacts DEF BootInv, Ready
    <2> QED
      BY <1>1, <1>2, <2>3, <2>4, BootFacts DEF BootInv, BootTypes, Ready, Undisturbed
  <1>3. CASE ~(con.cursor_y + 1 < ROWS)
    <2>1. At("test", <<"pixels", "cells">>)
      BY <1>3 DEF RowTest
    <2>2. /\ "pixels" \in Steps /\ Follows("pixels", "cells")
          /\ "test" \in Forks /\ "cells" \in Ends
      BY DEF Steps, Follows, Forks, Ends
    <2>3. /\ Chain(todo') /\ Storable(todo', spot.ch) /\ First(todo') = "pixels"
          /\ text' = text /\ hit' = hit /\ First(todo) = "test"
      BY <2>1, <2>2, AtExpanded
    <2>4. con.cursor_x < COLUMNS
      BY <2>3, BootFacts DEF BootInv, Ready
    <2> QED
      BY <1>1, <2>3, <2>4, BootFacts DEF BootInv, BootTypes, Ready, Undisturbed
  <1> QED
    BY <1>2, <1>3

LEMMA PickInv ==
    ASSUME BootInv, Pick
    PROVE  BootInv'
  <1>1. /\ At("pick", <<>>) /\ con' = con /\ reg' = reg
        /\ spot' = [spot EXCEPT !.row = con.cursor_y, !.col = con.cursor_x]
    BY DEF Pick
  <1>2. /\ Chain(todo') /\ Storable(todo', spot.ch) /\ First(todo) = "pick"
        /\ Follows("pick", First(todo')) /\ text' = text /\ hit' = hit
    BY <1>1, AtTaken
  <1>3. First(todo') = "set"
    BY <1>2 DEF Follows
  <1>4. con.cursor_x < COLUMNS
    BY <1>2 DEF BootInv, Ready
  <1>5. spot' \in [ch : BootChars, row : Nat, col : Nat] /\ spot'.ch = spot.ch
    <2>1. PICK x \in Nat, y \in Nat : x = con.cursor_x /\ y = con.cursor_y
      BY BootFacts
    <2>2. spot' = [spot EXCEPT !.row = y, !.col = x] /\ spot \in [ch : BootChars, row : Nat, col : Nat]
      BY <1>1, <2>1, BootFacts
    <2> QED
      BY <2>2
  <1> QED
    BY <1>1, <1>2, <1>3, <1>4, <1>5, BootFacts DEF BootInv, BootTypes, Ready, Undisturbed

LEMMA SetCellInv ==
    ASSUME BootInv, SetCell
    PROVE  BootInv' /\ con'.foreground = con.foreground
  <1>1. /\ At("set", <<>>) /\ spot' = spot /\ reg' = reg
        /\ con' = set_cell(con, spot.row, spot.col, Cell(spot.ch, con.foreground, con.background))
    BY DEF SetCell
  <1>2. /\ Chain(todo') /\ Storable(todo', spot.ch) /\ First(todo) = "set"
        /\ Follows("set", First(todo')) /\ text' = text /\ hit' = hit
    BY <1>1, AtTaken
  <1>3. First(todo') = "render"
    BY <1>2 DEF Follows
  <1>4. con.cursor_x < COLUMNS
    BY <1>2 DEF BootInv, Ready
  <1>5. spot.row \in Nat /\ spot.col \in Nat /\ con.foreground \in Colors /\ con.background \in Colors
    BY BootFacts, Fields
  <1>6. spot.ch \in Printable
    <2>1. todo # <<>> /\ Storable(todo, spot.ch) /\ Chain(todo)
      BY <1>1 DEF BootInv, BootTypes, At
    <2>2. 1 \in 1 .. Len(todo) /\ todo[1] = "set"
      BY <1>2, <2>1, EmptySeq DEF First, Chain
    <2> QED
      BY <2>1, <2>2 DEF Storable
  <1>7. PICK t \in CellSet : t = Cell(spot.ch, con.foreground, con.background)
    BY <1>5, <1>6 DEF Cell, CellSet
  <1>8. /\ con' \in Consoles /\ con'.cursor_x = con.cursor_x /\ con'.cursor_y = con.cursor_y
        /\ con'.foreground = con.foreground
    <2>1. PICK row \in Nat, col \in Nat : row = spot.row /\ col = spot.col
      BY <1>5
    <2>2. PICK d : d = con'
      OBVIOUS
    <2>3. PICK c \in Consoles : c = con /\ d = set_cell(c, row, col, t)
      BY <1>1, <1>7, <2>1, <2>2, BootFacts
    <2>4. /\ d \in Consoles /\ d.cursor_x = c.cursor_x /\ d.cursor_y = c.cursor_y
          /\ d.foreground = c.foreground
      BY <2>3, SetCellKept
    <2> QED
      BY <2>2, <2>3, <2>4
  <1> QED
    BY <1>1, <1>2, <1>3, <1>4, <1>8, BootFacts DEF BootInv, BootTypes, Ready, Undisturbed

LEMMA RenderCellInv ==
    ASSUME BootInv, RenderCell
    PROVE  BootInv' /\ con'.foreground = con.foreground
  <1>1. /\ At("render", <<>>) /\ spot' = spot /\ reg' = reg
        /\ con' = render_cell(con, spot.row, spot.col)
    BY DEF RenderCell
  <1>2. /\ Chain(todo') /\ Storable(todo', spot.ch) /\ First(todo) = "render"
        /\ Follows("render", First(todo')) /\ text' = text /\ hit' = hit
    BY <1>1, AtTaken
  <1>3. First(todo') = "loadx"
    BY <1>2 DEF Follows
  <1>4. con.cursor_x < COLUMNS
    BY <1>2 DEF BootInv, Ready
  <1>5. spot.row \in Nat /\ spot.col \in Nat
    BY BootFacts
  <1>6. /\ con' \in Consoles /\ con'.cursor_x = con.cursor_x /\ con'.cursor_y = con.cursor_y
        /\ con'.foreground = con.foreground
    <2>1. PICK row \in Nat, col \in Nat : row = spot.row /\ col = spot.col
      BY <1>5
    <2>2. PICK d : d = con'
      OBVIOUS
    <2>3. PICK c \in Consoles : c = con /\ d = render_cell(c, row, col)
      BY <1>1, <2>1, <2>2, BootFacts
    <2>4. /\ d \in Consoles /\ d.cursor_x = c.cursor_x /\ d.cursor_y = c.cursor_y
          /\ d.foreground = c.foreground
      BY <2>3, RenderCellKept
    <2> QED
      BY <2>2, <2>3, <2>4
  <1> QED
    BY <1>1, <1>2, <1>3, <1>4, <1>6, BootFacts DEF BootInv, BootTypes, Ready, Undisturbed

LEMMA ColumnSet ==
    ASSUME NEW c \in Consoles, NEW x \in 0 .. COLUMNS, NEW d, d = [c EXCEPT !.cursor_x = x]
    PROVE  /\ d \in Consoles /\ d.cursor_x = x /\ d.cursor_y = c.cursor_y
           /\ d.foreground = c.foreground
  BY DEF Consoles

LEMMA RowSet ==
    ASSUME NEW c \in Consoles, NEW y \in 0 .. ROWS, NEW d, d = [c EXCEPT !.cursor_y = y]
    PROVE  /\ d \in Consoles /\ d.cursor_x = c.cursor_x /\ d.cursor_y = y
           /\ d.foreground = c.foreground
  BY DEF Consoles

LEMMA PixelsKept ==
    ASSUME NEW c \in Consoles, ROWS > 0, COLUMNS > 0,
           NEW d, d = [c EXCEPT !.screen = scroll(c).screen]
    PROVE  /\ d \in Consoles /\ d.cursor_x = c.cursor_x /\ d.cursor_y = c.cursor_y
           /\ d.foreground = c.foreground
  <1>1. PICK s : s = scroll(c)
    OBVIOUS
  <1>2. s \in Consoles
    BY <1>1, ScrollKept DEF Kept
  <1> QED
    BY <1>1, <1>2 DEF Consoles

WithScreen(c, g) == [c EXCEPT !.screen = g]

LEMMA CellsKept ==
    ASSUME NEW c \in Consoles, NEW g \in Grid(ROWS), ROWS > 0, COLUMNS > 0,
           NEW s, s = scroll(c), NEW e, e = WithScreen(s, g)
    PROVE  /\ e \in Consoles /\ e.cursor_x = 0 /\ e.cursor_y = ROWS - 1
           /\ e.foreground = c.foreground
  <1>1. s \in Consoles /\ s.cursor_x = 0 /\ s.cursor_y = ROWS - 1 /\ s.foreground = c.foreground
    BY ScrollKept DEF Kept
  <1> QED
    BY <1>1 DEF Consoles, WithScreen

LEMMA AdvanceLoadInv ==
    ASSUME BootInv, AdvanceLoad
    PROVE  BootInv'
  <1>1. At("loadx", <<>>) /\ con' = con /\ spot' = spot /\ reg' = con.cursor_x + 1
    BY DEF AdvanceLoad
  <1>2. /\ Chain(todo') /\ Storable(todo', spot.ch) /\ First(todo) = "loadx"
        /\ Follows("loadx", First(todo')) /\ text' = text /\ hit' = hit
    BY <1>1, AtTaken
  <1>3. First(todo') = "storex"
    BY <1>2 DEF Follows
  <1>4. con.cursor_x < COLUMNS
    BY <1>2 DEF BootInv, Ready
  <1>5. reg' \in 0 .. COLUMNS
    BY <1>1, <1>4, BootFacts
  <1> QED
    BY <1>1, <1>2, <1>3, <1>5, BootFacts DEF BootInv, BootTypes, Ready, Undisturbed

LEMMA AdvanceInv ==
    ASSUME BootInv, Advance
    PROVE  BootInv' /\ con'.foreground = con.foreground
  <1>1. At("storex", <<>>) /\ con' = [con EXCEPT !.cursor_x = reg] /\ spot' = spot /\ reg' = reg
    BY DEF Advance
  <1>2. /\ Chain(todo') /\ Storable(todo', spot.ch) /\ First(todo) = "storex"
        /\ Follows("storex", First(todo')) /\ text' = text /\ hit' = hit
    BY <1>1, AtTaken
  <1>3. First(todo') = "wrap"
    BY <1>2 DEF Follows
  <1>4. reg \in 0 .. COLUMNS
    BY <1>2 DEF BootInv, Ready
  <1>5. con' \in Consoles /\ con'.foreground = con.foreground
    BY <1>1, <1>4, BootFacts, ColumnSet
  <1> QED
    BY <1>1, <1>2, <1>3, <1>5, BootFacts DEF BootInv, BootTypes, Ready, Undisturbed

LEMMA Column0Inv ==
    ASSUME BootInv, Column0
    PROVE  BootInv' /\ con'.foreground = con.foreground
  <1>1. At("column0", <<>>) /\ con' = [con EXCEPT !.cursor_x = 0] /\ spot' = spot /\ reg' = reg
    BY DEF Column0
  <1>2. /\ Chain(todo') /\ Storable(todo', spot.ch)
        /\ Follows("column0", First(todo')) /\ text' = text /\ hit' = hit
    BY <1>1, AtTaken
  <1>3. First(todo') = "test"
    BY <1>2 DEF Follows
  <1>4. 0 \in 0 .. COLUMNS
    BY BootFacts
  <1>5. con' \in Consoles /\ con'.cursor_x = 0 /\ con'.foreground = con.foreground
    BY <1>1, <1>4, BootFacts, ColumnSet
  <1> QED
    BY <1>1, <1>2, <1>3, <1>5, BootFacts DEF BootInv, BootTypes, Ready, Undisturbed

LEMMA DownLoadInv ==
    ASSUME BootInv, DownLoad
    PROVE  BootInv'
  <1>1. At("loady", <<>>) /\ con' = con /\ spot' = spot /\ reg' = con.cursor_y + 1
    BY DEF DownLoad
  <1>2. /\ Chain(todo') /\ Storable(todo', spot.ch) /\ First(todo) = "loady"
        /\ Follows("loady", First(todo')) /\ text' = text /\ hit' = hit
    BY <1>1, AtTaken
  <1>3. First(todo') = "storey"
    BY <1>2 DEF Follows
  <1>4. con.cursor_x < COLUMNS /\ con.cursor_y < ROWS /\ (~hit => con.cursor_y + 1 < ROWS)
    BY <1>2 DEF BootInv, Ready, Undisturbed
  <1>5. reg' \in 0 .. ROWS /\ (~hit => reg' < ROWS)
    BY <1>1, <1>4, BootFacts
  <1> QED
    BY <1>1, <1>2, <1>3, <1>4, <1>5, BootFacts DEF BootInv, BootTypes, Ready, Undisturbed

LEMMA DownInv ==
    ASSUME BootInv, Down
    PROVE  /\ BootInv' /\ con'.foreground = con.foreground
           /\ ~hit => con'.cursor_y < ROWS
  <1>1. At("storey", <<>>) /\ con' = [con EXCEPT !.cursor_y = reg] /\ spot' = spot /\ reg' = reg
    BY DEF Down
  <1>2. /\ Chain(todo') /\ Storable(todo', spot.ch) /\ First(todo) = "storey"
        /\ Follows("storey", First(todo')) /\ text' = text /\ hit' = hit
    BY <1>1, AtTaken
  <1>3. First(todo') \in {"pick", "end"}
    BY <1>2 DEF Follows
  <1>4. reg \in 0 .. ROWS /\ con.cursor_x < COLUMNS /\ (~hit => reg < ROWS)
    BY <1>2 DEF BootInv, Ready, Undisturbed
  <1>5. /\ con' \in Consoles /\ con'.foreground = con.foreground
        /\ con'.cursor_x = con.cursor_x /\ con'.cursor_y = reg
    BY <1>1, <1>4, BootFacts, RowSet
  <1> QED
    BY <1>1, <1>2, <1>3, <1>4, <1>5, BootFacts DEF BootInv, BootTypes, Ready, Undisturbed

LEMMA ScrollPixelsInv ==
    ASSUME BootInv, ScrollPixels
    PROVE  BootInv' /\ con'.foreground = con.foreground
  <1>1. At("pixels", <<>>) /\ con' = [con EXCEPT !.screen = scroll(con).screen]
        /\ spot' = spot /\ reg' = reg
    BY DEF ScrollPixels
  <1>2. /\ Chain(todo') /\ Storable(todo', spot.ch) /\ First(todo) = "pixels"
        /\ Follows("pixels", First(todo')) /\ text' = text /\ hit' = hit
    BY <1>1, AtTaken
  <1>3. First(todo') = "cells"
    BY <1>2 DEF Follows
  <1>4. con.cursor_x < COLUMNS
    BY <1>2 DEF BootInv, Ready
  <1>5. /\ con' \in Consoles /\ con'.foreground = con.foreground
        /\ con'.cursor_x = con.cursor_x
    BY <1>1, BootFacts, PixelsKept
  <1> QED
    BY <1>1, <1>2, <1>3, <1>4, <1>5, BootFacts DEF BootInv, BootTypes, Ready, Undisturbed

LEMMA ScrollCellsInv ==
    ASSUME BootInv, ScrollCells
    PROVE  /\ BootInv' /\ con'.foreground = con.foreground
           /\ con'.cursor_y < ROWS
  <1>1. At("cells", <<>>) /\ con' = [scroll(con) EXCEPT !.screen = con.screen]
        /\ spot' = spot /\ reg' = reg
    BY DEF ScrollCells
  <1>2. /\ Chain(todo') /\ Storable(todo', spot.ch)
        /\ Follows("cells", First(todo')) /\ text' = text /\ hit' = hit
    BY <1>1, AtTaken
  <1>3. First(todo') \in {"pick", "end"}
    BY <1>2 DEF Follows
  <1>4. /\ con' \in Consoles /\ con'.foreground = con.foreground
        /\ con'.cursor_x = 0 /\ con'.cursor_y = ROWS - 1
    <2>1. PICK s : s = scroll(con)
      OBVIOUS
    <2>2. PICK c \in Consoles : c = con
      BY BootFacts
    <2>3. PICK g \in Grid(ROWS) : g = con.screen
      BY <2>2, Fields
    <2>4. PICK e : e = WithScreen(s, g)
      OBVIOUS
    <2>5. con' = e
      BY <1>1, <2>1, <2>3, <2>4 DEF WithScreen
    <2>6. s = scroll(c) /\ ROWS > 0 /\ COLUMNS > 0
      BY <2>1, <2>2, BootFacts
    <2>7. /\ e \in Consoles /\ e.foreground = c.foreground
          /\ e.cursor_x = 0 /\ e.cursor_y = ROWS - 1
      BY <2>4, <2>6, CellsKept
    <2> QED
      BY <2>2, <2>5, <2>7
  <1> QED
    BY <1>1, <1>2, <1>3, <1>4, BootFacts DEF BootInv, BootTypes, Ready, Undisturbed

(***************************************************************************)
(* The colour of write_fmt_color.  old_color holds a colour exactly        *)
(* between its save and its restore, and it is the one chosen last.        *)
(***************************************************************************)
TextPos(t) == Len(BootText) - Len(t) + 1

Suffix(t) ==
    /\ Len(t) <= Len(BootText)
    /\ \A i \in 1 .. Len(t) : t[i] = BootText[Len(BootText) - Len(t) + i]

Saved ==
    /\ chosen \in Colors /\ old_color \in Colors \cup {"none"}
    /\ IF old_color = "none" THEN con.foreground = chosen /\ ~Coloured(TextPos(text))
                             ELSE old_color = chosen /\ Coloured(TextPos(text))

ColorInv == Suffix(text) /\ Saved

LEMMA SuffixTail ==
    ASSUME NEW t \in Seq(BootChars), t # <<>>, Suffix(t)
    PROVE  /\ Suffix(Tail(t)) /\ TextPos(Tail(t)) = TextPos(t) + 1
           /\ TextPos(t) \in 1 .. Len(BootText) /\ Head(t) = BootText[TextPos(t)]
  <1>1. PICK m \in Nat : m = Len(BootText)
    BY BootAssumption
  <1>2. /\ Len(t) \in Nat \ {0} /\ Head(t) = t[1]
        /\ Len(Tail(t)) = Len(t) - 1 /\ \A i \in 1 .. Len(t) - 1 : Tail(t)[i] = t[i + 1]
    OBVIOUS
  <1>3. PICK n \in Nat \ {0} : n = Len(t)
    BY <1>2
  <1>4. n <= m /\ \A i \in 1 .. n : t[i] = BootText[m - n + i]
    BY <1>1, <1>3 DEF Suffix
  <1>5. Head(t) = BootText[m - n + 1]
    BY <1>2, <1>3, <1>4
  <1>6. ASSUME NEW i \in 1 .. n - 1 PROVE Tail(t)[i] = BootText[m - (n - 1) + i]
    <2>1. i + 1 \in 1 .. n /\ m - n + (i + 1) = m - (n - 1) + i
      OBVIOUS
    <2>2. t[i + 1] = BootText[m - n + (i + 1)]
      BY <1>4, <2>1
    <2> QED
      BY <1>2, <1>3, <2>1, <2>2
  <1>7. Suffix(Tail(t))
    BY <1>1, <1>2, <1>3, <1>4, <1>6 DEF Suffix
  <1>8. TextPos(t) = m - n + 1 /\ TextPos(Tail(t)) = m - (n - 1) + 1
    BY <1>1, <1>2, <1>3 DEF TextPos
  <1> QED
    BY <1>1, <1>4, <1>5, <1>7, <1>8

LEMMA ColouredStep ==
    ASSUME NEW p \in 1 .. Len(BootText)
    PROVE  /\ BootText[p] = "save" => Coloured(p + 1)
           /\ BootText[p] = "restore" => ~Coloured(p + 1)
           /\ BootText[p] \notin {"save", "restore"} => (Coloured(p + 1) <=> Coloured(p))
  <1>1. Len(BootText) \in Nat
    BY BootAssumption
  <1>2. p \in Nat /\ p \in 1 .. (p + 1) - 1 /\ p + 1 .. (p + 1) - 1 = {}
    BY <1>1
  <1>3. CASE BootText[p] = "save"
    BY <1>2, <1>3 DEF Coloured
  <1>4. CASE BootText[p] = "restore"
    <2>1. ASSUME NEW j \in 1 .. (p + 1) - 1, BootText[j] = "save",
                 \A k \in j + 1 .. (p + 1) - 1 : BootText[k] # "restore"
          PROVE  FALSE
      <3>1. j # p
        BY <1>4, <2>1
      <3>2. p \in j + 1 .. (p + 1) - 1
        BY <1>2, <3>1
      <3> QED
        BY <1>4, <2>1, <3>2
    <2> QED
      BY <1>4, <2>1 DEF Coloured
  <1>5. CASE BootText[p] \notin {"save", "restore"}
    <2>1. ASSUME Coloured(p) PROVE Coloured(p + 1)
      <3>1. PICK j \in 1 .. p - 1 : /\ BootText[j] = "save"
                                    /\ \A k \in j + 1 .. p - 1 : BootText[k] # "restore"
        BY <2>1 DEF Coloured
      <3>2. j \in 1 .. (p + 1) - 1
        BY <1>2
      <3>3. ASSUME NEW k \in j + 1 .. (p + 1) - 1 PROVE BootText[k] # "restore"
        <4>1. k = p \/ k \in j + 1 .. p - 1
          BY <1>2
        <4> QED
          BY <1>5, <3>1, <4>1
      <3> QED
        BY <3>1, <3>2, <3>3 DEF Coloured
    <2>2. ASSUME Coloured(p + 1) PROVE Coloured(p)
      <3>1. PICK j \in 1 .. (p + 1) - 1 : /\ BootText[j] = "save"
                                          /\ \A k \in j + 1 .. (p + 1) - 1 : BootText[k] # "restore"
        BY <2>2 DEF Coloured
      <3>2. j # p
        BY <1>5, <3>1
      <3>3. j \in 1 .. p - 1
        BY <1>2, <3>2
      <3>4. \A k \in j + 1 .. p - 1 : k \in j + 1 .. (p + 1) - 1
        BY <1>2
      <3> QED
        BY <3>1, <3>3, <3>4 DEF Coloured
    <2> QED
      BY <1>5, <2>1, <2>2
  <1> QED
    BY <1>3, <1>4, <1>5

LEMMA ColorInitInv ==
    ASSUME BootInit
    PROVE  ColorInv
  <1>1. Len(BootText) \in Nat /\ COLUMNS > 0 /\ ROWS > 0
    BY BootAssumption
  <1>2. text = BootText /\ con = Booted /\ old_color = "none" /\ chosen = WHITE
    BY DEF BootInit
  <1>3. Suffix(text) /\ TextPos(text) = 1
    <2>1. PICK m \in Nat : m = Len(BootText)
      BY <1>1
    <2>2. m - m + 1 = 1 /\ m <= m /\ \A i \in 1 .. m : m - m + i = i
      OBVIOUS
    <2> QED
      BY <1>2, <2>1, <2>2 DEF Suffix, TextPos
  <1>4. ~Coloured(1)
    BY DEF Coloured
  <1>5. con.foreground = WHITE /\ WHITE \in Colors
    BY <1>1, <1>2, BootedKept, TerminalAssumption
  <1> QED
    BY <1>2, <1>3, <1>4, <1>5 DEF ColorInv, Saved

LEMMA BetweenColor ==
    ASSUME BootInv, ColorInv, SaveColor \/ SetColor \/ RestoreColor
    PROVE  ColorInv' /\ (old_color \in Colors \/ ~RestoreColor)
  <1>1. con \in Consoles /\ text \in Seq(BootChars) /\ con.foreground \in Colors
    BY BootFacts, Fields
  <1>2. text # <<>> /\ text' = Tail(text) /\ chosen' = chosen
    BY DEF SaveColor, SetColor, RestoreColor, Between
  <1>3. PICK p : p = TextPos(text)
    OBVIOUS
  <1>4. /\ Suffix(text') /\ TextPos(text') = p + 1
        /\ p \in 1 .. Len(BootText) /\ Head(text) = BootText[p]
    BY <1>1, <1>2, <1>3, SuffixTail DEF ColorInv
  <1>5. /\ chosen \in Colors /\ old_color \in Colors \cup {"none"}
        /\ old_color = "none" => con.foreground = chosen /\ ~Coloured(p)
        /\ old_color # "none" => old_color = chosen /\ Coloured(p)
    BY <1>3 DEF ColorInv, Saved
  <1>6. "none" \notin Colors
    BY TerminalAssumption
  <1>7. CASE SaveColor
    <2>1. BootText[p] = "save" /\ old_color' = con.foreground /\ con' = con
      BY <1>4, <1>7 DEF SaveColor, Between
    <2>2. ~Coloured(p) /\ Coloured(p + 1)
      BY <1>4, <2>1, BootAssumption, ColouredStep
    <2>3. ~RestoreColor
      BY <1>4, <2>1 DEF RestoreColor, Between
    <2> QED
      BY <1>1, <1>2, <1>4, <1>5, <1>6, <2>1, <2>2, <2>3 DEF ColorInv, Saved
  <1>8. CASE SetColor
    <2>1. BootText[p] = "color" /\ old_color' = old_color
      BY <1>4, <1>8 DEF SetColor, Between
    <2>2. Coloured(p) /\ Coloured(p + 1)
      <3>1. BootText[p] \notin {"save", "restore"}
        BY <2>1
      <3> QED
        BY <1>4, <2>1, <3>1, BootAssumption, ColouredStep
    <2>3. ~RestoreColor
      BY <1>4, <2>1 DEF RestoreColor, Between
    <2> QED
      BY <1>2, <1>4, <1>5, <2>1, <2>2, <2>3 DEF ColorInv, Saved
  <1>9. CASE RestoreColor
    <2>1. /\ BootText[p] = "restore" /\ old_color' = "none"
          /\ con' = WithFore(con, old_color)
      BY <1>4, <1>9 DEF RestoreColor, Between, WithFore
    <2>2. Coloured(p) /\ ~Coloured(p + 1)
      BY <1>4, <2>1, BootAssumption, ColouredStep
    <2>3. old_color \in Colors /\ old_color = chosen
      BY <1>5, <2>2
    <2>4. con'.foreground = old_color
      BY <1>1, <2>1, <2>3, ForeKept
    <2> QED
      BY <1>2, <1>4, <1>5, <2>1, <2>2, <2>3, <2>4 DEF ColorInv, Saved
  <1> QED
    BY <1>7, <1>8, <1>9

LEMMA NextCharColor ==
    ASSUME BootInv, ColorInv, NextChar
    PROVE  ColorInv'
  <1>1. /\ text # <<>> /\ text' = Tail(text) /\ Head(text) \notin {"save", "color", "restore"}
        /\ chosen' = chosen /\ old_color' = old_color /\ con' = con
    BY DEF NextChar
  <1>2. text \in Seq(BootChars)
    BY BootFacts
  <1>3. PICK p : p = TextPos(text)
    OBVIOUS
  <1>4. /\ Suffix(text') /\ TextPos(text') = p + 1
        /\ p \in 1 .. Len(BootText) /\ Head(text) = BootText[p]
    BY <1>1, <1>2, <1>3, SuffixTail DEF ColorInv
  <1>5. Coloured(p + 1) <=> Coloured(p)
    <2>1. BootText[p] \notin {"save", "restore"}
      BY <1>1, <1>4
    <2> QED
      BY <1>4, <2>1, ColouredStep
  <1> QED
    BY <1>1, <1>3, <1>4, <1>5 DEF ColorInv, Saved

LEMMA KeyboardIrqColor ==
    ASSUME BootInv, ColorInv, KeyboardIrq
    PROVE  ColorInv'
  <1>1. text' = text /\ old_color' = old_color
    BY DEF KeyboardIrq
  <1>2. con \in Consoles
    BY BootFacts
  <1>3. \/ con'.foreground = con.foreground /\ chosen' = chosen
        \/ \E color \in Colors : /\ con'.foreground = color
                                 /\ chosen' = IF old_color = "none" THEN color ELSE chosen
    BY <1>2, IrqKept
  <1> QED
    BY <1>1, <1>3 DEF ColorInv, Saved

LEMMA UnchangedColor ==
    ASSUME ColorInv, con'.foreground = con.foreground,
           text' = text, chosen' = chosen, old_color' = old_color
    PROVE  ColorInv'
  BY DEF ColorInv, Saved

LEMMA StepColor ==
    ASSUME BootInv, ColorInv,
           WrapTest \/ RowTest \/ Pick \/ SetCell \/ RenderCell \/ AdvanceLoad \/ Advance
              \/ Column0 \/ DownLoad \/ Down \/ ScrollPixels \/ ScrollCells
    PROVE  BootInv' /\ ColorInv'
  <1>1. text' = text /\ chosen' = chosen /\ old_color' = old_color
    BY DEF WrapTest, RowTest, Pick, SetCell, RenderCell, AdvanceLoad, Advance, Column0,
           DownLoad, Down, ScrollPixels, ScrollCells, At
  <1>2. CASE WrapTest
    <2>1. con' = con
      BY <1>2 DEF WrapTest
    <2> QED
      BY <1>1, <1>2, <2>1, WrapTestInv, UnchangedColor
  <1>3. CASE RowTest
    <2>1. con' = con
      BY <1>3 DEF RowTest
    <2> QED
      BY <1>1, <1>3, <2>1, RowTestInv, UnchangedColor
  <1>4. CASE Pick
    <2>1. con' = con
      BY <1>4 DEF Pick
    <2> QED
      BY <1>1, <1>4, <2>1, PickInv, UnchangedColor
  <1>5. CASE SetCell
    BY <1>1, <1>5, SetCellInv, UnchangedColor
  <1>6. CASE RenderCell
    BY <1>1, <1>6, RenderCellInv, UnchangedColor
  <1>7. CASE AdvanceLoad
    <2>1. con' = con
      BY <1>7 DEF AdvanceLoad
    <2> QED
      BY <1>1, <1>7, <2>1, AdvanceLoadInv, UnchangedColor
  <1>8. CASE Advance
    BY <1>1, <1>8, AdvanceInv, UnchangedColor
  <1>9. CASE Column0
    BY <1>1, <1>9, Column0Inv, UnchangedColor
  <1>10. CASE DownLoad
    <2>1. con' = con
      BY <1>10 DEF DownLoad
    <2> QED
      BY <1>1, <1>10, <2>1, DownLoadInv, UnchangedColor
  <1>11. CASE Down
    BY <1>1, <1>11, DownInv, UnchangedColor
  <1>12. CASE ScrollPixels
    BY <1>1, <1>12, ScrollPixelsInv, UnchangedColor
  <1>13. CASE ScrollCells
    BY <1>1, <1>13, ScrollCellsInv, UnchangedColor
  <1> QED
    BY <1>2, <1>3, <1>4, <1>5, <1>6, <1>7, <1>8, <1>9, <1>10, <1>11, <1>12, <1>13

LEMMA BootStep ==
    ASSUME BootInv, ColorInv, [BootNext]_bootVars
    PROVE  BootInv' /\ ColorInv'
  <1>1. CASE NextChar
    BY <1>1, NextCharInv, NextCharColor
  <1>2. CASE SaveColor \/ SetColor \/ RestoreColor
    BY <1>2, BetweenColor, BetweenInv
  <1>3. CASE KeyboardIrq
    BY <1>3, KeyboardIrqInv, KeyboardIrqColor
  <1>4. CASE WrapTest \/ RowTest \/ Pick \/ SetCell \/ RenderCell \/ AdvanceLoad \/ Advance
              \/ Column0 \/ DownLoad \/ Down \/ ScrollPixels \/ ScrollCells
    BY <1>4, StepColor
  <1>5. CASE Asleep \/ UNCHANGED bootVars
    BY <1>5 DEF Asleep, bootVars, BootInv, BootTypes, Ready, Undisturbed, ColorInv, Saved
  <1>6. \/ NextChar \/ SaveColor \/ SetColor \/ RestoreColor \/ KeyboardIrq
        \/ WrapTest \/ RowTest \/ Pick \/ SetCell \/ RenderCell \/ AdvanceLoad \/ Advance
        \/ Column0 \/ DownLoad \/ Down \/ ScrollPixels \/ ScrollCells
        \/ Asleep \/ UNCHANGED bootVars
    BY DEF BootNext, Main
  <1> QED
    BY <1>1, <1>2, <1>3, <1>4, <1>5, <1>6

LEMMA BootInvariant == BootSpec => [](BootInv /\ ColorInv)
  <1>1. BootInit => BootInv /\ ColorInv
    BY BootInitInv, ColorInitInv
  <1>2. BootInv /\ ColorInv /\ [BootNext]_bootVars => (BootInv /\ ColorInv)'
    BY BootStep
  <1> QED
    BY <1>1, <1>2, PTL DEF BootSpec

(***************************************************************************)
(* However keys interrupt the prints of the boot, the cursor is at most    *)
(* one column or one row off the console: with_console takes no lock, and  *)
(* yet the damage of the race is bounded, for every text and every size.   *)
(***************************************************************************)
THEOREM CursorStaysNear == BootSpec => []CursorNearby
  <1>1. BootInv => CursorNearby
    BY BootFacts DEF CursorNearby
  <1> QED
    BY <1>1, BootInvariant, PTL

(***************************************************************************)
(* write_fmt_color puts back the colour it has found, whatever commands    *)
(* the keyboard handler ran in between: a colour chosen at the prompt      *)
(* stays, and boot's green does not.                                       *)
(***************************************************************************)
THEOREM ColorSurvivesBoot == BootSpec => []ColorKept
  <1>1. ColorInv => ColorKept
    BY DEF ColorInv, Saved, ColorKept
  <1> QED
    BY <1>1, BootInvariant, PTL

(***************************************************************************)
(* A line feed that no key interrupts ends with the cursor on the console, *)
(* also when an earlier one was interrupted and had left it below.         *)
(***************************************************************************)
THEOREM LineFeedRecovers == BootSpec => NewlineRecovers
  <1> DEFINE Recovers == todo # <<>> /\ todo' = <<>> /\ ~hit' /\ Head(todo) \in {"storey", "cells"}
                             => con'.cursor_y < ROWS
  <1>1. ASSUME BootInv, [BootNext]_bootVars PROVE [Recovers]_bootVars
    <2> SUFFICES ASSUME BootNext, todo # <<>>, todo' = <<>>, ~hit',
                        Head(todo) \in {"storey", "cells"}
                 PROVE  con'.cursor_y < ROWS
      BY <1>1
    <2>1. Down \/ ScrollCells
      BY DEF BootNext, Main, Asleep, bootVars, KeyboardIrq, NextChar, SaveColor, SetColor,
             RestoreColor, Between, WrapTest, RowTest, Pick, SetCell, RenderCell, AdvanceLoad,
             Advance, Column0, DownLoad, ScrollPixels, At
    <2>2. CASE Down
      <3>1. hit' = hit
        BY <2>2 DEF Down, At
      <3> QED
        BY <1>1, <2>2, <3>1, DownInv
    <2>3. CASE ScrollCells
      BY <1>1, <2>3, ScrollCellsInv
    <2> QED
      BY <2>1, <2>2, <2>3
  <1> QED
    BY <1>1, BootInvariant, PTL DEF BootSpec, NewlineRecovers
================================================================================
