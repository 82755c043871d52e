------------------------------- MODULE Terminal --------------------------------
(***************************************************************************)
(* The methods of the Console of src/src/console.rs, as functions from     *)
(* Console to Console.  Besides the fields of the struct the record holds  *)
(* the cell buffer and the screen.  The screen is the framebuffer seen     *)
(* cell by cell: what every 8x16 cell of it looks like (the pixels and     *)
(* present are in Framebuffer).  The strip of pixels below the last whole  *)
(* row only ever holds the background colour.                              *)
(***************************************************************************)
EXTENDS Integers, Sequences

CONSTANTS COLUMNS, ROWS,      \* self.columns, self.rows
          MAX_ROWS,           \* rows of the cell buffer
          INPUT_SIZE,
          Glyphs,             \* printable characters other than the space
          Colors, BLACK, WHITE

ASSUME TerminalAssumption ==
    /\ COLUMNS \in Nat /\ ROWS \in Nat /\ MAX_ROWS \in Nat /\ ROWS <= MAX_ROWS
    /\ INPUT_SIZE \in Nat
    /\ {BLACK, WHITE} \subseteq Colors /\ "none" \notin Colors
    /\ Glyphs \cap {"LF", "CR", "TAB", "BS", "other", "enter", "backspace"} = {}

VARIABLE con                  \* the Console, its cell buffer, and the screen

Printable == Glyphs \cup {" ", ">"}
Keys == Glyphs \cup {" ", "enter", "backspace", "other"}

Cell(ch, fg, bg) == [character |-> ch, foreground |-> fg, background |-> bg]
EMPTY == Cell(" ", WHITE, BLACK)
Uniform(cell, nrows) == [r \in 0..nrows-1 |-> [c \in 0..COLUMNS-1 |-> cell]]

\* What a cell looks like: a space shows only its background.
Look(cell) ==
    IF cell.character = " " THEN Cell(" ", WHITE, cell.background) ELSE cell

--------------------------------------------------------------------------------
\* A row beyond the cell buffer is a wild write in the code; here it is none.
set_cell(c, row, col, cell) ==
    IF row \in 0..MAX_ROWS-1 /\ col \in 0..COLUMNS-1
    THEN [c EXCEPT !.cells[row][col] = cell] ELSE c

render_cell(c, row, col) ==
    IF row >= ROWS \/ col >= COLUMNS THEN c
    ELSE [c EXCEPT !.screen[row][col] = Look(c.cells[row][col])]

clear(c) ==
    [c EXCEPT !.cells = Uniform(EMPTY, MAX_ROWS),
              !.cursor_x = 0, !.cursor_y = 0,
              !.input = <<>>, !.line_ready = FALSE,
              !.screen = Uniform(Cell(" ", WHITE, c.background), ROWS)]

scroll_uncleared(c) ==          \* a fault: the bottom row keeps its cells
    [c EXCEPT !.screen = [r \in 0..ROWS-1 |->
                            IF r < ROWS-1 THEN c.screen[r+1]
                            ELSE [x \in 0..COLUMNS-1 |-> Cell(" ", WHITE, c.background)]],
              !.cells = [r \in 0..MAX_ROWS-1 |->
                            IF r < ROWS-1 THEN c.cells[r+1] ELSE c.cells[r]],
              !.cursor_x = 0, !.cursor_y = ROWS - 1]

\* The screen moves up by one row of text and shows the background below; the
\* cells move with it and the bottom row of them becomes EMPTY.
scroll(c) ==
    [c EXCEPT !.screen = [r \in 0..ROWS-1 |->
                            IF r < ROWS-1 THEN c.screen[r+1]
                            ELSE [x \in 0..COLUMNS-1 |-> Cell(" ", WHITE, c.background)]],
              !.cells = [r \in 0..MAX_ROWS-1 |->
                            IF r < ROWS-1 THEN c.cells[r+1]
                            ELSE IF r = ROWS-1 THEN [x \in 0..COLUMNS-1 |-> EMPTY]
                            ELSE c.cells[r]],
              !.cursor_x = 0, !.cursor_y = ROWS - 1]

newline_unscrolled(c) ==        \* a fault: an off-by-one at the last row
    IF c.cursor_y < ROWS THEN [c EXCEPT !.cursor_x = 0, !.cursor_y = @ + 1]
    ELSE scroll(c)

newline(c) ==
    CASE ROWS = 0 -> [c EXCEPT !.cursor_x = 0]
      [] ROWS > 0 /\ c.cursor_y + 1 < ROWS ->
            [c EXCEPT !.cursor_x = 0, !.cursor_y = @ + 1]
      [] ROWS > 0 /\ c.cursor_y + 1 >= ROWS -> scroll(c)

Wrap(c) == IF c.cursor_x >= COLUMNS THEN newline(c) ELSE c

\* set_cell and render_cell at the cursor.
Stamp(c, cell) == render_cell(set_cell(c, c.cursor_y, c.cursor_x, cell), c.cursor_y, c.cursor_x)

write_cell(c, ch) ==
    IF COLUMNS = 0 \/ ROWS = 0 THEN c
    ELSE LET w == Wrap(c)
             s == Stamp(w, Cell(ch, w.foreground, w.background))
         IN  Wrap([s EXCEPT !.cursor_x = @ + 1])

TAB_SIZE == 4
tab(c) ==
    LET next_tab == (c.cursor_x \div TAB_SIZE + 1) * TAB_SIZE
    IN  IF next_tab >= COLUMNS THEN newline(c) ELSE [c EXCEPT !.cursor_x = next_tab]

backspace_unrendered(c) ==      \* a fault: the erased cell is not redrawn
    LET m == IF c.cursor_x > 0 THEN [c EXCEPT !.cursor_x = @ - 1]
             ELSE [c EXCEPT !.cursor_y = @ - 1, !.cursor_x = COLUMNS - 1]
    IN  IF c.cursor_x = 0 /\ c.cursor_y = 0 THEN c
        ELSE set_cell(m, m.cursor_y, m.cursor_x, EMPTY)

backspace(c) ==
    CASE c.cursor_x = 0 /\ c.cursor_y = 0 -> c
      [] c.cursor_x = 0 /\ c.cursor_y > 0 ->
            Stamp([c EXCEPT !.cursor_y = @ - 1,
                            !.cursor_x = IF COLUMNS = 0 THEN 0 ELSE COLUMNS - 1], EMPTY)
      [] c.cursor_x > 0 -> Stamp([c EXCEPT !.cursor_x = @ - 1], EMPTY)

put_char(c, ch) ==
    CASE ch = "LF" -> newline(c)
      [] ch = "CR" -> [c EXCEPT !.cursor_x = 0]
      [] ch = "TAB" -> tab(c)
      [] ch = "BS" -> backspace(c)
      [] ch \in Printable -> write_cell(c, ch)
      [] ch = "other" -> c

receive_key_unguarded(c, key) ==    \* a fault: no cursor_x > 2
    CASE key = "enter" -> [put_char(c, "LF") EXCEPT !.line_ready = TRUE]
      [] key = "backspace" ->
            IF Len(c.input) > 0 THEN put_char([c EXCEPT !.input = SubSeq(@, 1, Len(@) - 1)], "BS")
            ELSE put_char(c, "BS")
      [] key \in Printable ->
            IF Len(c.input) < INPUT_SIZE THEN put_char([c EXCEPT !.input = Append(@, key)], key)
            ELSE c
      [] key = "other" -> c

\* Console::receive_key.  input is input[..input_len].
receive_key(c, key) ==
    CASE key = "enter" -> [put_char(c, "LF") EXCEPT !.line_ready = TRUE]
      [] key = "backspace" ->
            IF Len(c.input) > 0 /\ c.cursor_x > 2
            THEN put_char([c EXCEPT !.input = SubSeq(@, 1, Len(@) - 1)], "BS") ELSE c
      [] key \in Printable ->
            IF Len(c.input) < INPUT_SIZE
            THEN put_char([c EXCEPT !.input = Append(@, key)], key) ELSE c
      [] key = "other" -> c

\* The state read_line leaves; the line it returns is the input.
read_line(c) == [c EXCEPT !.input = <<>>, !.line_ready = FALSE]

Prompt(c) == put_char(put_char(c, ">"), " ")

\* The kernel has called console::clear and printed its prompt; the banner in
\* between (main.rs:131) is left out.
Booted ==
    Prompt(clear([cursor_x |-> 0, cursor_y |-> 0, foreground |-> WHITE, background |-> BLACK,
                  cells |-> Uniform(EMPTY, MAX_ROWS),
                  screen |-> Uniform(Cell(" ", WHITE, BLACK), ROWS),
                  input |-> <<>>, line_ready |-> FALSE]))

================================================================================
