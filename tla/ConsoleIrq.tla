------------------------------- MODULE ConsoleIrq ------------------------------
(***************************************************************************)
(* The console while the kernel still boots: kinit and kernel print from   *)
(* the main thread with interrupts enabled (main.rs:110-142), and the      *)
(* keyboard handler uses the same Console (int.rs:394).  with_console      *)
(* takes no lock, so the handler runs between any two steps of a print.    *)
(*                                                                         *)
(* The main thread's put_char is broken into the accesses of the shared    *)
(* fields; the handler runs with interrupts off and is one step.           *)
(***************************************************************************)
EXTENDS Terminal

CONSTANTS BootText,           \* what the kernel prints while it boots: characters, and the
                              \* steps of write_fmt_color around those in green
          GREEN,
          MAX_KEYS            \* bound: keys pressed meanwhile

\* The steps of write_fmt_color come in order and do not nest: a marker i of
\* BootText is inside a coloured print when a "save" before it is not undone.
Coloured(i) ==
    \E j \in 1 .. i - 1 : BootText[j] = "save" /\ \A k \in j + 1 .. i - 1 : BootText[k] # "restore"

\* write_cell and newline return at once on a console without columns or rows,
\* which is left out here.
ASSUME BootAssumption ==
    /\ MAX_KEYS \in Nat /\ GREEN \in Colors
    /\ COLUMNS > 0 /\ ROWS > 0
    /\ BootText \in Seq(Printable \cup {"LF", "save", "color", "restore"})
    /\ \A i \in 1 .. Len(BootText) :
          /\ BootText[i] = "save" => ~Coloured(i)
          /\ BootText[i] \in {"color", "restore"} => Coloured(i)

VARIABLES
    text,     \* what the main thread has still to print
    todo,     \* steps left of its put_char
    spot,     \* the character of write_cell, and the row and column it has read
    reg,      \* a cursor coordinate loaded to be incremented
    keys,     \* keys that may still be pressed
    old_color,  \* of write_fmt_color, or "none"
    chosen,   \* ghost: the last colour chosen while nothing was printed in green
    hit       \* ghost: the handler ran since the put_char began

bootVars == <<con, text, todo, spot, reg, keys, old_color, chosen, hit>>

BootInit ==
    /\ con = Booted
    /\ text = BootText /\ todo = <<>> /\ spot = [ch |-> " ", row |-> 0, col |-> 0] /\ reg = 0
    /\ keys = MAX_KEYS /\ old_color = "none" /\ chosen = WHITE /\ hit = FALSE

\* The steps of newline, and of write_cell around them.
NewlineSteps == <<"column0", "test">>
CellSteps == <<"wrap", "pick", "set", "render", "loadx", "storex", "wrap">>

NextChar ==
    /\ todo = <<>> /\ text # <<>> /\ Head(text) \notin {"save", "color", "restore"}
    /\ text' = Tail(text)
    /\ todo' = IF Head(text) = "LF" THEN NewlineSteps ELSE CellSteps
    /\ spot' = [spot EXCEPT !.ch = Head(text)]
    /\ hit' = FALSE
    /\ UNCHANGED <<con, reg, keys, old_color, chosen>>

Between(name) ==
    /\ todo = <<>> /\ text # <<>> /\ Head(text) = name /\ text' = Tail(text)
    /\ UNCHANGED <<todo, spot, reg, keys, chosen, hit>>

\* let old_color = console.foreground
SaveColor ==
    /\ Between("save")
    /\ old_color' = con.foreground
    /\ UNCHANGED con

SetColor ==
    /\ Between("color")
    /\ con' = [con EXCEPT !.foreground = GREEN]
    /\ UNCHANGED old_color

RestoreColor_default ==         \* a fault: white, whatever the colour was
    /\ Between("restore")
    /\ con' = [con EXCEPT !.foreground = WHITE]
    /\ old_color' = "none"

RestoreColor ==
    /\ Between("restore")
    /\ con' = [con EXCEPT !.foreground = old_color]
    /\ old_color' = "none"

\* Head(todo) is name; it is replaced by more.
At(name, more) ==
    /\ todo # <<>> /\ Head(todo) = name /\ todo' = more \o Tail(todo)
    /\ UNCHANGED <<text, keys, old_color, chosen, hit>>

WrapTest_never ==               \* a fault: the right edge is not tested
    /\ At("wrap", <<>>)
    /\ UNCHANGED <<con, spot, reg>>

\* if self.cursor_x >= self.columns { self.newline() }
WrapTest ==
    /\ At("wrap", IF con.cursor_x >= COLUMNS THEN NewlineSteps ELSE <<>>)
    /\ UNCHANGED <<con, spot, reg>>

\* let row = self.cursor_y; let column = self.cursor_x
Pick ==
    /\ At("pick", <<>>)
    /\ spot' = [spot EXCEPT !.row = con.cursor_y, !.col = con.cursor_x]
    /\ UNCHANGED <<con, reg>>

SetCell ==
    /\ At("set", <<>>)
    /\ con' = set_cell(con, spot.row, spot.col,
                         Cell(spot.ch, con.foreground, con.background))
    /\ UNCHANGED <<spot, reg>>

RenderCell ==
    /\ At("render", <<>>)
    /\ con' = render_cell(con, spot.row, spot.col)
    /\ UNCHANGED <<spot, reg>>

\* self.cursor_x += 1 is a load and a store.
AdvanceLoad ==
    /\ At("loadx", <<>>)
    /\ reg' = con.cursor_x + 1
    /\ UNCHANGED <<con, spot>>

Advance ==
    /\ At("storex", <<>>)
    /\ con' = [con EXCEPT !.cursor_x = reg]
    /\ UNCHANGED <<spot, reg>>

Column0 ==
    /\ At("column0", <<>>)
    /\ con' = [con EXCEPT !.cursor_x = 0]
    /\ UNCHANGED <<spot, reg>>

RowTest_late ==                 \* a fault: an off-by-one at the last row
    /\ At("test", IF con.cursor_y < ROWS THEN <<"loady", "storey">> ELSE <<"pixels", "cells">>)
    /\ UNCHANGED <<con, spot, reg>>

\* if self.cursor_y + 1 < self.rows, then cursor_y += 1 or scroll
RowTest ==
    /\ At("test", IF con.cursor_y + 1 < ROWS THEN <<"loady", "storey">> ELSE <<"pixels", "cells">>)
    /\ UNCHANGED <<con, spot, reg>>

DownLoad ==
    /\ At("loady", <<>>)
    /\ reg' = con.cursor_y + 1
    /\ UNCHANGED <<con, spot>>

Down ==
    /\ At("storey", <<>>)
    /\ con' = [con EXCEPT !.cursor_y = reg]
    /\ UNCHANGED <<spot, reg>>

\* fb::scroll_up, and then the rest of scroll.
ScrollPixels ==
    /\ At("pixels", <<>>)
    /\ con' = [con EXCEPT !.screen = scroll(con).screen]
    /\ UNCHANGED <<spot, reg>>

ScrollCells ==
    /\ At("cells", <<>>)
    /\ con' = [scroll(con) EXCEPT !.screen = con.screen]
    /\ UNCHANGED <<spot, reg>>

Blank(c) == \A i \in 1..Len(c.input) : c.input[i] = " "

\* The handler for Enter: the line feed; the command of a line that is not
\* blank, which may print a line (its text is left out) or clear; a prompt.
AfterEnter(c) ==
    LET r == read_line(receive_key(c, "enter"))
    IN  IF Blank(c) THEN {Prompt(r)} ELSE {Prompt(r), Prompt(newline(r)), Prompt(clear(r))}

\* ... and for the command setfg, which clears the console.
AfterSetFg(c, color) ==
    Prompt(clear([read_line(receive_key(c, "enter")) EXCEPT !.foreground = color]))

KeyboardIrq ==
    /\ keys > 0 /\ keys' = keys - 1
    /\ \/ con' \in AfterEnter(con) /\ UNCHANGED chosen
       \/ \E key \in Keys \ {"enter"} : con' = receive_key(con, key) /\ UNCHANGED chosen
       \/ \E color \in Colors :
            /\ ~Blank(con)
            /\ con' = AfterSetFg(con, color)
            /\ chosen' = IF old_color = "none" THEN color ELSE chosen
    /\ hit' = TRUE
    /\ UNCHANGED <<text, todo, spot, reg, old_color>>

\* The main thread has printed everything and sleeps in hlt.
Asleep == text = <<>> /\ todo = <<>> /\ UNCHANGED bootVars

Main ==
    \/ NextChar \/ WrapTest \/ Pick \/ SetCell \/ RenderCell \/ AdvanceLoad \/ Advance
    \/ SaveColor \/ SetColor \/ RestoreColor \/ Column0 \/ RowTest \/ DownLoad \/ Down \/ ScrollPixels \/ ScrollCells

BootNext == Main \/ KeyboardIrq \/ Asleep
BootSpec == BootInit /\ [][BootNext]_bootVars

--------------------------------------------------------------------------------
\* Whatever the handler interrupts, the cursor is at most one step off the
\* console, so a write goes at most one row past it.
CursorNearby == con.cursor_x \in 0..COLUMNS /\ con.cursor_y \in 0..ROWS

\* A colour chosen while the kernel prints stays, and boot's green does not:
\* write_fmt_color puts back the colour it has found, also when commands ran in
\* between.  Only a colour chosen during the coloured print itself is undone.
ColorKept == old_color = "none" => con.foreground = chosen

\* A line feed that no key interrupts puts a cursor that had escaped back on
\* the console: the damage of the race does not outlive the line.
NewlineRecovers ==
    [][ todo # <<>> /\ todo' = <<>> /\ ~hit' /\ Head(todo) \in {"storey", "cells"}
            => con'.cursor_y < ROWS ]_bootVars

\* "cursor escaped console after long output" (console.rs:2365): the test that
\* must never report it, asked of every moment between two prints.
CursorInside == todo = <<>> => con.cursor_y < ROWS /\ con.cursor_x < COLUMNS

================================================================================
