-------------------------------- MODULE Console --------------------------------
(***************************************************************************)
(* The terminal of src/src/console.rs and the way src/src/shell.rs uses    *)
(* it, once the kernel has booted: kernel_main sleeps, and all work is     *)
(* done by the keyboard interrupt, one key at a time.                      *)
(*                                                                         *)
(* What a command line says is abstracted: a nonblank line may run any     *)
(* command, and a command is what it does to the console.                  *)
(***************************************************************************)
EXTENDS Terminal

CONSTANTS Texts,              \* what a command prints in one call
          MAX_PRINTS          \* bound: printing calls of one command

\* A command prints whole lines; the calls echo makes without a line feed, and
\* the one that ends them, count as one.
ASSUME ConsoleAssumption ==
    /\ MAX_PRINTS \in Nat
    /\ Texts \subseteq Seq(Printable \cup {"LF", "CR", "TAB", "BS", "other"})
    /\ \A text \in Texts : text # <<>> /\ text[Len(text)] = "LF"

VARIABLES
    mode,     \* where the keyboard handler is
    line,     \* the line the shell runs
    out,      \* what the printing call in progress has still to write
    saved,    \* old_color of write_fmt_color, or "none" in write_fmt
    prints    \* printing calls the command may still make

conVars == <<con, mode, line, out, saved, prints>>

--------------------------------------------------------------------------------
(* The keyboard handler: console::receive_key and shell::execute.              *)

ConInit ==
    /\ con = Booted
    /\ mode = "wait" /\ line = <<>> /\ out = <<>> /\ saved = "none" /\ prints = 0

Key ==
    /\ mode = "wait"
    /\ \E key \in Keys \ {"enter"} : con' = receive_key(con, key)
    /\ UNCHANGED <<mode, line, out, saved, prints>>

\* Enter: the line is echoed, taken out of the console and run.
Enter ==
    /\ mode = "wait"
    /\ line' = con.input
    /\ con' = read_line(receive_key(con, "enter"))
    /\ mode' = IF \A i \in 1..Len(con.input) : con.input[i] = " " THEN "prompt" ELSE "run"
    /\ prints' = MAX_PRINTS
    /\ UNCHANGED <<out, saved>>

\* console_print! and console_println! of a command.
WriteFmt ==
    /\ mode = "run" /\ prints > 0
    /\ \E text \in Texts : out' = text
    /\ mode' = "write" /\ saved' = "none" /\ prints' = prints - 1
    /\ UNCHANGED <<con, line>>

\* console_println_color!: the foreground is changed for one call.
WriteFmtColor ==
    /\ mode = "run" /\ prints > 0
    /\ \E text \in Texts, color \in Colors :
          out' = text /\ con' = [con EXCEPT !.foreground = color]
    /\ mode' = "write" /\ saved' = con.foreground /\ prints' = prints - 1
    /\ UNCHANGED <<line>>

PutChar_stuck ==                \* a fault: the loop does not pass an unknown byte
    /\ mode = "write" /\ out # <<>>
    /\ con' = put_char(con, Head(out))
    /\ out' = IF Head(out) = "other" THEN out ELSE Tail(out)
    /\ UNCHANGED <<mode, line, saved, prints>>

PutChar ==
    /\ mode = "write" /\ out # <<>>
    /\ con' = put_char(con, Head(out)) /\ out' = Tail(out)
    /\ UNCHANGED <<mode, line, saved, prints>>

EndWrite ==
    /\ mode = "write" /\ out = <<>>
    /\ con' = IF saved = "none" THEN con ELSE [con EXCEPT !.foreground = saved]
    /\ saved' = "none" /\ mode' = "run"
    /\ UNCHANGED <<line, out, prints>>

\* setbg and setfg with a colour they know: both clear the screen.
SetBg ==
    /\ mode = "run"
    /\ \E color \in Colors : con' = clear([con EXCEPT !.background = color])
    /\ mode' = "prompt"
    /\ UNCHANGED <<line, out, saved, prints>>

SetFg ==
    /\ mode = "run"
    /\ \E color \in Colors : con' = clear([con EXCEPT !.foreground = color])
    /\ mode' = "prompt"
    /\ UNCHANGED <<line, out, saved, prints>>

\* clear
ClearTerm ==
    /\ mode = "run"
    /\ con' = clear(con) /\ mode' = "prompt"
    /\ UNCHANGED <<line, out, saved, prints>>

\* Every other command only prints and returns.
Done ==
    /\ mode = "run" /\ mode' = "prompt"
    /\ UNCHANGED <<con, line, out, saved, prints>>

\* panic, reboot and shutdown do not return.
Halt ==
    /\ mode = "run" /\ mode' = "halted"
    /\ UNCHANGED <<con, line, out, saved, prints>>

ShowPrompt ==
    /\ mode = "prompt"
    /\ con' = Prompt(con) /\ mode' = "wait"
    /\ line' = <<>> /\ prints' = 0
    /\ UNCHANGED <<out, saved>>

Halted == mode = "halted" /\ UNCHANGED conVars

Running ==
    \/ WriteFmt \/ WriteFmtColor \/ PutChar \/ EndWrite
    \/ SetBg \/ SetFg \/ ClearTerm \/ Done \/ Halt \/ ShowPrompt

ConNext == Key \/ Enter \/ Running \/ Halted
ConSpec == ConInit /\ [][ConNext]_conVars
\* The handler keeps running; keys come or do not.
FairSpec == ConSpec /\ WF_conVars(Running)

--------------------------------------------------------------------------------
(* Properties.                                                                 *)

\* Types, and the cursor stays on the console after every character, whatever
\* wraps, scrolls or is erased ("cursor escaped console after long output" is
\* what the test at console.rs:2365 says otherwise).
ConTypeOK ==
    /\ con.cursor_x \in 0..COLUMNS-1 /\ con.cursor_y \in 0..ROWS-1
    /\ con.foreground \in Colors /\ con.background \in Colors
    /\ con.cells \in [0..MAX_ROWS-1 -> [0..COLUMNS-1 -> [character : Printable,
                        foreground : Colors, background : Colors]]]
    /\ Len(con.input) <= INPUT_SIZE
    /\ mode \in {"wait", "run", "write", "prompt", "halted"}

CellAt(i) == con.cells[i \div COLUMNS][i % COLUMNS]
Cursor == con.cursor_y * COLUMNS + con.cursor_x

\* While the console waits for a key, what stands between the prompt and the
\* cursor is the line that Enter will run, over wrapping, scrolling, erasing
\* and a full input buffer; the prompt itself is never erased.
EchoMatches ==
    mode = "wait" =>
        LET n == Len(con.input) IN
        /\ \A i \in 1..n : Cursor - i >= 0 => CellAt(Cursor - i).character = con.input[n - i + 1]
        /\ Cursor - n - 1 >= 0 => CellAt(Cursor - n - 1).character = " "
        /\ Cursor - n - 2 >= 0 => CellAt(Cursor - n - 2).character = ">"
        /\ (Cursor - n) % COLUMNS = 2 % COLUMNS

Shown(r, c) == con.screen[r][c]
Visible == (0..ROWS-1) \X (0..COLUMNS-1)

\* The text on the screen is the text in the cell buffer, in its colours, at
\* every moment; and as long as the background is the default one, so is all
\* the rest of the screen.
TextSynced ==
    \A p \in Visible :
        LET cell == con.cells[p[1]][p[2]] IN
        /\ Shown(p[1], p[2]).character = cell.character
        /\ (cell.character # " " \/ con.background = BLACK) => Shown(p[1], p[2]) = Look(cell)

\* Every line that is entered is followed by a prompt, unless its command
\* stops the machine.
PromptReturns == (mode \in {"run", "write", "prompt"}) ~> (mode \in {"wait", "halted"})

================================================================================
