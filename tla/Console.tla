------------------------------ MODULE Console ------------------------------
(***************************************************************************)
(* The terminal (tty.c) and the printing functions on it (klogging.c): a   *)
(* message is formatted into a local buffer and written under kprint_lock, *)
(* character by character, into the cell buffer and the framebuffer, which *)
(* scroll together.  The conversions of numbers (stdio.c, utils.c) are     *)
(* operators.                                                              *)
(*                                                                         *)
(* A character is a name, with "nl", "tab" and " "; a tag such as "ERROR"  *)
(* is one character.  The background is the same in every call and is left *)
(* out.  kprint_lock is Spinlock.tla's lock.                               *)
(***************************************************************************)
EXTENDS Integers, Sequences, SequencesExt

CONSTANTS
  Cpus, NoCpu,
  total_rows, total_columns,    \* the framebuffer's size in characters
  TAB_WIDTH,
  KPRINTF_BUF_SIZE,
  Messages,       \* a level and the pieces of the text, see kvsprintf
  MAX_MESSAGES,   \* bound: messages printed on a cleared terminal
  INT_BITS        \* width of an int

Cells == 0 .. total_rows * total_columns - 1

ASSUME ConsoleAssumption ==
  /\ NoCpu \notin Cpus
  /\ total_rows \in Nat \ {0} /\ total_columns \in Nat \ {0} /\ TAB_WIDTH \in Nat \ {0}
  /\ KPRINTF_BUF_SIZE \in Nat \ {0} /\ MAX_MESSAGES \in Nat /\ INT_BITS \in Nat \ {0}

VARIABLES
  term,           \* the cell buffer, what the framebuffer shows, and the cursor
  fg_color,       \* terminal_fg_color
  kprint_lock,
  todo,           \* per processor: the calls of tty.c it still makes
  pc,             \* per processor: "idle", "lock", "print"
  sent,           \* the messages in the order of their locks (ghost)
  log             \* the characters put since the terminal was cleared (ghost)

vars == <<term, fg_color, kprint_lock, todo, pc, sent, log>>

-----------------------------------------------------------------------------
(* stdio.c, utils.c: numbers become characters, the lowest digit first, which *)
(* reverse_str turns round.                                                   *)

Digit(d) == <<"0", "1", "2", "3", "4", "5", "6", "7", "8", "9", "A", "B", "C", "D", "E", "F">>[d + 1]

DigitsLowFirst(base, n) ==
  LET low[m \in 0 .. n] ==
        IF m < base THEN <<Digit(m)>> ELSE <<Digit(m % base)>> \o low[m \div base]
  IN low[n]

ul_to_str(n) == Reverse(DigitsLowFirst(10, n))
ui64_to_hex_str(n) == Reverse(DigitsLowFirst(16, n))

INT_MIN == -2^(INT_BITS - 1)
INT_MAX == 2^(INT_BITS - 1) - 1

\* itoa: -i is i itself for INT_MIN; the loop ends after one remainder, -8, and the
\* character eight before '0'.
itoa(i) ==
  IF i = INT_MIN THEN <<"-", "(">>
  ELSE IF i < 0 THEN <<"-">> \o ul_to_str(-i) ELSE ul_to_str(i)

\* BUFFER_SAFE_WRITE_CH (the text of %c, %d and of the format itself) and
\* BUFFER_SAFE_WRITE_STR (all other conversions), on what is in the buffer.
OVERFLOW == <<"overflow">>
WriteChars(buf, text) ==
  IF Len(buf) + Len(text) <= KPRINTF_BUF_SIZE THEN buf \o text ELSE OVERFLOW

WriteString_Unbounded(buf, text) == buf \o text

WriteString(buf, text) ==
  IF text = <<>> \/ Len(buf) + Len(text) <= KPRINTF_BUF_SIZE - 1 THEN buf \o text ELSE OVERFLOW

\* A piece is a character of the format or a %c ("ch"), or another conversion.
kvsprintf(pieces) ==
  LET write(buf, piece) ==
        IF buf = OVERFLOW THEN buf
        ELSE CASE piece.by = "ch" -> WriteChars(buf, <<piece.arg>>)
               [] piece.by = "d" -> WriteChars(buf, itoa(piece.arg))
               [] piece.by = "s" -> WriteString(buf, piece.arg)
               [] piece.by = "lu" -> WriteString(buf, ul_to_str(piece.arg))
               [] piece.by = "lx" -> WriteString(buf, ui64_to_hex_str(piece.arg))
  IN FoldLeft(write, <<>>, pieces)

-----------------------------------------------------------------------------
(* tty.c *)

White == "white"
Blank == [ch |-> " ", fg |-> White]

\* terminal_scroll: the last row is cleared, its colours stay.
terminal_scroll_KeepsLast(b) ==
  [i \in Cells |-> IF i + total_columns \in Cells THEN b[i + total_columns] ELSE b[i]]

terminal_scroll(b) ==
  [i \in Cells |-> IF i + total_columns \in Cells THEN b[i + total_columns]
                                                  ELSE [b[i] EXCEPT !.ch = " "]]

\* terminal_newline, with terminal_render after a scroll
terminal_newline(t) ==
  IF t.row + 1 < total_rows
    THEN [t EXCEPT !.column = 0, !.row = @ + 1]
    ELSE LET b == terminal_scroll(t.buffer) IN [t EXCEPT !.column = 0, !.buffer = b, !.screen = b]

terminal_putentryat(t, c) ==
  LET index == t.row * total_columns + t.column IN
  IF t.column >= total_columns \/ t.row >= total_rows THEN t
  ELSE [t EXCEPT !.buffer[index] = c, !.screen[index] = c]

Advance(t, column) ==
  IF column >= total_columns THEN terminal_newline(t) ELSE [t EXCEPT !.column = column]

terminal_putchar(t, c) ==
  CASE c.ch = "nl" -> terminal_newline(t)
    [] c.ch = "tab" -> Advance(t, t.column + TAB_WIDTH - (t.column % TAB_WIDTH))
    [] OTHER -> Advance(terminal_putentryat(t, c), t.column + 1)

\* terminal_initialize, and later terminal_clear
Cleared ==
  LET blank == [i \in Cells |-> Blank] IN
  [buffer |-> blank, screen |-> blank, row |-> 0, column |-> 0]

-----------------------------------------------------------------------------
(* klogging.c *)

Init ==
  /\ term = Cleared /\ fg_color = White
  /\ kprint_lock = NoCpu
  /\ todo = [c \in Cpus |-> <<>>] /\ pc = [c \in Cpus |-> "idle"]
  /\ sent = <<>> /\ log = <<>>

Put(text) == [i \in DOMAIN text |-> [put |-> text[i]]]
SetColor(fg) == <<[color |-> fg]>>

\* The calls kprintf (level "plain"), KSUCCESS, KWARN and KERROR make under the lock.
Calls(m) ==
  LET buf == kvsprintf(m.pieces) IN
  IF buf = OVERFLOW THEN Put(<<"Error">>)
  ELSE IF m.level = "plain" THEN Put(buf)
  ELSE Put(<<"[">>) \o SetColor(m.level) \o Put(<<m.level>>) \o SetColor(White)
         \o Put(<<"]", " ">>) \o Put(buf)

\* A processor calls one of them.  It formats the message before it takes the lock.
kprintf(c, m) ==
  /\ pc[c] = "idle"
  /\ pc' = [pc EXCEPT ![c] = "lock"]
  /\ todo' = [todo EXCEPT ![c] = Calls(m)]
  /\ UNCHANGED <<term, fg_color, kprint_lock, sent, log>>

LockFree_Always == TRUE

LockFree == kprint_lock = NoCpu

Lock(c) ==
  /\ pc[c] = "lock" /\ LockFree
  /\ Len(sent) < MAX_MESSAGES
  /\ kprint_lock' = c
  /\ pc' = [pc EXCEPT ![c] = "print"]
  /\ sent' = Append(sent, todo[c])
  /\ UNCHANGED <<term, fg_color, todo, log>>

\* One character of terminal_write, or terminal_setcolor.
PrintStep(c) ==
  /\ pc[c] = "print" /\ todo[c] # <<>>
  /\ todo' = [todo EXCEPT ![c] = Tail(@)]
  /\ LET call == Head(todo[c]) IN
     IF "color" \in DOMAIN call
       THEN fg_color' = call.color /\ UNCHANGED <<term, log>>
       ELSE LET cell == [ch |-> call.put, fg |-> fg_color] IN
            /\ term' = terminal_putchar(term, cell)
            /\ log' = Append(log, cell)
            /\ UNCHANGED fg_color
  /\ UNCHANGED <<kprint_lock, pc, sent>>

Unlock(c) ==
  /\ pc[c] = "print" /\ todo[c] = <<>>
  /\ kprint_lock' = NoCpu
  /\ pc' = [pc EXCEPT ![c] = "idle"]
  /\ UNCHANGED <<term, fg_color, todo, sent, log>>

\* terminal_clear has no caller and takes no lock: nobody may be printing.
terminal_clear ==
  /\ kprint_lock = NoCpu /\ sent # <<>>
  /\ term' = Cleared
  /\ sent' = <<>> /\ log' = <<>>
  /\ UNCHANGED <<fg_color, kprint_lock, todo, pc>>

Next ==
  \/ \E c \in Cpus : (\E m \in Messages : kprintf(c, m)) \/ Lock(c) \/ PrintStep(c) \/ Unlock(c)
  \/ terminal_clear

Spec == Init /\ [][Next]_vars

-----------------------------------------------------------------------------
(* Properties *)

TypeOK ==
  /\ DOMAIN term.buffer = Cells /\ DOMAIN term.screen = Cells
  /\ term.row \in 0 .. total_rows - 1 /\ term.column \in 0 .. total_columns - 1
  /\ fg_color \in {White} \cup {m.level : m \in Messages}
  /\ kprint_lock \in Cpus \cup {NoCpu}
  /\ pc \in [Cpus -> {"idle", "lock", "print"}]
  /\ Len(sent) \in 0 .. MAX_MESSAGES

\* What a list of calls puts on the terminal, when the colour is white before it:
\* only the tag between the brackets is coloured.
Shown(calls) ==
  LET put(text, call) ==
        IF "color" \in DOMAIN call THEN text
        ELSE Append(text, [ch |-> call.put,
                           fg |-> IF \E m \in Messages : m.level = call.put THEN call.put ELSE White])
  IN FoldLeft(put, <<>>, calls)

\* Messages of different processors never mix, and no message is printed in the
\* colour of another: the terminal gets the messages one after the other in the
\* order of kprint_lock, the last one perhaps not to its end.
MessagesWhole ==
  LET all == FlattenSeq([i \in DOMAIN sent |-> Shown(sent[i])]) IN
  /\ IsPrefix(log, all)
  /\ kprint_lock = NoCpu => log = all /\ fg_color = White

\* The lines of a text, wrapped at the screen's width, on paper without end.
LinesOf(text) ==
  LET blanks(n) == [i \in 1 .. n |-> Blank]
      end(lines, line) ==
        IF Len(line) >= total_columns THEN lines \o <<line, <<>>>> ELSE Append(lines, line)
      write(lines, c) ==
        LET before == Front(lines)
            line == Last(lines)
        IN CASE c.ch = "nl" -> lines \o <<<<>>>>
             [] c.ch = "tab" -> end(before, line \o blanks(TAB_WIDTH - (Len(line) % TAB_WIDTH)))
             [] OTHER -> end(before, Append(line, c))
  IN FoldLeft(write, <<<<>>>>, text)

\* The framebuffer shows the last lines of all that was printed, with nothing left
\* over from lines that scrolled away, and the cell buffer agrees with it.
ScreenShowsTheEnd ==
  LET lines == LinesOf(log)
      skipped == IF Len(lines) > total_rows THEN Len(lines) - total_rows ELSE 0
      want(i) ==
        LET line == skipped + (i \div total_columns) + 1
            column == (i % total_columns) + 1
        IN IF line <= Len(lines) /\ column <= Len(lines[line]) THEN lines[line][column] ELSE Blank
      same(x, y) == x.ch = y.ch /\ (x.ch # " " => x.fg = y.fg)
  IN \A i \in Cells : same(term.screen[i], want(i)) /\ same(term.buffer[i], want(i))

\* A number in positional notation, and what the pieces of a message say.
Numeral(base, n) ==
  LET len == CHOOSE k \in 1 .. INT_BITS : n < base^k /\ (k = 1 \/ n >= base^(k - 1))
  IN [i \in 1 .. len |-> Digit((n \div base^(len - i)) % base)]
Decimal(i) == IF i < 0 THEN <<"-">> \o Numeral(10, -i) ELSE Numeral(10, i)
TextOf(m) ==
  FlattenSeq([i \in DOMAIN m.pieces |->
    LET piece == m.pieces[i] IN
    CASE piece.by = "ch" -> <<piece.arg>>
      [] piece.by = "s" -> piece.arg
      [] piece.by \in {"d", "lu"} -> Decimal(piece.arg)
      [] piece.by = "lx" -> Numeral(16, piece.arg)])

\* What kprintf, KSUCCESS, KWARN or KERROR is about to print ends with what the format
\* and its arguments say, numbers in positional notation; or it is the report of an
\* overflow, and then the text really fills the buffer.  It never overruns the buffer.
FormattingRight ==
  [][\A c \in Cpus, m \in Messages : kprintf(c, m) =>
       LET shown == Shown(todo'[c])
           text == [i \in DOMAIN shown |-> shown[i].ch]
       IN \/ IsSuffix(TextOf(m), text) /\ Len(TextOf(m)) <= KPRINTF_BUF_SIZE
          \/ text = <<"Error">> /\ Len(TextOf(m)) >= KPRINTF_BUF_SIZE]_vars

\* itoa is "Integer to ASCII": it is right for every int.
ItoaRight == \A i \in INT_MIN .. INT_MAX : itoa(i) = Decimal(i)
=============================================================================
