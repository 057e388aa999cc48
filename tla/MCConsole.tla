----------------------------- MODULE MCConsole -----------------------------
(* A small instance of Console for TLC: a screen of two rows of three characters, *)
(* and a message buffer of four.                                                  *)
EXTENDS Console

Piece(by, arg) == [by |-> by, arg |-> arg]
Message(level, pieces) == [level |-> level, pieces |-> pieces]

\* Two lines; text after a tab; numbers; a text that just fits, one that fills the
\* buffer and is refused, one whose last conversion and one whose last character
\* overflows it.
MCMessages ==
  { Message("plain", <<Piece("ch", "a"), Piece("ch", "nl"), Piece("lx", 11)>>),
    Message("ERROR", <<Piece("ch", "tab"), Piece("ch", "c")>>),
    Message("plain", <<Piece("d", -12)>>),
    Message("OK", <<Piece("s", <<"d">>), Piece("lu", 10)>>),
    Message("plain", <<Piece("ch", "e"), Piece("s", <<"e", "e", "e">>)>>),
    Message("plain", <<Piece("lu", 100), Piece("lx", 16)>>),
    Message("plain", <<Piece("d", -127), Piece("ch", "f")>>) }

\* The conversions over all numbers of the width.
ASSUME ConversionsRight ==
  /\ \A i \in INT_MIN + 1 .. INT_MAX : itoa(i) = Decimal(i)
  /\ \A n \in 0 .. 2^INT_BITS - 1 : ul_to_str(n) = Decimal(n) /\ ui64_to_hex_str(n) = Numeral(16, n)
=============================================================================
