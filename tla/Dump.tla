--------------------------------- MODULE Dump ---------------------------------
(***************************************************************************)
(* What a text or block of memory is shown as: whether a variable view makes *)
(* it a link to the memory view (Collected.cpp), and the positions that the   *)
(* memory view colours in its hex or ASCII dump (MemoryViewCtrl.cpp).         *)
(*                                                                         *)
(* A byte is one of "zero", "print", "blank", "newline", "return", "other".   *)
(***************************************************************************)
EXTENDS Integers, SequencesExt

CONSTANT Huge   \* DDT_LUA_HUGE_STRING_LENGTH

ASSUME HugeAssumption == Huge \in Nat

Printed(c) == c \in {"print", "blank", "newline", "return"}

\* GetValDataType().
GetValDataType(bytes) ==
  IF \E i \in DOMAIN bytes : ~Printed(bytes[i]) THEN "binary"
  ELSE IF (\E i \in DOMAIN bytes : bytes[i] \in {"newline", "return"}) \/ Len(bytes) > Huge THEN "multiline"
  ELSE "ascii"
IsMemoryURL(bytes)  == GetValDataType(bytes) # "ascii"
IsBinaryData(bytes) == GetValDataType(bytes) = "binary"

-----------------------------------------------------------------------------
(* Lines of hex: an address "0x..: ", two digits and a blank for each byte,   *)
(* four blanks, and the bytes that are characters.                           *)

\* The logarithm of the size to sixteen, rounded down, and one: sizes are below 16 ^ 8.
Nybbles(n) == 1 + Cardinality({k \in 1..7 : 16 ^ k <= n + 1})
Address(n) == 2 + Nybbles(n) + 2
Spacing    == 4

\* A multiple of eight; no line at all in a view too narrow.
BytesPerLine(n, width) ==
  LET chars == width - Address(n) - Spacing IN IF chars <= 0 THEN 0 ELSE ((chars \div 4) \div 8) * 8

Fault_Pad(n, per) == per - 1 - (n % per)
\* The last line is padded for the bytes it lacks, a full one for a whole line.
Pad(n, per) == per - (n % per)

\* RefreshHexDump(): where the characters of each line begin, and which positions are
\* red, the digits of a zero, or yellow, those of the selected byte.
RefreshHexDump(bytes, width, selected) ==
  LET n        == Len(bytes)
      per      == BytesPerLine(n, width)
      lines    == IF per = 0 THEN 0 ELSE (n + per - 1) \div per
      length   == Address(n) + 3 * per + Spacing + per + 1
      Count(l) == IF l = lines - 1 THEN n - l * per ELSE per
      Chars(l) == Address(n) + 3 * (Count(l) + (IF l = lines - 1 THEN Pad(n, per) ELSE 0)) + Spacing
      Digits(i) == LET at == (i \div per) * length + Address(n) + 3 * (i % per) IN {at, at + 1}
      Drawn    == IF per = 0 THEN {} ELSE 0..(n - 1)
  IN [chars |-> [l \in 0..(lines - 1) |-> Chars(l)],
      red |-> UNION {Digits(i) : i \in {j \in Drawn : bytes[j + 1] = "zero"}},
      yellow |-> UNION {Digits(i) : i \in Drawn \cap {selected}}, grey |-> << >>]

-----------------------------------------------------------------------------
(* Text, each byte at its own position.                                     *)

\* A single position joins the last span [first, behind the last] or begins another.
Spans(spans, pos) ==
  IF spans # << >> /\ Last(spans)[2] = pos
  THEN [spans EXCEPT ![Len(spans)] = <<@[1], pos + 1>>]
  ELSE Append(spans, <<pos, pos + 1>>)

\* RefreshAsciiDump(): grey is what is no character, shown as a dot, in the order of the
\* bytes.
RefreshAsciiDump(bytes) ==
  LET spans[k \in 0..Len(bytes)] ==
        IF k = 0 THEN << >>
        ELSE IF bytes[k] \in {"print", "blank", "newline"} THEN spans[k - 1]
        ELSE Spans(spans[k - 1], k - 1)
  IN [chars |-> << >>, red |-> {}, yellow |-> {}, grey |-> spans[Len(bytes)]]

-----------------------------------------------------------------------------
\* What a dump ought to be: the characters of all lines in one column, but for a full last
\* line; each zero and the selected byte coloured; the spans are the runs of bytes
\* that are no characters, no two of them adjacent.
HexIsOf(dump, bytes, width, selected) ==
  LET n == Len(bytes)
      per == BytesPerLine(n, width)
      lines == DOMAIN dump.chars
      Full(l) == l + 1 \notin lines /\ n % per = 0
  IN /\ dump.grey = << >> /\ (lines = {} <=> n = 0 \/ per = 0)
     /\ \A l \in lines : Full(l) \/ dump.chars[l] = dump.chars[0]
     /\ lines # {} =>
          /\ Cardinality(dump.red) = 2 * Cardinality({i \in DOMAIN bytes : bytes[i] = "zero"})
          /\ Cardinality(dump.yellow) = (IF selected < n THEN 2 ELSE 0)
TextIsOf(dump, bytes) ==
  /\ dump.chars = << >> /\ dump.red = {} /\ dump.yellow = {}
  /\ UNION {s[1]..(s[2] - 1) : s \in ToSet(dump.grey)}
       = {i - 1 : i \in {j \in DOMAIN bytes : ~Printed(bytes[j]) \/ bytes[j] = "return"}}
  /\ \A k \in DOMAIN dump.grey : k > 1 => dump.grey[k - 1][2] < dump.grey[k][1]
=============================================================================
