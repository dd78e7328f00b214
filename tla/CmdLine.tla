------------------------------- MODULE CmdLine -------------------------------
(***************************************************************************)
(* CommandLineToArgvA: a command line is cut into words at white space;    *)
(* quotes hold a word together and are dropped.  The words are copied, one *)
(* character at a time, into one block that was allocated for the worst    *)
(* case before any of them was seen.                                       *)
(*                                                                         *)
(* A character is a string.  It may stand for several that the program     *)
(* treats alike: it is a blank, a quote, the end of a word, or text.       *)
(***************************************************************************)
EXTENDS Sequences, Order

Quote  == "\""
Blanks == {" ", "\t", "\n", "\r"}
Nul    == "NUL"  \* the byte that ends a word

VARIABLES
  line,      \* CmdLine, without its last byte
  scan,      \* "idle", "scan", "done"
  i,         \* characters read
  in_QM, in_TEXT, in_SPACE,
  argv,      \* where each word begins in the text area
  text       \* the text area, _argv[0 .. j - 1]

tokens == <<line, scan, i, in_QM, in_TEXT, in_SPACE, argv, text>>
flags  == <<in_QM, in_TEXT, in_SPACE>>

\* The block: room for (len + 2) / 2 + 1 pointers, then for len + 2 bytes.
ArgvRoom == (Len(line) + 2) \div 2 + 1
TextRoom == Len(line) + 2

NoLine ==
  /\ scan = "idle"
  /\ line = <<>> /\ i = 0
  /\ in_QM = FALSE /\ in_TEXT = FALSE /\ in_SPACE = TRUE
  /\ argv = <<>> /\ text = <<>>

\* A call for command line l.
StartLine(l) ==
  /\ scan = "idle"
  /\ line' = l
  /\ scan' = "scan"
  /\ UNCHANGED <<i, flags, argv, text>>

-----------------------------------------------------------------------------
Reading(a) == scan = "scan" /\ i < Len(line) /\ line[i + 1] = a

\* The next character is dealt with.
ReadOn == i' = i + 1 /\ UNCHANGED <<line, scan>>

WordBeginsAlways == argv' = Append(argv, Len(text))

\* The character is the first of a word, unless one has begun.
WordBegins == argv' = IF in_SPACE THEN Append(argv, Len(text)) ELSE argv

QuotedCharacter(a) ==
  /\ Reading(a) /\ in_QM /\ a # Quote
  /\ text' = Append(text, a)
  /\ ReadOn
  /\ UNCHANGED <<flags, argv>>

CloseQuoteEndingWord ==
  /\ Reading(Quote) /\ in_QM
  /\ in_QM' = FALSE /\ in_SPACE' = TRUE
  /\ ReadOn
  /\ UNCHANGED <<in_TEXT, argv, text>>

CloseQuote ==
  /\ Reading(Quote) /\ in_QM
  /\ in_QM' = FALSE
  /\ ReadOn
  /\ UNCHANGED <<in_TEXT, in_SPACE, argv, text>>

OpenQuote ==
  /\ Reading(Quote) /\ ~in_QM
  /\ in_QM' = TRUE /\ in_TEXT' = TRUE /\ in_SPACE' = FALSE
  /\ WordBegins
  /\ ReadOn
  /\ UNCHANGED text

\* White space ends a word, if there is one.
Blank(a) ==
  /\ Reading(a) /\ ~in_QM /\ a \in Blanks
  /\ text' = IF in_TEXT THEN Append(text, Nul) ELSE text
  /\ in_TEXT' = FALSE /\ in_SPACE' = TRUE
  /\ ReadOn
  /\ UNCHANGED <<in_QM, argv>>

Character(a) ==
  /\ Reading(a) /\ ~in_QM /\ a \notin Blanks \cup {Quote}
  /\ in_TEXT' = TRUE /\ in_SPACE' = FALSE
  /\ WordBegins
  /\ text' = Append(text, a)
  /\ ReadOn
  /\ UNCHANGED in_QM

\* The end of the line: the last word is ended, and argv[argc] set to NULL.
EndOfLine ==
  /\ scan = "scan" /\ i = Len(line)
  /\ text' = Append(text, Nul)
  /\ scan' = "done"
  /\ UNCHANGED <<line, i, flags, argv>>

ScanStep ==
  \/ \E a \in {line[k] : k \in DOMAIN line} :
       QuotedCharacter(a) \/ Blank(a) \/ Character(a)
  \/ CloseQuote \/ OpenQuote
  \/ EndOfLine

\* The word that begins at place k of the text area: up to the next Nul.
WordFrom(k) ==
  LET ends == {n \in k + 1 .. Len(text) : text[n] = Nul}
  IN  SubSeq(text, k + 1, (CHOOSE n \in ends : \A m \in ends : n <= m) - 1)

argc  == Len(argv)
Words == [n \in 1 .. argc |-> WordFrom(argv[n])]

-----------------------------------------------------------------------------
(***************************************************************************)
(* What the words of a line are, without the scan.  A character is quoted  *)
(* if an odd number of quotes stand before it; a word is a longest stretch *)
(* without a blank that is not quoted, and its quotes are not part of it.  *)
(***************************************************************************)
Quoted(l, k)    == Cardinality({n \in 1 .. k - 1 : l[n] = Quote}) % 2 = 1
Separates(l, k) == l[k] \in Blanks /\ ~Quoted(l, k)

Breaks(l) == {k \in DOMAIN l : Separates(l, k)}
Firsts(l) == {k \in DOMAIN l \ Breaks(l) : k = 1 \/ k - 1 \in Breaks(l)}

\* The end of the word that begins at f, and its characters.
LastFrom(l, f) ==
  CHOOSE k \in f .. Len(l) : f .. k \cap Breaks(l) = {} /\ (k = Len(l) \/ k + 1 \in Breaks(l))

WordAtFirst(l, f) ==
  LET places == InOrder({k \in f .. LastFrom(l, f) : l[k] # Quote})
  IN  [n \in DOMAIN places |-> l[places[n]]]

WordsOf(l) ==
  LET firsts == InOrder(Firsts(l)) IN [n \in DOMAIN firsts |-> WordAtFirst(l, firsts[n])]

-----------------------------------------------------------------------------
\* The block is large enough, whatever the line: each pointer written, the
\* NULL after the last included, and each byte, the last Nul included, lies
\* within the room computed from the length of the line alone.
BlockSuffices ==
  /\ Len(argv) + 1 <= ArgvRoom
  /\ Len(text) + (IF scan = "done" THEN 0 ELSE 1) <= TextRoom

\* The words found are the words of the line: none is cut at a quoted blank,
\* none runs into the next, and an empty pair of quotes is a word.
WordsAreTheLine == scan = "done" => Words = WordsOf(line)
=============================================================================
