--------------------------- MODULE CommandsProofs ---------------------------
(***************************************************************************)
(* The command line of the four commands, whatever is typed behind their   *)
(* names: the block the words are copied to is never left, the words are   *)
(* those of the line, the options and the files those of the words, and    *)
(* the walk that is made is the one asked for and lies within the buckets  *)
(* there are.                                                              *)
(*                                                                         *)
(* The block: a word costs two characters at least, its first and the      *)
(* blank before the next, which is why half as many pointers as characters *)
(* are enough.  The invariant says so of the part that is read: twice the  *)
(* words begun are no more than the characters read, and one more while a  *)
(* word is open.                                                           *)
(*                                                                         *)
(* The parser's array is in three parts: what has been returned, up to     *)
(* m_nNextOption; what is unread, up to m_nLastArg; and the files passed   *)
(* over.  The order of the files rests on the order of all of them: the    *)
(* unread words are in the order of the command line, so are the files,    *)
(* and every file stands before every unread word on the command line.     *)
(*                                                                         *)
(* CommandInv has these two and what the phases of a command are.  On it   *)
(* rest three invariants that say what was made of the text: CopyInv, of   *)
(* the scan, where each byte copied is from; ReadInv, of the parser, that  *)
(* the words not yet read are the end of the command line and all before   *)
(* them is returned or among the files; and SaidInv, of the command, that  *)
(* it did what the options returned say.                                   *)
(***************************************************************************)
EXTENDS Commands, OrderProofs

-----------------------------------------------------------------------------
\* The cutting into words.
Characters == (STRING \ {Nul}) \cup {Name[c] : c \in CommandNames} \cup {" "}
Bytes      == Characters \cup {Nul}

TokensInv ==
  /\ line \in Seq(Characters)
  /\ scan \in {"idle", "scan", "done"}
  /\ i \in 0 .. Len(line)
  /\ in_QM \in BOOLEAN /\ in_TEXT \in BOOLEAN /\ in_SPACE \in BOOLEAN
  /\ argv \in Seq(Nat)
  /\ text \in Seq(Bytes)

AtStart == scan = "idle" => i = 0 /\ argv = <<>> /\ text = <<>> /\ in_SPACE /\ ~in_QM

WordsCostTwo == 2 * Len(argv) <= i + (IF in_SPACE THEN 0 ELSE 1)

BytesCostOne == Len(text) <= i + (IF scan = "done" THEN 1 ELSE 0)

\* Each word begins in the text; when the line is read, its Nul is there too.
WordsAreInText ==
  \A n \in DOMAIN argv : argv[n] <= Len(text) /\ (scan = "done" => argv[n] < Len(text))

\* The first character, of the command's name, begins a word.
FirstBeginsWord ==
  scan # "idle" =>
    /\ Len(line) >= 1 /\ line[1] \notin Blanks \cup {Quote}
    /\ i = 0 => scan = "scan" /\ in_SPACE /\ ~in_QM
    /\ i > 0 => Len(argv) >= 1

CutInv == TokensInv /\ AtStart /\ WordsCostTwo /\ BytesCostOne /\ WordsAreInText /\ FirstBeginsWord

LEMMA NoLineInv == NoLine => CutInv
<1> SUFFICES ASSUME NoLine PROVE CutInv
  OBVIOUS
<1>1. in_QM \in BOOLEAN /\ in_TEXT \in BOOLEAN /\ in_SPACE \in BOOLEAN /\ in_SPACE /\ ~in_QM
  BY Zenon DEF NoLine
<1>2. line = <<>> /\ i = 0 /\ argv = <<>> /\ text = <<>> /\ scan = "idle"
  BY DEF NoLine
<1> QED
  BY <1>1, <1>2 DEF CutInv, TokensInv, AtStart, WordsCostTwo, BytesCostOne, WordsAreInText,
                    FirstBeginsWord

\* A line is given: nothing of it is read.
LEMMA StartLineInv ==
  ASSUME CutInv, NEW l \in Seq(Characters), Len(l) >= 1, l[1] \notin Blanks \cup {Quote}, StartLine(l)
  PROVE  CutInv'
  BY DEF CutInv, TokensInv, AtStart, WordsCostTwo, BytesCostOne, WordsAreInText, FirstBeginsWord,
         StartLine, flags

\* The flags, which only Boolean values are assigned to.
LEMMA FlagsAreBoolean ==
  ASSUME TokensInv, ScanStep
  PROVE  in_QM' \in BOOLEAN /\ in_TEXT' \in BOOLEAN /\ in_SPACE' \in BOOLEAN
<1>1. in_QM \in BOOLEAN /\ in_TEXT \in BOOLEAN /\ in_SPACE \in BOOLEAN
  BY Zenon DEF TokensInv
<1>2. ASSUME NEW a, QuotedCharacter(a) \/ Blank(a) \/ Character(a)
      PROVE  in_QM' \in BOOLEAN /\ in_TEXT' \in BOOLEAN /\ in_SPACE' \in BOOLEAN
  BY <1>1, <1>2, Zenon DEF QuotedCharacter, Blank, Character, flags
<1>3. ASSUME CloseQuote \/ OpenQuote \/ EndOfLine
      PROVE  in_QM' \in BOOLEAN /\ in_TEXT' \in BOOLEAN /\ in_SPACE' \in BOOLEAN
  BY <1>1, <1>3, Zenon DEF CloseQuote, OpenQuote, EndOfLine, flags
<1> QED
  BY <1>2, <1>3 DEF ScanStep

\* What is read is a character of the line.
LEMMA ReadingType ==
  ASSUME TokensInv, NEW a, Reading(a)
  PROVE  a \in Characters /\ i + 1 \in 0 .. Len(line)
  BY DEF TokensInv, Reading

\* What is read of the line: a character more, which is appended to the text
\* (a Nul for a blank that ends a word) or dropped.
TextGrows(a) == text' = text \/ text' = Append(text, a) \/ text' = Append(text, Nul)

ArgvGrows ==
  \/ argv' = argv /\ i # 0 /\ (in_SPACE' \/ ~in_SPACE)
  \/ argv' = Append(argv, Len(text)) /\ in_SPACE /\ ~in_SPACE'

LEMMA ReadOnInv ==
  ASSUME CutInv, NEW a, Reading(a), ReadOn,
         in_QM' \in BOOLEAN /\ in_TEXT' \in BOOLEAN /\ in_SPACE' \in BOOLEAN,
         TextGrows(a), ArgvGrows
  PROVE  CutInv'
<1>1. a \in Characters /\ i + 1 \in 0 .. Len(line) /\ i' = i + 1 /\ line' = line
      /\ scan' = scan /\ scan = "scan"
  BY ReadingType DEF CutInv, Reading, ReadOn
<1>2. /\ argv \in Seq(Nat) /\ text \in Seq(Bytes) /\ a \in Bytes /\ Nul \in Bytes /\ i \in Nat
      /\ \A n \in DOMAIN argv : argv[n] <= Len(text)
  BY <1>1 DEF Bytes, CutInv, TokensInv, WordsAreInText
<1>3. text' \in Seq(Bytes) /\ Len(text') \in Len(text) .. Len(text) + 1
  <2>1. \A x \in Bytes : Append(text, x) \in Seq(Bytes) /\ Len(Append(text, x)) = Len(text) + 1
    BY <1>2
  <2>2. text' = text \/ \E x \in Bytes : text' = Append(text, x)
    BY <1>2, Zenon DEF TextGrows
  <2> QED
    BY <1>2, <2>1, <2>2
<1>4. argv' \in Seq(Nat) /\ (i # 0 \/ Len(argv') >= 1)
  <2>1. PICK x : x = Append(argv, Len(text))
    OBVIOUS
  <2>2. x \in Seq(Nat) /\ Len(x) = Len(argv) + 1
    BY <1>2, <2>1
  <2>3. (argv' = argv /\ i # 0) \/ argv' = x
    BY <2>1, Zenon DEF ArgvGrows
  <2> QED
    BY <1>2, <2>2, <2>3
<1>5. WordsCostTwo'
  <2>1. 2 * Len(argv) <= i + (IF in_SPACE THEN 0 ELSE 1)
    BY DEF CutInv, WordsCostTwo
  <2>2. CASE argv' = argv /\ (in_SPACE' \/ ~in_SPACE)
    BY <1>1, <1>2, <2>1, <2>2 DEF WordsCostTwo
  <2>3. CASE argv' = Append(argv, Len(text)) /\ in_SPACE /\ ~in_SPACE'
    <3>1. Len(argv') = Len(argv) + 1
      BY <1>2, <2>3
    <3> QED
      BY <1>1, <1>2, <2>1, <2>3, <3>1 DEF WordsCostTwo
  <2> QED
    BY <2>2, <2>3, Zenon DEF ArgvGrows
<1>6. WordsAreInText'
  <2>1. argv' = argv \/ argv' = Append(argv, Len(text))
    BY Zenon DEF ArgvGrows
  <2>2. \A n \in DOMAIN argv' : argv'[n] <= Len(text)
    BY <1>2, <2>1
  <2> QED
    BY <1>1, <1>2, <1>3, <1>4, <2>2 DEF WordsAreInText
<1>7. FirstBeginsWord'
  <2>1. i # 0 => Len(argv') >= 1
    <3>1. i # 0 => Len(argv) >= 1
      BY <1>1, <1>2 DEF CutInv, FirstBeginsWord
    <3>2. argv' = argv \/ argv' = Append(argv, Len(text))
      BY Zenon DEF ArgvGrows
    <3> QED
      BY <1>2, <3>1, <3>2
  <2> QED
    BY <1>1, <1>2, <1>4, <2>1 DEF CutInv, FirstBeginsWord
<1> QED
  BY <1>1, <1>3, <1>4, <1>5, <1>6, <1>7 DEF CutInv, TokensInv, AtStart, BytesCostOne

LEMMA ScanStepInv == CutInv /\ ScanStep => CutInv'
<1> SUFFICES ASSUME CutInv, ScanStep PROVE CutInv'
  OBVIOUS
<1>0. in_QM' \in BOOLEAN /\ in_TEXT' \in BOOLEAN /\ in_SPACE' \in BOOLEAN
  BY FlagsAreBoolean DEF CutInv
\* At the first character no quote is open and it is none itself.
<1>10. /\ i = 0 /\ scan = "scan" => in_SPACE /\ ~in_QM
       /\ ~Reading(Quote) \/ i # 0
       /\ \A a \in Blanks : ~Reading(a) \/ i # 0
  BY DEF CutInv, FirstBeginsWord, Reading
<1>1. ASSUME NEW a, QuotedCharacter(a) PROVE CutInv'
  <2>1. Reading(a) /\ ReadOn /\ text' = Append(text, a) /\ argv' = argv /\ scan = "scan"
    BY <1>1 DEF QuotedCharacter, Reading
  <2>2. i # 0 /\ in_SPACE' = in_SPACE
    BY <1>1, <1>10, <2>1, Zenon DEF QuotedCharacter, flags
  <2> QED
    BY <1>0, <2>1, <2>2, ReadOnInv, Zenon DEF TextGrows, ArgvGrows
<1>2. CASE CloseQuote
  <2>1. Reading(Quote) /\ ReadOn /\ text' = text /\ argv' = argv
    BY <1>2 DEF CloseQuote
  <2>2. i # 0 /\ in_SPACE' = in_SPACE
    BY <1>2, <1>10, <2>1, Zenon DEF CloseQuote
  <2> QED
    BY <1>0, <2>1, <2>2, ReadOnInv, Zenon DEF TextGrows, ArgvGrows
<1>3. CASE OpenQuote
  <2>1. Reading(Quote) /\ ReadOn /\ text' = text
    BY <1>3 DEF OpenQuote
  <2>2. /\ ~in_SPACE' /\ i # 0
        /\ (argv' = argv /\ ~in_SPACE) \/ (argv' = Append(argv, Len(text)) /\ in_SPACE)
    BY <1>3, <1>10, <2>1, Zenon DEF OpenQuote, WordBegins
  <2> QED
    BY <1>0, <2>1, <2>2, ReadOnInv, Zenon DEF TextGrows, ArgvGrows
<1>4. ASSUME NEW a, Blank(a) PROVE CutInv'
  <2>1. Reading(a) /\ ReadOn /\ argv' = argv /\ (text' = text \/ text' = Append(text, Nul))
    BY <1>4 DEF Blank
  <2>2. i # 0 /\ in_SPACE'
    BY <1>4, <1>10, Zenon DEF Blank
  <2> QED
    BY <1>0, <2>1, <2>2, ReadOnInv, Zenon DEF TextGrows, ArgvGrows
<1>5. ASSUME NEW a, Character(a) PROVE CutInv'
  <2>1. Reading(a) /\ ReadOn /\ text' = Append(text, a) /\ scan = "scan"
    BY <1>5 DEF Character, Reading
  <2>2. /\ ~in_SPACE'
        /\ (argv' = argv /\ ~in_SPACE /\ i # 0) \/ (argv' = Append(argv, Len(text)) /\ in_SPACE)
    BY <1>5, <1>10, <2>1, Zenon DEF Character, WordBegins
  <2> QED
    BY <1>0, <2>1, <2>2, ReadOnInv, Zenon DEF TextGrows, ArgvGrows
<1>6. CASE EndOfLine
  <2>1. line' = line /\ scan' = "done" /\ scan = "scan" /\ i' = i /\ argv' = argv /\ i = Len(line)
        /\ text' = Append(text, Nul) /\ in_SPACE' = in_SPACE
    BY <1>6 DEF EndOfLine, flags
  <2>2. WordsAreInText' /\ FirstBeginsWord'
    BY <2>1 DEF Bytes, CutInv, TokensInv, WordsAreInText, FirstBeginsWord
  <2> QED
    BY <1>0, <2>1, <2>2 DEF Bytes, CutInv, TokensInv, AtStart, WordsCostTwo, BytesCostOne
<1> QED
  BY <1>1, <1>2, <1>3, <1>4, <1>5, <1>6 DEF ScanStep

-----------------------------------------------------------------------------
\* The taking of options.
ArrayInv ==
  /\ Len(words) \in Nat
  /\ parse \in {"idle", "next", "end"}
  /\ parse = "idle" => Len(words) = 0 /\ m_nLastArg = 0 /\ m_nNextOption = 1 /\ m_argv = <<>>
  /\ parse # "idle" =>
       /\ m_nLastArg \in 1 .. Len(words)
       /\ m_nNextOption \in 1 .. m_nLastArg
       /\ m_argv \in [Places -> Places]

UnreadInOrder == \A p, q \in Unread : p < q => m_argv[p] < m_argv[q]

FilesBeforeUnread ==
  \A p \in m_nLastArg .. m_argc - 1, q \in Unread : m_argv[p] < m_argv[q]

InOrderInv == parse # "idle" => UnreadInOrder /\ FilesKeepOrder /\ FilesBeforeUnread

ParseInv == ArrayInv /\ InOrderInv

-----------------------------------------------------------------------------
LEMMA NoArgumentsInv == NoArguments => ParseInv
  BY DEF NoArguments, ParseInv, ArrayInv, InOrderInv

LEMMA InitParserInv ==
  ASSUME NEW ws, Len(ws) \in Nat \ {0}, NEW os, InitParser(ws, os)
  PROVE  ParseInv'
<1>2. words' = ws /\ m_nNextOption' = 1 /\ m_nLastArg' = Len(ws) /\ parse' = "next"
      /\ m_argv' = [p \in 0 .. Len(ws) - 1 |-> p]
  BY DEF InitParser
<1> QED
  BY <1>2 DEF ParseInv, ArrayInv, InOrderInv, UnreadInOrder, FilesKeepOrder, FilesBeforeUnread,
                    Unread, Places, m_argc

\* The array after a shuffle of the first unread words, as they are read from
\* it: the tail, then the words.
LEMMA ShuffledIs ==
  ASSUME ArrayInv, parse # "idle",
         NEW count \in 0 .. m_nLastArg - m_nNextOption
  PROVE  LET a == Shuffled(m_nNextOption, count)
         IN  /\ a \in [Places -> Places]
             /\ \A p \in m_nNextOption .. m_argc - count - 1 : a[p] = m_argv[p + count]
             /\ \A p \in m_argc - count .. m_argc - 1 :
                  a[p] = m_argv[p - (m_argc - m_nNextOption - count)]
<1> DEFINE n == m_argc - m_nNextOption - count
           a == Shuffled(m_nNextOption, count)
<1>1. /\ m_argc \in Nat /\ m_nLastArg \in 1 .. m_argc /\ m_nNextOption \in 1 .. m_nLastArg
      /\ m_argv \in [Places -> Places] /\ n \in Nat
  BY DEF ArrayInv, m_argc
<1>2. a = [p \in Places |-> IF p < m_nNextOption THEN m_argv[p]
                            ELSE IF p < m_nNextOption + n THEN m_argv[p + count]
                            ELSE m_argv[p - n]]
  BY DEF Shuffled
<1>3. ASSUME NEW p \in Places PROVE a[p] \in Places
  <2>1. CASE p < m_nNextOption
    BY <1>1, <1>2, <2>1
  <2>2. CASE p >= m_nNextOption /\ p < m_nNextOption + n
    <3>1. p + count \in Places
      BY <1>1, <2>2 DEF Places
    <3>2. a[p] = m_argv[p + count]
      BY <1>1, <1>2, <2>2 DEF Places
    <3> QED
      BY <1>1, <3>1, <3>2
  <2>3. CASE p >= m_nNextOption + n
    <3>1. p - n \in Places
      BY <1>1, <2>3 DEF Places
    <3>2. a[p] = m_argv[p - n]
      BY <1>1, <1>2, <2>3 DEF Places
    <3> QED
      BY <1>1, <3>1, <3>2
  <2> QED
    BY <1>1, <2>1, <2>2, <2>3 DEF Places
<1>4. ASSUME NEW p \in m_nNextOption .. m_argc - count - 1 PROVE a[p] = m_argv[p + count]
  <2>1. p \in Places /\ ~(p < m_nNextOption) /\ p < m_nNextOption + n
    BY <1>1 DEF Places
  <2> QED
    BY <1>2, <2>1
<1>5. ASSUME NEW p \in m_argc - count .. m_argc - 1 PROVE a[p] = m_argv[p - n]
  <2>1. p \in Places /\ ~(p < m_nNextOption) /\ ~(p < m_nNextOption + n)
    BY <1>1 DEF Places
  <2> QED
    BY <1>2, <2>1
<1>6. a \in [Places -> Places]
  BY <1>2, <1>3
<1> QED
  BY <1>4, <1>5, <1>6

\* The words between two places.
LEMMA UnreadCardinality ==
  ASSUME m_nLastArg \in Nat, m_nNextOption \in 1 .. m_nLastArg
  PROVE  Cardinality(Unread) = m_nLastArg - m_nNextOption
<1>1. m_nNextOption \in Int /\ m_nLastArg - 1 \in Int
  OBVIOUS
<1>2. Cardinality(m_nNextOption .. m_nLastArg - 1)
      = IF m_nNextOption > m_nLastArg - 1 THEN 0 ELSE (m_nLastArg - 1) - m_nNextOption + 1
  BY <1>1, FS_Interval
<1> QED
  BY <1>2 DEF Unread

\* Moving the first unread words behind the files keeps all three orders.
LEMMA ShuffleKeepsOrder ==
  ASSUME ArrayInv, parse # "idle", InOrderInv,
         NEW count \in 0 .. m_nLastArg - m_nNextOption,
         words' = words,
         ShuffleArg(m_nNextOption, count),
         m_nNextOption' \in m_nNextOption .. m_nLastArg - count
  PROVE  /\ m_argv' \in [Places -> Places]
         /\ m_nLastArg' \in m_nNextOption' .. Len(words)
         /\ UnreadInOrder' /\ FilesKeepOrder' /\ FilesBeforeUnread'
<1> DEFINE n    == m_argc - m_nNextOption - count
           last == m_nLastArg - count
<1>1. /\ m_nLastArg \in 1 .. m_argc /\ m_nNextOption \in 1 .. m_nLastArg
      /\ m_argc \in Nat /\ m_argc' = m_argc
      /\ m_nLastArg' = last /\ last \in m_nNextOption .. m_argc
  BY DEF ArrayInv, ShuffleArg, m_argc
<1>2. m_argv' = Shuffled(m_nNextOption, count)
  BY DEF ShuffleArg
<1>3. /\ m_argv' \in [Places -> Places]
      /\ \A p \in m_nNextOption .. m_argc - count - 1 : m_argv'[p] = m_argv[p + count]
      /\ \A p \in m_argc - count .. m_argc - 1 : m_argv'[p] = m_argv[p - n]
  BY <1>2, ShuffledIs
<1>4. /\ \A p, q \in m_nNextOption .. m_nLastArg - 1 : p < q => m_argv[p] < m_argv[q]
      /\ \A p, q \in m_nLastArg .. m_argc - 1 : p < q => m_argv[p] < m_argv[q]
      /\ \A p \in m_nLastArg .. m_argc - 1, q \in m_nNextOption .. m_nLastArg - 1 :
           m_argv[p] < m_argv[q]
  BY DEF InOrderInv, UnreadInOrder, FilesKeepOrder, FilesBeforeUnread, Unread
\* A place among the words left unread.
<1>5. ASSUME NEW p \in m_nNextOption' .. last - 1
      PROVE  p + count \in m_nNextOption + count .. m_nLastArg - 1 /\ m_argv'[p] = m_argv[p + count]
  BY <1>1, <1>3
\* A place among the files: of one that was there, or of one that has come.
<1>6. ASSUME NEW p \in last .. m_argc - 1
      PROVE  \/ /\ p < m_argc - count /\ p + count \in m_nLastArg .. m_argc - 1
                /\ m_argv'[p] = m_argv[p + count]
             \/ /\ p >= m_argc - count /\ p - n \in m_nNextOption .. m_nNextOption + count - 1
                /\ m_argv'[p] = m_argv[p - n]
  <2>1. CASE p < m_argc - count
    BY <1>1, <1>3, <2>1
  <2>2. CASE p >= m_argc - count
    BY <1>1, <1>3, <2>2
  <2> QED
    BY <2>1, <2>2, <1>1
<1>7. UnreadInOrder'
  <2> SUFFICES ASSUME NEW p \in m_nNextOption' .. last - 1, NEW q \in m_nNextOption' .. last - 1, p < q
               PROVE  m_argv'[p] < m_argv'[q]
    BY <1>1 DEF UnreadInOrder, Unread
  <2> QED
    BY <1>1, <1>4, <1>5
<1>8. FilesKeepOrder'
  <2> SUFFICES ASSUME NEW p \in last .. m_argc - 1, NEW q \in last .. m_argc - 1, p < q
               PROVE  m_argv'[p] < m_argv'[q]
    BY <1>1 DEF FilesKeepOrder
  <2>1. CASE q < m_argc - count
    BY <1>1, <1>4, <1>6, <2>1
  <2>2. CASE q >= m_argc - count /\ p < m_argc - count
    BY <1>1, <1>4, <1>6, <2>2
  <2>3. CASE p >= m_argc - count
    BY <1>1, <1>4, <1>6, <2>3
  <2> QED
    BY <2>1, <2>2, <2>3, <1>1
<1>9. FilesBeforeUnread'
  <2> SUFFICES ASSUME NEW p \in last .. m_argc - 1, NEW q \in m_nNextOption' .. last - 1
               PROVE  m_argv'[p] < m_argv'[q]
    BY <1>1 DEF FilesBeforeUnread, Unread
  <2>1. CASE p < m_argc - count
    BY <1>1, <1>4, <1>5, <1>6, <2>1
  <2>2. CASE p >= m_argc - count
    BY <1>1, <1>4, <1>5, <1>6, <2>2
  <2> QED
    BY <2>1, <2>2, <1>1
<1> QED
  BY <1>1, <1>3, <1>7, <1>8, <1>9 DEF m_argc

LEMMA NoMoreOptionsInv == ParseInv /\ NoMoreOptions => ParseInv'
<1> SUFFICES ASSUME ParseInv, NoMoreOptions PROVE ParseInv'
  OBVIOUS
<1> DEFINE count == Cardinality(Unread)
<1>1. m_nLastArg \in 1 .. Len(words) /\ m_nNextOption \in 1 .. m_nLastArg /\ Len(words) \in Nat
  BY DEF ParseInv, ArrayInv, NoMoreOptions
<1>2. count = m_nLastArg - m_nNextOption
  BY <1>1, UnreadCardinality
<1>3. /\ words' = words /\ parse = "next" /\ parse' = "end"
      /\ ShuffleArg(m_nNextOption, count) /\ m_nNextOption' = m_nNextOption
  BY DEF NoMoreOptions, cmdline
<1>4. m_nNextOption' \in m_nNextOption .. m_nLastArg - count
  BY <1>1, <1>2, <1>3
<1>5. /\ m_argv' \in [Places -> Places]
      /\ m_nLastArg' \in m_nNextOption' .. Len(words)
      /\ UnreadInOrder' /\ FilesKeepOrder' /\ FilesBeforeUnread'
  <2>1. count \in 0 .. m_nLastArg - m_nNextOption
    BY <1>1, <1>2
  <2> QED
    BY <1>3, <1>4, <2>1, ShuffleKeepsOrder DEF ParseInv
<1> QED
  BY <1>1, <1>3, <1>5 DEF ParseInv, ArrayInv, InOrderInv, Places, m_argc

\* An argument is taken only of the unread words.
LEMMA ArgumentIsUnread ==
  ASSUME NEW k \in Nat, NEW last \in Nat, MultiArg(k, last) = "SO_SUCCESS"
  PROVE  k < last
  BY DEF MultiArg

LEMMA NextOptionInv ==
  ASSUME ParseInv, NEW k \in Unread, NextOption(k)
  PROVE  ParseInv'
<1> DEFINE count == k - m_nNextOption
<1>1. m_nLastArg \in 1 .. Len(words) /\ m_nNextOption \in 1 .. m_nLastArg /\ Len(words) \in Nat
  BY DEF ParseInv, ArrayInv, NextOption
<1>2. k \in m_nNextOption .. m_nLastArg - 1 /\ count \in 0 .. m_nLastArg - m_nNextOption
  BY <1>1 DEF Unread
<1>3. /\ words' = words /\ parse = "next" /\ parse' = parse
      /\ ShuffleArg(m_nNextOption, count)
      /\ m_nNextOption' = m_nNextOption + (IF option'.argAt = 0 THEN 1 ELSE 2)
  BY DEF NextOption, cmdline
<1>4. option'.argAt # 0 => k + 1 < m_nLastArg
  <2>1. PICK o \in {Read(WordAt(k))} :
          option'.argAt = IF o.wants /\ MultiArg(k + 1, m_nLastArg) = "SO_SUCCESS"
                          THEN m_argv[k + 1] ELSE 0
    BY DEF NextOption, Return
  <2>2. option'.argAt # 0 => MultiArg(k + 1, m_nLastArg) = "SO_SUCCESS"
    BY <2>1
  <2> QED
    BY <1>1, <1>2, <2>2, ArgumentIsUnread
<1>5. m_nNextOption' \in m_nNextOption .. m_nLastArg - count
  BY <1>1, <1>2, <1>3, <1>4
<1>6. /\ m_argv' \in [Places -> Places]
      /\ m_nLastArg' \in m_nNextOption' .. Len(words)
      /\ UnreadInOrder' /\ FilesKeepOrder' /\ FilesBeforeUnread'
  BY <1>2, <1>3, <1>5, ShuffleKeepsOrder DEF ParseInv
<1> QED
  BY <1>1, <1>3, <1>5, <1>6 DEF ParseInv, ArrayInv, InOrderInv, Places, m_argc

\* A shuffle moves no more words than there are, and the buffer in the object
\* is used only if it has room for that many, or for want of another.
BufferInv ==
  /\ shuffled \in 0 .. m_argc
  /\ m_rgShuffleBuf \in {"allocated", "failed"} \/ m_argc <= StaticBuf

LEMMA ShuffledBounded ==
  ASSUME shuffled \in 0 .. m_argc, m_argc \in Nat, NEW start, NEW count \in 0 .. m_argc,
         ShuffleArg(start, count)
  PROVE  shuffled' \in 0 .. m_argc
  BY DEF ShuffleArg

LEMMA NoArgumentsBuffer == NoArguments => BufferInv
  BY CommandsAssumption DEF NoArguments, BufferInv, m_argc

LEMMA InitParserBuffer ==
  ASSUME ParseInv, BufferInv, NEW ws, Len(ws) \in Nat \ {0}, NEW os, InitParser(ws, os)
  PROVE  BufferInv'
<1>1. parse = "idle" /\ Len(words) = 0
  BY DEF InitParser, ParseInv, ArrayInv
<1>2. shuffled' = 0 /\ m_argc' = Len(ws)
  BY <1>1 DEF InitParser, BufferInv, m_argc
<1>3. Len(ws) <= StaticBuf \/ m_rgShuffleBuf' \in {"allocated", "failed"}
  BY CommandsAssumption DEF InitParser
<1> QED
  BY <1>2, <1>3 DEF BufferInv

LEMMA NextCallBuffer == ParseInv /\ BufferInv /\ NextCall => BufferInv'
<1> SUFFICES ASSUME ParseInv, BufferInv, NextCall PROVE BufferInv'
  OBVIOUS
<1>1. m_argc \in Nat
  BY DEF ParseInv, ArrayInv, m_argc
<1>2. CASE NoMoreOptions
  <2>1. m_nLastArg \in 1 .. m_argc /\ m_nNextOption \in 1 .. m_nLastArg
    BY <1>2 DEF ParseInv, ArrayInv, NoMoreOptions, m_argc
  <2>2. Cardinality(Unread) \in 0 .. m_argc
    BY <1>1, <2>1, UnreadCardinality
  <2>3. shuffled' \in 0 .. m_argc
    BY <1>1, <1>2, <2>2, ShuffledBounded DEF NoMoreOptions, BufferInv
  <2> QED
    BY <1>2, <2>3 DEF NoMoreOptions, cmdline, BufferInv, m_argc
<1>3. ASSUME NEW k \in Unread, NextOption(k) PROVE BufferInv'
  <2>1. m_nLastArg \in 1 .. m_argc /\ m_nNextOption \in 1 .. m_nLastArg
    BY <1>3 DEF ParseInv, ArrayInv, NextOption, m_argc
  <2>2. k - m_nNextOption \in 0 .. m_argc
    BY <1>1, <2>1 DEF Unread
  <2>3. shuffled' \in 0 .. m_argc
    BY <1>1, <1>3, <2>2, ShuffledBounded DEF NextOption, BufferInv
  <2> QED
    BY <1>3, <2>3 DEF NextOption, cmdline, BufferInv, m_argc
<1> QED
  BY <1>2, <1>3 DEF NextCall

-----------------------------------------------------------------------------
\* The command.
OptNames == {"bSummary", "bFreeList", "bLookaside", "sizeBucket", "structSize", "numBuckets",
             "bRaw", "poolTypes"}

Ulongs == 0 .. DwordLimit - 1

OptsInv ==
  /\ DOMAIN opts = OptNames
  /\ opts.sizeBucket \in Ulongs /\ opts.numBuckets \in Ulongs /\ opts.structSize \in Ulongs

\* The line is cut before its options are taken, and what is done is decided
\* when all of them are.
PhaseInv ==
  /\ pc \in {"start", "scan", "init", "parse", "handle", "check", "run", "cleanup", "done"}
  /\ command \in CommandNames /\ ctx \in Contexts
  /\ held \subseteq {"argv", "ctx"}
  /\ pc = "init" => scan = "done"
  /\ pc \notin {"cleanup", "done"} => outcome.does = "nothing"

\* A walk is within the buckets, and its bucket is the one of the size.
WalkInv == WalkStaysInside /\ (Walks => outcome.bucket = bucket)

CommandInv == CutInv /\ ParseInv /\ BufferInv /\ OptsInv /\ PhaseInv /\ WalkInv

LEMMA CommandInit == Init => CommandInv
<1> SUFFICES ASSUME Init PROVE CommandInv
  OBVIOUS
<1>1. CutInv /\ ParseInv /\ BufferInv
  BY NoLineInv, NoArgumentsInv, NoArgumentsBuffer DEF Init
<1>2. OptsInv
  BY CommandsAssumption DEF Init, OptsInv, OptNames, Ulongs, NoOpts, BUCKET_ALL
<1>3. PhaseInv /\ WalkInv
  BY DEF Init, PhaseInv, WalkInv, WalkStaysInside, Walks, Nothing
<1> QED
  BY <1>1, <1>2, <1>3 DEF CommandInv

\* What leaves the line, the parser and the options alone.
LEMMA TokensKept == CutInv /\ UNCHANGED tokens => CutInv'
  BY DEF tokens, CutInv, TokensInv, AtStart, WordsCostTwo, BytesCostOne, WordsAreInText,
         FirstBeginsWord

LEMMA ParserKept == ParseInv /\ BufferInv /\ UNCHANGED parser => ParseInv' /\ BufferInv'
  BY DEF parser, ParseInv, ArrayInv, InOrderInv, UnreadInOrder, FilesKeepOrder, FilesBeforeUnread,
         Unread, Places, m_argc, BufferInv

LEMMA OptsKept == OptsInv /\ opts' = opts => OptsInv'
  BY DEF OptsInv, Ulongs

LEMMA WalkKept ==
  ASSUME WalkInv, UNCHANGED <<ctx, opts, outcome>>
  PROVE  WalkInv'
  BY DEF WalkInv, WalkStaysInside, Walks, bucket

LEMMA NoWalk ==
  ASSUME outcome'.does \notin {"lookaside", "listHeads"}
  PROVE  WalkInv'
  BY DEF WalkInv, WalkStaysInside, Walks

-----------------------------------------------------------------------------
\* The steps up to the taking of options.
LEMMA NameBeginsWord ==
  ASSUME NEW c \in CommandNames
  PROVE  Name[c] \notin Blanks \cup {Quote}
<1>1. Name[c] \in {"!poolinfo", "!poolpage", "!poolchunk", "!poollist"}
  BY DEF CommandNames, Name
<1>2. \A n \in {"!poolinfo", "!poolpage", "!poolchunk", "!poollist"} : n \notin Blanks \cup {Quote}
  BY Zenon DEF Blanks, Quote
<1> QED
  BY <1>1, <1>2

LEMMA SeqSubset ==
  ASSUME NEW S, NEW T, S \subseteq T, NEW s \in Seq(S)
  PROVE  s \in Seq(T)
  OBVIOUS

LEMMA MakeCmdlineStep == CommandInv /\ MakeCmdline => CommandInv'
<1> SUFFICES ASSUME CommandInv, MakeCmdline PROVE CommandInv'
  OBVIOUS
<1>1. PICK l \in Lines[command] : StartLine(<<Name[command], " ">> \o l)
  BY DEF MakeCmdline
<1>2. Name[command] \notin Blanks \cup {Quote} /\ Name[command] \in Characters /\ " " \in Characters
  BY NameBeginsWord DEF CommandInv, PhaseInv, Characters
<1>3. l \in Seq(Characters)
  <2>1. l \in Seq(STRING \ {Nul})
    BY CommandsAssumption DEF CommandInv, PhaseInv
  <2>2. STRING \ {Nul} \subseteq Characters
    BY DEF Characters
  <2> HIDE DEF Characters
  <2> QED
    BY <2>1, <2>2, SeqSubset
<1>4. PICK whole : whole = <<Name[command], " ">> \o l
  OBVIOUS
<1>6. whole \in Seq(Characters) /\ Len(whole) >= 1 /\ whole[1] = Name[command]
  <2>0. PICK S, x, y : S = Characters /\ x = Name[command] /\ y = " "
    OBVIOUS
  <2>1. PICK front : front = <<x, y>>
    OBVIOUS
  <2>2. l \in Seq(S) /\ x \in S /\ y \in S
    BY <1>2, <1>3, <2>0
  <2>3. front \in Seq(S)
    BY <2>1, <2>2
  <2>4. whole = front \o l
    BY <1>4, <2>0, <2>1
  <2>5. /\ whole \in Seq(S) /\ Len(whole) = Len(front) + Len(l)
        /\ \A k \in 1 .. Len(front) : whole[k] = front[k]
    BY <2>2, <2>3, <2>4
  <2>6. Len(front) = 2 /\ front[1] = x /\ Len(l) \in Nat
    BY <2>1, <2>2
  <2>7. Len(whole) >= 1 /\ whole[1] = x
    BY <2>5, <2>6
  <2> QED
    BY <2>0, <2>5, <2>7, Zenon
<1>5. CutInv'
  BY <1>1, <1>2, <1>4, <1>6, StartLineInv DEF CommandInv
<1>7. ParseInv' /\ BufferInv' /\ OptsInv'
  BY ParserKept, OptsKept DEF CommandInv, MakeCmdline
<1>8. PhaseInv' /\ WalkInv'
  BY WalkKept DEF CommandInv, PhaseInv, MakeCmdline, called
<1> QED
  BY <1>5, <1>7, <1>8 DEF CommandInv

LEMMA ScanningStep == CommandInv /\ Scan => CommandInv'
<1> SUFFICES ASSUME CommandInv, Scan PROVE CommandInv'
  OBVIOUS
<1>1. CutInv'
  BY ScanStepInv DEF CommandInv, Scan
<1>2. ParseInv' /\ BufferInv' /\ OptsInv'
  BY ParserKept, OptsKept DEF CommandInv, Scan
<1>3. PhaseInv' /\ WalkInv'
  BY WalkKept DEF CommandInv, PhaseInv, Scan, called
<1> QED
  BY <1>1, <1>2, <1>3 DEF CommandInv

\* The line that is read has the command's name among its words.
LEMMA SomeWords ==
  ASSUME CutInv, scan = "done"
  PROVE  Len(Words) \in Nat \ {0}
<1>1. argc \in Nat \ {0}
  BY DEF CutInv, FirstBeginsWord, TokensInv, argc
<1>2. Len(Words) = argc
  BY <1>1 DEF Words
<1> QED
  BY <1>1, <1>2

LEMMA InitOptionsStep == CommandInv /\ InitOptions => CommandInv'
<1> SUFFICES ASSUME CommandInv, InitOptions PROVE CommandInv'
  OBVIOUS
<1>1. Len(Words) \in Nat \ {0}
  BY SomeWords DEF CommandInv, PhaseInv, InitOptions
<1>2. ParseInv' /\ BufferInv'
  BY <1>1, InitParserInv, InitParserBuffer DEF CommandInv, InitOptions
<1>3. CutInv' /\ OptsInv'
  BY TokensKept, OptsKept DEF CommandInv, InitOptions
<1>4. PhaseInv' /\ WalkInv'
  BY WalkKept DEF CommandInv, PhaseInv, InitOptions, called
<1> QED
  BY <1>2, <1>3, <1>4 DEF CommandInv

LEMMA OptionsStep ==
  ASSUME CommandInv, TakeOption \/ EndOfOptions
  PROVE  CommandInv'
<1>1. NextCall
  BY DEF TakeOption, EndOfOptions, NextCall
<1>2. ParseInv' /\ BufferInv'
  BY <1>1, NoMoreOptionsInv, NextOptionInv, NextCallBuffer DEF CommandInv, NextCall
<1>3. UNCHANGED <<tokens, called, opts, held, outcome>>
  BY DEF TakeOption, EndOfOptions
<1>4. CutInv' /\ OptsInv' /\ WalkInv'
  BY <1>3, TokensKept, OptsKept, WalkKept DEF CommandInv, called
<1>5. pc \in {"parse"} /\ pc' \in {"handle", "parse", "check"}
  BY DEF TakeOption, EndOfOptions
<1>6. PhaseInv'
  BY <1>3, <1>5 DEF CommandInv, PhaseInv, called
<1> QED
  BY <1>2, <1>4, <1>6 DEF CommandInv

-----------------------------------------------------------------------------
\* What an option says is a number of a ULONG.
LEMMA NumbersAreUlongs == ASSUME NEW w PROVE strtoul(w) \in Ulongs
  BY CommandsAssumption DEF strtoul, Ulongs

LEMMA SaysStep ==
  ASSUME CommandInv, pc = "handle", NEW new, Says(new), DOMAIN new = OptNames,
         new.sizeBucket \in Ulongs, new.numBuckets \in Ulongs, new.structSize \in Ulongs
  PROVE  CommandInv'
<1>1. UNCHANGED <<tokens, parser, called, held, outcome>> /\ pc' = "parse" /\ opts' = new
  BY DEF Says
<1>2. CutInv' /\ ParseInv' /\ BufferInv'
  BY <1>1, TokensKept, ParserKept DEF CommandInv
<1>3. OptsInv'
  BY <1>1 DEF OptsInv, Ulongs
<1>4. PhaseInv' /\ outcome'.does = "nothing"
  BY <1>1 DEF CommandInv, PhaseInv, called
<1> QED
  BY <1>2, <1>3, <1>4, NoWalk DEF CommandInv

\* The end of a command, with nothing to be walked or within the buckets.
Inside(result) ==
  /\ result.does = "lookaside" => result.walked \subseteq 0 .. result.desc.numBuckets - 1
  /\ result.does = "listHeads" =>
       \/ result.walked \subseteq 0 .. ctx.listHeadsBuckets - 1
       \/ opts.sizeBucket > ctx.listHeadsBuckets * ctx.poolBlockSize
  /\ result.does \in {"lookaside", "listHeads"} => result.bucket = bucket

LEMMA EndStep ==
  ASSUME CommandInv, NEW result, End(result), Inside(result)
  PROVE  CommandInv'
<1>1. UNCHANGED <<tokens, parser, called, opts, held>> /\ pc' = "cleanup" /\ outcome' = result
  BY DEF End
<1>2. CutInv' /\ ParseInv' /\ BufferInv' /\ OptsInv'
  BY <1>1, TokensKept, ParserKept, OptsKept DEF CommandInv
<1>3. PhaseInv' /\ WalkInv'
  BY <1>1 DEF CommandInv, PhaseInv, WalkInv, WalkStaysInside, Walks, bucket, Inside, called
<1> QED
  BY <1>2, <1>3 DEF CommandInv

LEMMA UsageStep ==
  ASSUME CommandInv, NEW name, Usage(name)
  PROVE  CommandInv'
<1>1. Inside([Nothing EXCEPT !.does = "usage", !.of = name])
  BY DEF Inside, Nothing
<1> QED
  BY <1>1, EndStep DEF Usage

LEMMA HandleStep == CommandInv /\ Handle => CommandInv'
<1> SUFFICES ASSUME CommandInv, Handle PROVE CommandInv'
  OBVIOUS
<1>0. /\ DOMAIN opts = OptNames
      /\ opts.sizeBucket \in Ulongs /\ opts.numBuckets \in Ulongs /\ opts.structSize \in Ulongs
  BY DEF CommandInv, OptsInv
<1>1. CASE HandleHelp
  BY <1>1, UsageStep DEF HandleHelp
<1>2. CASE HandleFlag
  <2>1. PICK new : /\ pc = "handle" /\ Says(new) /\ DOMAIN new = OptNames
                   /\ new.sizeBucket = opts.sizeBucket /\ new.numBuckets = opts.numBuckets
                   /\ new.structSize = opts.structSize
    BY <1>0, <1>2 DEF HandleFlag, Is, OptNames
  <2> QED
    BY <1>0, <2>1, SaysStep
<1>3. CASE HandleBucket
  <2>1. Number \in Ulongs
    BY NumbersAreUlongs DEF Number
  <2>2. PICK new : new = [opts EXCEPT !.sizeBucket = Number]
    OBVIOUS
  <2>3. /\ DOMAIN new = OptNames /\ new.sizeBucket = Number
        /\ new.numBuckets = opts.numBuckets /\ new.structSize = opts.structSize
    BY <1>0, <2>2 DEF OptNames
  <2>4. pc = "handle" /\ Says(new)
    BY <1>3, <2>2 DEF HandleBucket, Is
  <2> QED
    BY <1>0, <2>1, <2>3, <2>4, SaysStep
<1>4. CASE HandleLookType
  <2>1. \A f \in {ctx.lookasideStructSize, ctx.lookasideBuckets, ctx.sessionLookasideStructSize,
                  ctx.sessionLookasideBuckets} : f \in Ulongs
    BY CommandsAssumption DEF CommandInv, PhaseInv, Ulongs
  <2>2. ASSUME NEW s \in Ulongs, NEW n \in Ulongs, pc = "handle",
               Says([opts EXCEPT !.structSize = s, !.numBuckets = n])
        PROVE  CommandInv'
    <3>1. PICK new : new = [opts EXCEPT !.structSize = s, !.numBuckets = n]
      OBVIOUS
    <3>2. /\ DOMAIN new = OptNames /\ new.sizeBucket = opts.sizeBucket
          /\ new.numBuckets = n /\ new.structSize = s
      BY <1>0, <3>1 DEF OptNames
    <3> QED
      BY <1>0, <2>2, <3>1, <3>2, SaysStep
  <2>3. pc = "handle"
    BY <1>4 DEF HandleLookType, Is
  <2>4. \/ Says([opts EXCEPT !.structSize = ctx.lookasideStructSize,
                             !.numBuckets = ctx.lookasideBuckets])
        \/ Says([opts EXCEPT !.structSize = ctx.sessionLookasideStructSize,
                             !.numBuckets = ctx.sessionLookasideBuckets])
        \/ Usage(command)
    BY <1>4, Zenon DEF HandleLookType
  <2> QED
    BY <2>1, <2>2, <2>3, <2>4, UsageStep
<1>5. CASE HandleNumBuckets \/ HandleLookSize
  <2>1. Number \in Ulongs
    BY NumbersAreUlongs DEF Number
  <2>2. PICK new : /\ pc = "handle" /\ Says(new)
                   /\ \/ new = [opts EXCEPT !.numBuckets = Number, !.structSize = Number]
                      \/ new = [opts EXCEPT !.structSize = Number]
    BY <1>5 DEF HandleNumBuckets, HandleLookSize, Is
  <2>3. /\ DOMAIN new = OptNames /\ new.sizeBucket = opts.sizeBucket
        /\ new.numBuckets \in Ulongs /\ new.structSize \in Ulongs
    BY <1>0, <2>1, <2>2 DEF OptNames
  <2> QED
    BY <1>0, <2>2, <2>3, SaysStep
<1> QED
  BY <1>1, <1>2, <1>3, <1>4, <1>5 DEF Handle

-----------------------------------------------------------------------------
\* The arithmetic of sizes and buckets, in ULONGs.
LEMMA Division ==
  ASSUME NEW a \in Nat, NEW b \in Nat \ {0}
  PROVE  /\ a \div b \in Nat /\ a % b \in 0 .. b - 1
         /\ a = (a \div b) * b + (a % b) /\ a % b <= a
  OBVIOUS

LEMMA Multiple ==
  ASSUME NEW q \in Nat, NEW b \in Nat \ {0}
  PROVE  (q * b) \div b = q
  OBVIOUS

LEMMA NoMoreThan ==
  ASSUME NEW q \in Nat, NEW n \in Nat, NEW b \in Nat \ {0}, q * b <= n * b + (b - 1)
  PROVE  q <= n
<1> SUFFICES ASSUME q >= n + 1 PROVE FALSE
  OBVIOUS
<1>1. q * b >= (n + 1) * b
  OBVIOUS
<1>2. (n + 1) * b = n * b + b
  OBVIOUS
<1> QED
  BY <1>1, <1>2

\* A size rounded up, before it is cut to a ULONG, and the bucket it gives.
LEMMA Rounded ==
  ASSUME NEW size \in Nat, NEW b \in Nat \ {0}, NEW sum, sum = (size + b - 1) % DwordLimit
  PROVE  LET q == sum \div b
         IN  /\ sum \in Nat /\ q \in Nat /\ sum <= size + b - 1
             /\ ROUND_POOL_SIZE(size, b) = q * b
             /\ SIZE_TO_BUCKET(size, b) = IF q = 0 THEN 0 ELSE q - 1
<1> DEFINE q == sum \div b
<1>1. size + b - 1 \in Nat /\ DwordLimit \in Nat \ {0}
  BY CommandsAssumption
<1>2. sum \in Nat /\ sum <= size + b - 1
  <2>1. PICK a : a = size + b - 1
    OBVIOUS
  <2>2. a % DwordLimit \in 0 .. DwordLimit - 1 /\ a % DwordLimit <= a
    BY <1>1, <2>1, Division
  <2> QED
    BY <1>1, <2>1, <2>2
<1>3. q \in Nat /\ sum = q * b + (sum % b) /\ sum % b \in 0 .. b - 1
  BY <1>2, Division
<1>4. ROUND_POOL_SIZE(size, b) = sum - (sum % b)
  BY DEF ROUND_POOL_SIZE
<1> HIDE DEF q
<1>5. ROUND_POOL_SIZE(size, b) = q * b
  BY <1>3, <1>4
<1>6. (q * b < b) <=> q = 0
  BY <1>3
<1>7. SIZE_TO_BUCKET(size, b) = IF q * b < b THEN 0 ELSE ((q * b) \div b) - 1
  BY <1>5 DEF SIZE_TO_BUCKET
<1>8. (q * b) \div b = q
  BY <1>3, Multiple
<1>9. SIZE_TO_BUCKET(size, b) = IF q = 0 THEN 0 ELSE q - 1
  BY <1>6, <1>7, <1>8
<1> QED
  BY <1>2, <1>3, <1>5, <1>9 DEF q

\* A size that is no larger than n chunks gives one of n buckets.
LEMMA BucketWithin ==
  ASSUME NEW size \in Nat, NEW b \in Nat \ {0}, NEW n \in Nat \ {0}, size <= n * b
  PROVE  SIZE_TO_BUCKET(size, b) \in 0 .. n - 1
<1>1. PICK sum : sum = (size + b - 1) % DwordLimit
  OBVIOUS
<1>2. PICK q : q = sum \div b
  OBVIOUS
<1>3. /\ sum \in Nat /\ q \in Nat /\ sum <= size + b - 1
      /\ SIZE_TO_BUCKET(size, b) = IF q = 0 THEN 0 ELSE q - 1
  BY <1>1, <1>2, Rounded
<1>4. q * b <= sum
  BY <1>2, <1>3, Division
<1>5. PICK m, p : m = n * b /\ p = q * b
  OBVIOUS
<1>6. p <= m + (b - 1)
  <2>1. m \in Nat /\ p \in Nat
    BY <1>3, <1>5
  <2> QED
    BY <1>3, <1>4, <1>5, <2>1
<1>7. q <= n
  BY <1>3, <1>5, <1>6, NoMoreThan
<1> QED
  BY <1>3, <1>7

\* The chunks of the bucket are large enough for a size, those of the bucket
\* before are not.
LEMMA BucketOfSize ==
  ASSUME NEW size \in Nat, NEW b \in Nat \ {0}, size + b <= DwordLimit, b < DwordLimit
  PROVE  /\ SIZE_TO_BUCKET(size, b) \in Nat
         /\ BUCKET_TO_SIZE(SIZE_TO_BUCKET(size, b), b) >= size
         /\ SIZE_TO_BUCKET(size, b) > 0 => BUCKET_TO_SIZE(SIZE_TO_BUCKET(size, b) - 1, b) < size
<1>0. DwordLimit \in Nat \ {0} /\ \A x \in 0 .. DwordLimit - 1 : x % DwordLimit = x
  BY CommandsAssumption
<1>1. PICK sum : sum = (size + b - 1) % DwordLimit
  OBVIOUS
<1>2. sum = size + b - 1 /\ sum \in 0 .. DwordLimit - 1
  <2>1. PICK x : x = size + b - 1
    OBVIOUS
  <2>2. x \in 0 .. DwordLimit - 1
    BY <1>0, <2>1
  <2>3. x % DwordLimit = x
    BY <1>0, <2>2
  <2> QED
    BY <1>1, <2>1, <2>2, <2>3
<1>3. PICK q : q = sum \div b
  OBVIOUS
<1>4. q \in Nat /\ SIZE_TO_BUCKET(size, b) = IF q = 0 THEN 0 ELSE q - 1
  BY <1>1, <1>3, Rounded
<1>5. PICK p : p = q * b
  OBVIOUS
<1>6. p \in Nat /\ p <= sum /\ sum < p + b
  <2>1. sum % b \in 0 .. b - 1 /\ sum = q * b + (sum % b)
    BY <1>2, <1>3, Division
  <2> QED
    BY <1>4, <1>5, <2>1
<1>7. CASE q = 0
  <2>1. SIZE_TO_BUCKET(size, b) = 0
    BY <1>4, <1>7
  <2>2. size = 0
    BY <1>2, <1>5, <1>6, <1>7
  <2>3. BUCKET_TO_SIZE(0, b) = b
    <3>1. (0 + 1) * b = b /\ b % DwordLimit = b
      BY <1>0
    <3> QED
      BY <3>1 DEF BUCKET_TO_SIZE
  <2> QED
    BY <2>1, <2>2, <2>3
<1>8. CASE q # 0
  <2>1. SIZE_TO_BUCKET(size, b) = q - 1 /\ q - 1 \in Nat
    BY <1>4, <1>8
  <2>2. BUCKET_TO_SIZE(q - 1, b) = p
    <3>1. ((q - 1) + 1) * b = p
      BY <1>4, <1>5
    <3>2. p % DwordLimit = p
      BY <1>0, <1>2, <1>6
    <3> QED
      BY <3>1, <3>2 DEF BUCKET_TO_SIZE
  <2>3. q - 1 > 0 => BUCKET_TO_SIZE((q - 1) - 1, b) = p - b
    <3>1. (((q - 1) - 1) + 1) * b = p - b
      BY <1>4, <1>5
    <3>2. q - 1 > 0 => (p - b) % DwordLimit = p - b
      <4>1. q - 1 > 0 => p >= b
        BY <1>4, <1>5
      <4> QED
        BY <1>0, <1>2, <1>6, <4>1
    <3> QED
      BY <3>1, <3>2 DEF BUCKET_TO_SIZE
  <2> QED
    BY <1>2, <1>6, <2>1, <2>2, <2>3
<1> QED
  BY <1>7, <1>8, <1>4

-----------------------------------------------------------------------------
\* The steps from the tests of the arguments to the end.
LEMMA CheckStep ==
  ASSUME CommandInv, CheckLookaside \/ CheckAddress
  PROVE  CommandInv'
<1>1. CASE CheckLookaside
  <2>1. Usage("poolinfo") \/ End([Nothing EXCEPT !.does = "badBucket"])
    BY <1>1 DEF CheckLookaside
  <2>2. Inside([Nothing EXCEPT !.does = "badBucket"])
    BY DEF Inside, Nothing
  <2> QED
    BY <2>1, <2>2, UsageStep, EndStep
<1>2. CASE CheckAddress
  <2>1. PICK name : Usage(name)
    BY <1>2 DEF CheckAddress
  <2> QED
    BY <2>1, UsageStep
<1> QED
  BY <1>1, <1>2

LEMMA WithinStep == CommandInv /\ (NoMemory \/ ArgumentsMakeSense) => CommandInv'
<1> SUFFICES ASSUME CommandInv, NoMemory \/ ArgumentsMakeSense PROVE CommandInv'
  OBVIOUS
<1>1. UNCHANGED <<tokens, parser, called, opts, held, outcome>> /\ pc' \in {"cleanup", "run"}
      /\ pc \in {"start", "check"}
  BY DEF NoMemory, ArgumentsMakeSense
<1>2. CutInv' /\ ParseInv' /\ BufferInv' /\ OptsInv'
  BY <1>1, TokensKept, ParserKept, OptsKept DEF CommandInv
<1>3. PhaseInv' /\ WalkInv'
  BY <1>1, WalkKept DEF CommandInv, PhaseInv, called
<1> QED
  BY <1>2, <1>3 DEF CommandInv

\* The buckets of a lookaside that are walked are those there are.
LEMMA ShowLookasideStep == CommandInv /\ ShowLookaside => CommandInv'
<1> SUFFICES ASSUME CommandInv, ShowLookaside PROVE CommandInv'
  OBVIOUS
<1>1. PICK d \in Lookasides :
        End([does |-> "lookaside", of |-> NULL, bucket |-> bucket, walked |-> Walked(d.numBuckets),
             desc |-> d, expr |-> Expression])
  BY DEF ShowLookaside
<1>2. PICK result : result = [does |-> "lookaside", of |-> NULL, bucket |-> bucket,
                              walked |-> Walked(d.numBuckets), desc |-> d, expr |-> Expression]
  OBVIOUS
<1>3. Walked(d.numBuckets) \subseteq 0 .. d.numBuckets - 1
  BY DEF Walked
<1>4. Inside(result)
  BY <1>2, <1>3 DEF Inside
<1> QED
  BY <1>1, <1>2, <1>4, EndStep

\* Those of ListHeads are, too, for a size there are chunks of.
LEMMA ShowPoolStep == CommandInv /\ ShowPool => CommandInv'
<1> SUFFICES ASSUME CommandInv, ShowPool PROVE CommandInv'
  OBVIOUS
<1> DEFINE lhb == ctx.listHeadsBuckets
           bs  == ctx.poolBlockSize
           all == 0 .. lhb - 1
           walked == IF ~opts.bFreeList THEN {} ELSE IF bucket = BUCKET_ALL THEN all ELSE {bucket}
           does == IF opts.bFreeList THEN "listHeads" ELSE "descriptor"
<1>0. PICK result :
        result = [does |-> does, of |-> NULL, bucket |-> bucket, walked |-> walked, desc |-> NULL,
                  expr |-> Expression]
  OBVIOUS
<1>1. End(result) /\ result.does = does /\ result.walked = walked /\ result.bucket = bucket
  BY <1>0 DEF ShowPool
<1>2. lhb \in Nat \ {0} /\ bs \in Nat \ {0} /\ opts.sizeBucket \in Nat
  BY CommandsAssumption DEF CommandInv, PhaseInv, OptsInv, Ulongs
<1>3. ASSUME result.does = "listHeads"
      PROVE  result.walked = all \/ (opts.sizeBucket # BUCKET_ALL /\ result.walked = {bucket})
  BY <1>1, <1>3 DEF bucket
<1>4. ASSUME opts.sizeBucket # BUCKET_ALL, ~(opts.sizeBucket > lhb * bs)
      PROVE  bucket \in all
  <2>1. bucket = SIZE_TO_BUCKET(opts.sizeBucket, bs)
    BY <1>4 DEF bucket
  <2>2. PICK size, b, n : size = opts.sizeBucket /\ b = bs /\ n = lhb
    OBVIOUS
  <2>3. size <= n * b /\ size \in Nat /\ b \in Nat \ {0} /\ n \in Nat \ {0}
    BY <1>2, <1>4, <2>2
  <2>4. SIZE_TO_BUCKET(size, b) \in 0 .. n - 1
    BY <2>3, BucketWithin
  <2> QED
    BY <2>1, <2>2, <2>4
<1>5. result.does # "lookaside"
  BY <1>1
<1>6. Inside(result)
  BY <1>1, <1>3, <1>4, <1>5 DEF Inside
<1> QED
  BY <1>1, <1>6, EndStep

LEMMA ShowNothingStep ==
  ASSUME CommandInv, NotALookaside \/ ShowOther
  PROVE  CommandInv'
<1>1. CASE NotALookaside
  <2>1. PICK result : result = [Nothing EXCEPT !.does = "noLookaside", !.expr = Expression]
    OBVIOUS
  <2>2. End(result) /\ Inside(result)
    BY <1>1, <2>1 DEF NotALookaside, Inside, Nothing
  <2> QED
    BY <2>2, EndStep
<1>2. CASE ShowOther
  <2>1. PICK expr : expr = IF command = "poollist" THEN <<>> ELSE Expression
    OBVIOUS
  <2>2. End([Nothing EXCEPT !.does = "work", !.of = command, !.expr = expr])
    BY <1>2, <2>1 DEF ShowOther
  <2>3. Inside([Nothing EXCEPT !.does = "work", !.of = command, !.expr = expr])
    BY DEF Inside, Nothing
  <2> QED
    BY <2>2, <2>3, EndStep
<1> QED
  BY <1>1, <1>2

LEMMA CleanupStep == CommandInv /\ Cleanup => CommandInv'
<1> SUFFICES ASSUME CommandInv, Cleanup PROVE CommandInv'
  OBVIOUS
<1>1. UNCHANGED <<tokens, parser, called, opts, outcome>> /\ pc' = "done" /\ pc = "cleanup"
      /\ held' \subseteq held
  BY DEF Cleanup
<1>2. CutInv' /\ ParseInv' /\ BufferInv' /\ OptsInv'
  BY <1>1, TokensKept, ParserKept, OptsKept DEF CommandInv
<1>3. PhaseInv' /\ WalkInv'
  BY <1>1, WalkKept DEF CommandInv, PhaseInv, called
<1> QED
  BY <1>2, <1>3 DEF CommandInv

LEMMA StutterStep == CommandInv /\ UNCHANGED vars => CommandInv'
<1> SUFFICES ASSUME CommandInv, UNCHANGED vars PROVE CommandInv'
  OBVIOUS
<1>1. UNCHANGED <<tokens, parser, called, pc, opts, held, outcome>>
  BY DEF vars
<1>2. CutInv' /\ ParseInv' /\ BufferInv' /\ OptsInv'
  BY <1>1, TokensKept, ParserKept, OptsKept DEF CommandInv
<1>3. PhaseInv' /\ WalkInv'
  BY <1>1, WalkKept DEF CommandInv, PhaseInv, called, tokens
<1> QED
  BY <1>2, <1>3 DEF CommandInv

LEMMA CommandInvIsInvariant == Spec => []CommandInv
<1>1. CommandInv /\ [Next]_vars => CommandInv'
  BY MakeCmdlineStep, ScanningStep, InitOptionsStep, OptionsStep, HandleStep, CheckStep, WithinStep,
     ShowLookasideStep, ShowPoolStep, ShowNothingStep, CleanupStep, StutterStep
     DEF Next, Step, Finished
<1> QED
  BY <1>1, CommandInit, PTL DEF Spec

-----------------------------------------------------------------------------
\* Every index and every place stays in its range - those of the text, of the
\* array of words and of the words behind an option - and what the options say
\* are ULONGs, whatever is typed.
THEOREM CommandTypeCorrect == Spec => []TypeOK
<1>1. CommandInv => TypeOK
  <2> SUFFICES ASSUME CommandInv PROVE TypeOK
    OBVIOUS
  <2>1. \A b \in {in_QM, in_TEXT, in_SPACE} : b \in BOOLEAN
    BY Zenon DEF CommandInv, CutInv, TokensInv
  <2>2. /\ scan \in {"idle", "scan", "done"} /\ i \in 0 .. Len(line)
        /\ \A n \in DOMAIN argv : argv[n] \in 0 .. Len(text) /\ (scan = "done" => argv[n] < Len(text))
    BY DEF CommandInv, CutInv, TokensInv, WordsAreInText
  <2>3. /\ parse \in {"idle", "next", "end"}
        /\ m_nNextOption \in 1 .. Len(words) + 1 /\ m_nLastArg \in 0 .. Len(words)
        /\ parse # "idle" => m_nNextOption <= m_nLastArg
        /\ \A n \in DOMAIN m_argv : m_argv[n] \in 0 .. Len(words) - 1
    BY DEF CommandInv, ParseInv, ArrayInv, Places, m_argc
  <2> QED
    BY <2>1, <2>2, <2>3 DEF CommandInv, OptsInv, PhaseInv, Ulongs, TypeOK
<1> QED
  BY <1>1, CommandInvIsInvariant, PTL

\* Every pointer and every byte CommandLineToArgvA writes lies in the block,
\* the NULL behind the last pointer and the Nul behind the last word included.
THEOREM BlockIsLargeEnough == Spec => []BlockSuffices
<1>1. CommandInv => BlockSuffices
  BY DEF CommandInv, CutInv, TokensInv, WordsCostTwo, BytesCostOne, BlockSuffices, ArgvRoom, TextRoom
<1> QED
  BY <1>1, CommandInvIsInvariant, PTL

\* The files stay in the order of the command line, whatever the words and the
\* options, though every call may move some of them past the others.
THEOREM FilesStayInOrder == Spec => []FilesKeepOrder
<1>1. CommandInv => FilesKeepOrder
  BY DEF CommandInv, ParseInv, ArrayInv, InOrderInv, FilesKeepOrder, m_argc
<1> QED
  BY <1>1, CommandInvIsInvariant, PTL

\* The shuffles stay in their buffer, whatever the words and the options, but
\* where the malloc whose result nobody tests has failed.
THEOREM ShufflesFit == Spec => []ShuffleFits
<1>1. CommandInv => ShuffleFits
  BY CommandsAssumption DEF CommandInv, ParseInv, ArrayInv, BufferInv, ShuffleFits, Room, m_argc
<1> QED
  BY <1>1, CommandInvIsInvariant, PTL

\* Whatever -t, -lb and -b say, the buckets of a lookaside that are walked are
\* those it has; those of ListHeads for every size that is no larger than the
\* largest chunk: the arithmetic of sizes and buckets is exact below 2^32, for
\* every size of a chunk.
THEOREM WalksStayInside == Spec => []WalkStaysInside
<1>1. CommandInv => WalkStaysInside
  BY DEF CommandInv, WalkInv
<1> QED
  BY <1>1, CommandInvIsInvariant, PTL

\* The bucket that is walked for a size is the one its chunks are freed to, for
\* every size but those that are rounded up past 2^32.
THEOREM WalkedBucketFits == Spec => [](Walks => BucketFitsSize)
<1>1. CommandInv /\ Walks => BucketFitsSize
  <2> SUFFICES ASSUME CommandInv, Walks, opts.sizeBucket # BUCKET_ALL,
                      opts.sizeBucket + ctx.poolBlockSize <= DwordLimit
               PROVE  /\ outcome.bucket \in Nat
                      /\ BUCKET_TO_SIZE(outcome.bucket, ctx.poolBlockSize) >= opts.sizeBucket
                      /\ outcome.bucket > 0 =>
                           BUCKET_TO_SIZE(outcome.bucket - 1, ctx.poolBlockSize) < opts.sizeBucket
    BY DEF BucketFitsSize
  <2>1. PICK size, b : size = opts.sizeBucket /\ b = ctx.poolBlockSize
    OBVIOUS
  <2>2. size \in Nat /\ b \in Nat \ {0} /\ size + b <= DwordLimit /\ b < DwordLimit
    BY <2>1, CommandsAssumption DEF CommandInv, PhaseInv, OptsInv, Ulongs
  <2>3. outcome.bucket = SIZE_TO_BUCKET(size, b)
    BY <2>1 DEF CommandInv, WalkInv, bucket
  <2> QED
    BY <2>1, <2>2, <2>3, BucketOfSize
<1> QED
  BY <1>1, CommandInvIsInvariant, PTL

-----------------------------------------------------------------------------
\* The copying of the words, byte by byte.

\* The places of the line whose characters are copied, and those that put an
\* end to a word.
Kept(l)    == {k \in DOMAIN l \ Breaks(l) : l[k] # Quote}
Ends(l)    == {k \in Breaks(l) : k - 1 \in DOMAIN l \ Breaks(l)}
Written(l) == Kept(l) \cup Ends(l)

\* The flags say what the characters read make of the next.
FlagsInv ==
  /\ in_QM <=> Quoted(line, i + 1)
  /\ in_SPACE <=> i = 0 \/ i \in Breaks(line)
  /\ in_TEXT <=> ~in_SPACE
  /\ in_QM => ~in_SPACE

\* The bytes copied so far, without the Nul behind the last word.
Copied == IF scan = "done" THEN Len(text) - 1 ELSE Len(text)

\* Each byte of the text area is from a place of the line: those that are
\* written to it, in their order, up to the last character read.
From(from) ==
  /\ from \in [1 .. Copied -> Written(line)]
  /\ Increasing(from, Copied) /\ AllBelow(Written(line), Copied, from, i + 1)
  /\ \A m \in 1 .. Copied : text[m] = IF from[m] \in Ends(line) THEN Nul ELSE line[from[m]]

\* Each word begins at a place of the line where one does, in their order, and
\* in the text area where the bytes from there on are.
BegunAt(at, from) ==
  /\ at \in [1 .. Len(argv) -> Firsts(line)]
  /\ Increasing(at, Len(argv)) /\ AllBelow(Firsts(line), Len(argv), at, i + 1)
  /\ \A n \in 1 .. Len(argv) :
       argv[n] \in 0 .. Copied /\ \A m \in 1 .. Copied : m <= argv[n] <=> from[m] < at[n]

CopyInv ==
  /\ FlagsInv
  /\ Copied \in Nat
  /\ scan = "done" => i = Len(line) /\ text[Len(text)] = Nul
  /\ \E from, at : From(from) /\ BegunAt(at, from)

\* The next character is quoted if the one before is a quote and is not, or is
\* not and is.
LEMMA QuotedNext ==
  ASSUME NEW l, Len(l) \in Nat, NEW k \in 1 .. Len(l)
  PROVE  Quoted(l, k + 1) <=> (l[k] = Quote <=> ~Quoted(l, k))
<1> DEFINE Q(n) == {m \in 1 .. n - 1 : l[m] = Quote}
<1>1. IsFiniteSet(Q(k)) /\ Cardinality(Q(k)) \in Nat
  <2>1. IsFiniteSet(1 .. k - 1)
    BY FS_Interval
  <2> QED
    BY <2>1, FS_Subset, FS_CardinalityType
<1>2. PICK c : c = Cardinality(Q(k))
  OBVIOUS
<1>3. Quoted(l, k) <=> c % 2 = 1
  BY <1>2 DEF Quoted
<1>4. CASE l[k] = Quote
  <2>1. Q(k + 1) = Q(k) \cup {k} /\ k \notin Q(k)
    BY <1>4
  <2>2. Cardinality(Q(k + 1)) = c + 1
    <3> HIDE DEF Q
    <3> QED
      BY <1>1, <1>2, <2>1, FS_AddElement
  <2>3. Quoted(l, k + 1) <=> (c + 1) % 2 = 1
    BY <2>2 DEF Quoted
  <2>4. (c + 1) % 2 = 1 <=> ~(c % 2 = 1)
    BY <1>1, <1>2
  <2> QED
    BY <1>3, <1>4, <2>3, <2>4
<1>5. CASE l[k] # Quote
  <2>1. Q(k + 1) = Q(k)
    BY <1>5
  <2>2. Quoted(l, k + 1) <=> c % 2 = 1
    <3> HIDE DEF Q
    <3>1. Cardinality(Q(k + 1)) = c
      BY <1>2, <2>1
    <3> QED
      BY <3>1 DEF Quoted, Q
  <2> QED
    BY <1>3, <1>5, <2>2
<1> QED
  BY <1>4, <1>5

LEMMA NoneQuoted == ASSUME NEW l PROVE ~Quoted(l, 1)
<1>1. {n \in 1 .. 1 - 1 : l[n] = Quote} = {}
  OBVIOUS
<1>2. Cardinality({}) = 0
  BY FS_EmptySet
<1> QED
  BY <1>1, <1>2 DEF Quoted

\* One more character, of the line and of what is copied of it.
CopyNext ==
  /\ scan = "scan" /\ scan' = scan /\ line' = line /\ i' = i + 1 /\ i < Len(line)
  /\ text' = IF i + 1 \in Kept(line) THEN Append(text, line[i + 1])
             ELSE IF i + 1 \in Ends(line) THEN Append(text, Nul) ELSE text
  /\ argv' = IF i + 1 \in Firsts(line) THEN Append(argv, Len(text)) ELSE argv

LEMMA CopyNextCopies ==
  ASSUME TokensInv, CopyInv, CopyNext, FlagsInv'
  PROVE  CopyInv'
<1> DEFINE k == i + 1
           W == Written(line)
           F == Firsts(line)
<1>1. PICK from, at : From(from) /\ BegunAt(at, from)
  BY DEF CopyInv
<1>2. PICK len, n : len = Len(text) /\ n = Len(argv)
  OBVIOUS
<1>3. len \in Nat /\ n \in Nat /\ i \in Nat /\ k \in 1 .. Len(line) /\ Len(line) \in Nat
      /\ text \in Seq(Bytes) /\ argv \in Seq(Nat) /\ Copied = len
      /\ scan = "scan" /\ scan' = scan /\ line' = line
  BY <1>2 DEF TokensInv, Copied, CopyNext
<1>4. (\A q \in W : q \in Int) /\ (\A q \in F : q \in Int)
  BY <1>3 DEF TokensInv, Written, Kept, Ends, Firsts, Breaks
<1>5. Kept(line) \cap Ends(line) = {} /\ Written(line)' = W /\ Firsts(line)' = F /\ Ends(line)' = Ends(line)
  BY <1>3 DEF Kept, Ends, Written
<1>6. from \in [1 .. len -> W] /\ Increasing(from, len) /\ AllBelow(W, len, from, k)
  BY <1>1, <1>3 DEF From
<1>14. \A m \in 1 .. len : text[m] = IF from[m] \in Ends(line) THEN Nul ELSE line[from[m]]
  BY <1>1, <1>3 DEF From
<1>7. at \in [1 .. n -> F] /\ Increasing(at, n) /\ AllBelow(F, n, at, k)
  BY <1>1, <1>2, <1>3 DEF BegunAt
<1>15. \A a \in 1 .. n : argv[a] \in 0 .. len /\ \A m \in 1 .. len : m <= argv[a] <=> from[m] < at[a]
  BY <1>1, <1>2, <1>3 DEF BegunAt
<1> HIDE DEF W, F, k
<1>9. k \in Nat /\ i' = k /\ i' + 1 = k + 1 /\ Written(line') = W /\ Firsts(line') = F
  BY <1>3, <1>5 DEF k, W, F, CopyNext
<1>16. k \in Int
  BY <1>9
<1>8. /\ \A m \in 1 .. len : from[m] \in Int /\ from[m] < k
      /\ \A a \in 1 .. n : at[a] \in Int /\ at[a] < k
  BY <1>3, <1>4, <1>6, <1>7, <1>16, InOrderGrows, Zenon
\* What the text and the array grow by.
<1>10. PICK len2, from2 :
         /\ len2 \in Nat /\ from2 \in [1 .. len2 -> W]
         /\ Copied' = len2
         /\ Increasing(from2, len2) /\ AllBelow(W, len2, from2, k + 1)
         /\ \A m \in 1 .. len2 : text'[m] = IF from2[m] \in Ends(line) THEN Nul ELSE line[from2[m]]
         /\ len <= len2 /\ \A m \in 1 .. len : from2[m] = from[m]
         /\ \A m \in 1 .. len2 : m \in 1 .. len \/ (m = len + 1 /\ from2[m] = k)
  <2>1. CASE k \in W
    <3>1. PICK x : x = IF k \in Kept(line) THEN line[k] ELSE Nul
      OBVIOUS
    <3>2. text' = Append(text, x) /\ x \in Bytes /\ x = IF k \in Ends(line) THEN Nul ELSE line[k]
      <4>1. k \in Kept(line) \/ (k \notin Kept(line) /\ k \in Ends(line))
        BY <2>1 DEF W, Written
      <4>2. line[k] \in Bytes /\ Nul \in Bytes
        BY <1>3 DEF TokensInv, Bytes, k
      <4> QED
        BY <1>5, <3>1, <4>1, <4>2 DEF k, CopyNext
    <3>3. /\ Len(text') = len + 1 /\ text'[len + 1] = x
          /\ \A m \in 1 .. len : text'[m] = text[m]
      BY <1>2, <1>3, <3>2
    <3>4. PICK from2 \in [1 .. len + 1 -> W] :
            /\ from2[len + 1] = k /\ \A m \in 1 .. len : from2[m] = from[m]
            /\ Increasing(from2, len + 1) /\ AllBelow(W, len + 1, from2, k + 1)
      BY <1>3, <1>4, <1>6, <1>16, <2>1, InOrderGrows, Zenon
    <3>5. \A m \in 1 .. len + 1 : m \in 1 .. len \/ m = len + 1
      BY <1>3
    <3>6. \A m \in 1 .. len + 1 : text'[m] = IF from2[m] \in Ends(line) THEN Nul ELSE line[from2[m]]
      BY <1>14, <3>2, <3>3, <3>4, <3>5
    <3>7. Copied' = len + 1 /\ len + 1 \in Nat /\ len <= len + 1
      BY <1>3, <3>3 DEF Copied
    <3> QED
      BY <3>4, <3>5, <3>6, <3>7
  <2>2. CASE k \notin W
    <3>1. text' = text
      BY <2>2 DEF W, k, Written, CopyNext
    <3>2. AllBelow(W, len, from, k + 1)
      BY <1>3, <1>4, <1>6, <1>16, <2>2, InOrderGrows, Zenon
    <3>3. Copied' = len
      BY <1>2, <1>3, <3>1 DEF Copied
    <3> QED
      BY <1>3, <1>6, <1>14, <3>1, <3>2, <3>3
  <2> QED
    BY <2>1, <2>2
<1>11. PICK n2, at2 :
         /\ n2 \in Nat /\ at2 \in [1 .. n2 -> F]
         /\ Len(argv') = n2
         /\ Increasing(at2, n2) /\ AllBelow(F, n2, at2, k + 1)
         /\ \A a \in 1 .. n : at2[a] = at[a] /\ argv'[a] = argv[a]
         /\ \A a \in 1 .. n2 : a \in 1 .. n \/ (at2[a] = k /\ argv'[a] = len)
  <2>1. CASE k \in F
    <3>1. argv' = Append(argv, len)
      BY <1>2, <2>1 DEF k, F, CopyNext
    <3>2. /\ Len(argv') = n + 1 /\ argv'[n + 1] = len
          /\ \A a \in 1 .. n : argv'[a] = argv[a]
      BY <1>2, <1>3, <3>1
    <3>3. PICK at2 \in [1 .. n + 1 -> F] :
            /\ at2[n + 1] = k /\ \A a \in 1 .. n : at2[a] = at[a]
            /\ Increasing(at2, n + 1) /\ AllBelow(F, n + 1, at2, k + 1)
      BY <1>3, <1>4, <1>7, <1>16, <2>1, InOrderGrows, Zenon
    <3>4. \A a \in 1 .. n + 1 : a \in 1 .. n \/ a = n + 1
      BY <1>3
    <3>5. n + 1 \in Nat
      BY <1>3
    <3> QED
      BY <3>2, <3>3, <3>4, <3>5
  <2>2. CASE k \notin F
    <3>1. argv' = argv
      BY <2>2 DEF k, F, CopyNext
    <3>2. AllBelow(F, n, at, k + 1)
      BY <1>3, <1>4, <1>7, <1>16, <2>2, InOrderGrows, Zenon
    <3> QED
      BY <1>2, <1>3, <1>7, <3>1, <3>2
  <2> QED
    BY <2>1, <2>2
<1>12. From(from2)'
  BY <1>3, <1>5, <1>9, <1>10 DEF From
<1>13. BegunAt(at2, from2)'
  <2>1. ASSUME NEW a \in 1 .. n2 PROVE argv'[a] \in 0 .. len2
    <3>1. \A x \in 0 .. len : x \in 0 .. len2
      BY <1>3, <1>10
    <3>2. len \in 0 .. len
      BY <1>3
    <3> QED
      BY <1>11, <1>15, <3>1, <3>2
  <2>2. ASSUME NEW a \in 1 .. n2, NEW m \in 1 .. len2
        PROVE  m <= argv'[a] <=> from2[m] < at2[a]
    <3>1. CASE a \in 1 .. n /\ m \in 1 .. len
      BY <1>10, <1>11, <1>15, <3>1
    <3>2. CASE a \in 1 .. n /\ m = len + 1 /\ from2[m] = k
      <4>1. PICK x, y : x = argv[a] /\ y = at[a]
        OBVIOUS
      <4>2. x \in 0 .. len /\ y \in Int /\ y < k
        BY <1>8, <1>15, <3>2, <4>1
      <4>3. ~(m <= x) /\ ~(k < y)
        BY <1>3, <1>9, <3>2, <4>2
      <4> QED
        BY <1>11, <3>2, <4>1, <4>3
    <3>3. CASE at2[a] = k /\ argv'[a] = len /\ m \in 1 .. len
      <4>1. m <= len /\ from[m] < k
        BY <1>3, <1>8, <3>3
      <4> QED
        BY <1>10, <3>3, <4>1
    <3>4. CASE at2[a] = k /\ argv'[a] = len /\ m = len + 1 /\ from2[m] = k
      <4>1. ~(m <= len) /\ ~(k < k)
        BY <1>3, <1>16, <3>4
      <4> QED
        BY <3>4, <4>1
    <3> QED
      BY <1>10, <1>11, <3>1, <3>2, <3>3, <3>4
  <2> QED
    BY <1>5, <1>9, <1>10, <1>11, <2>1, <2>2 DEF BegunAt
<1> QED
  BY <1>3, <1>10, <1>12, <1>13 DEF CopyInv

\* What each step of the scan does is what the next character of the line makes
\* it do.
LEMMA NextPlace ==
  ASSUME TokensInv, scan = "scan", i < Len(line)
  PROVE  LET k == i + 1
         IN  /\ k \in DOMAIN line /\ k - 1 = i /\ DOMAIN line = 1 .. Len(line) /\ Len(line) \in Nat
             /\ k \in Breaks(line) <=> line[k] \in Blanks /\ ~Quoted(line, k)
             /\ k \in Kept(line) <=> k \notin Breaks(line) /\ line[k] # Quote
             /\ k \in Ends(line) <=> k \in Breaks(line) /\ i # 0 /\ i \notin Breaks(line)
             /\ k \in Firsts(line) <=> k \notin Breaks(line) /\ (i = 0 \/ i \in Breaks(line))
<1>1. /\ i + 1 \in DOMAIN line /\ (i + 1) - 1 = i /\ DOMAIN line = 1 .. Len(line) /\ Len(line) \in Nat
      /\ i + 1 = 1 <=> i = 0
      /\ i \in DOMAIN line <=> i # 0
  BY DEF TokensInv
<1>2. i \notin Breaks(line) \/ i # 0
  BY <1>1 DEF Breaks
<1> QED
  BY <1>1, <1>2 DEF Breaks, Separates, Kept, Ends, Firsts

LEMMA ScanCopies ==
  ASSUME TokensInv, TokensInv', CopyInv, ScanStep, scan' = scan
  PROVE  CopyInv'
<1> DEFINE k == i + 1
<1>1. FlagsInv /\ Quote \notin Blanks
  BY DEF CopyInv, Quote, Blanks
<1>2. ASSUME NEW a, Reading(a), ReadOn
      PROVE  /\ scan = "scan" /\ scan' = scan /\ line' = line /\ i' = k /\ i < Len(line) /\ line[k] = a
             /\ k \in Breaks(line) <=> a \in Blanks /\ ~Quoted(line, k)
             /\ k \in Kept(line) <=> k \notin Breaks(line) /\ a # Quote
             /\ k \in Ends(line) <=> k \in Breaks(line) /\ ~in_SPACE
             /\ k \in Firsts(line) <=> k \notin Breaks(line) /\ in_SPACE
             /\ in_QM <=> Quoted(line, k)
             /\ Quoted(line', i' + 1) <=> (a = Quote <=> ~in_QM)
             /\ (i' = 0 \/ i' \in Breaks(line')) <=> k \in Breaks(line)
             /\ (in_TEXT <=> ~in_SPACE) /\ (in_QM => ~in_SPACE)
  <2>1. scan = "scan" /\ scan' = scan /\ line' = line /\ i' = k /\ i < Len(line) /\ line[k] = a
    BY <1>2 DEF Reading, ReadOn
  <2>2. k \in 1 .. Len(line) /\ Len(line) \in Nat /\ k # 0 /\ i' + 1 = k + 1
    BY <2>1 DEF TokensInv
  <2>3. Quoted(line, k + 1) <=> (line[k] = Quote <=> ~Quoted(line, k))
    BY <2>2, QuotedNext
  <2>4. /\ k \in Breaks(line) <=> line[k] \in Blanks /\ ~Quoted(line, k)
        /\ k \in Kept(line) <=> k \notin Breaks(line) /\ line[k] # Quote
        /\ k \in Ends(line) <=> k \in Breaks(line) /\ i # 0 /\ i \notin Breaks(line)
        /\ k \in Firsts(line) <=> k \notin Breaks(line) /\ (i = 0 \/ i \in Breaks(line))
    BY <2>1, NextPlace
  <2>5. /\ in_QM <=> Quoted(line, k)
        /\ in_SPACE <=> i = 0 \/ i \in Breaks(line)
        /\ (in_TEXT <=> ~in_SPACE) /\ (in_QM => ~in_SPACE)
    BY <1>1, Zenon DEF FlagsInv
  <2> HIDE DEF k
  <2> QED
    BY <2>1, <2>2, <2>3, <2>4, <2>5, Zenon
<1>3. ASSUME NEW a, QuotedCharacter(a) PROVE CopyNext /\ FlagsInv'
  <2>1. Reading(a) /\ ReadOn /\ in_QM /\ a # Quote /\ text' = Append(text, a) /\ argv' = argv
        /\ in_QM' = in_QM /\ in_TEXT' = in_TEXT /\ in_SPACE' = in_SPACE
    BY <1>3, Zenon DEF QuotedCharacter, flags
  <2> QED
    BY <1>2, <2>1, Zenon DEF CopyNext, FlagsInv
<1>4. ASSUME CloseQuote PROVE CopyNext /\ FlagsInv'
  <2>1. Reading(Quote) /\ ReadOn /\ in_QM /\ text' = text /\ argv' = argv
        /\ in_QM' = FALSE /\ in_TEXT' = in_TEXT /\ in_SPACE' = in_SPACE
    BY <1>4, Zenon DEF CloseQuote
  <2> QED
    BY <1>1, <1>2, <2>1, Zenon DEF CopyNext, FlagsInv
<1>5. ASSUME OpenQuote PROVE CopyNext /\ FlagsInv'
  <2>1. Reading(Quote) /\ ReadOn /\ ~in_QM /\ text' = text
        /\ argv' = (IF in_SPACE THEN Append(argv, Len(text)) ELSE argv)
        /\ in_QM' = TRUE /\ in_TEXT' = TRUE /\ in_SPACE' = FALSE
    BY <1>5, Zenon DEF OpenQuote, WordBegins
  <2> QED
    BY <1>1, <1>2, <2>1, Zenon DEF CopyNext, FlagsInv
<1>6. ASSUME NEW a, Blank(a) PROVE CopyNext /\ FlagsInv'
  <2>1. Reading(a) /\ ReadOn /\ ~in_QM /\ a \in Blanks /\ argv' = argv
        /\ text' = (IF in_TEXT THEN Append(text, Nul) ELSE text)
        /\ in_QM' = in_QM /\ in_TEXT' = FALSE /\ in_SPACE' = TRUE
    BY <1>6, Zenon DEF Blank
  <2>2. a # Quote
    BY <1>1, <2>1
  <2>3. /\ k \in Breaks(line) /\ k \notin Kept(line) /\ k \notin Firsts(line)
        /\ k \in Ends(line) <=> in_TEXT
    BY <1>2, <2>1, Zenon
  <2>4. CopyNext
    BY <1>2, <2>1, <2>3, Zenon DEF CopyNext
  <2>5. FlagsInv'
    BY <1>2, <2>1, <2>2, <2>3, Zenon DEF FlagsInv
  <2> QED
    BY <2>4, <2>5
<1>7. ASSUME NEW a, Character(a) PROVE CopyNext /\ FlagsInv'
  <2>1. Reading(a) /\ ReadOn /\ ~in_QM /\ a \notin Blanks /\ a # Quote /\ text' = Append(text, a)
        /\ argv' = (IF in_SPACE THEN Append(argv, Len(text)) ELSE argv)
        /\ in_QM' = in_QM /\ in_TEXT' = TRUE /\ in_SPACE' = FALSE
    BY <1>7, Zenon DEF Character, WordBegins
  <2>2. k \notin Breaks(line) /\ k \in Kept(line) /\ (k \in Firsts(line) <=> in_SPACE)
    BY <1>2, <2>1, Zenon
  <2>3. CopyNext
    BY <1>2, <2>1, <2>2, Zenon DEF CopyNext
  <2>4. FlagsInv'
    BY <1>2, <2>1, <2>2, Zenon DEF FlagsInv
  <2> QED
    BY <2>3, <2>4
<1>8. ~EndOfLine
  BY DEF EndOfLine
<1>9. CopyNext /\ FlagsInv'
  BY <1>3, <1>4, <1>5, <1>6, <1>7, <1>8, Zenon DEF ScanStep
<1> QED
  BY <1>9, CopyNextCopies

\* A line of which nothing is read.
Unbegun == i = 0 /\ text = <<>> /\ argv = <<>> /\ in_SPACE /\ ~in_QM /\ ~in_TEXT /\ scan # "done"

LEMMA UnbegunCopies == TokensInv /\ Unbegun => CopyInv
<1> SUFFICES ASSUME TokensInv, Unbegun PROVE CopyInv
  OBVIOUS
<1>1. FlagsInv
  <2>1. i = 0 /\ i + 1 = 1 /\ in_SPACE /\ ~in_QM /\ ~in_TEXT
    BY DEF Unbegun
  <2>2. ~Quoted(line, i + 1)
    BY <2>1, NoneQuoted
  <2> QED
    BY <2>1, <2>2, Zenon DEF FlagsInv
<1>2. Copied = 0 /\ Len(argv) = 0 /\ i + 1 = 1 /\ scan # "done" /\ 1 .. 0 = {}
  BY DEF Copied, Unbegun
<1>3. Written(line) \subseteq 1 .. Len(line) /\ Firsts(line) \subseteq 1 .. Len(line)
  BY DEF TokensInv, Written, Kept, Ends, Firsts, Breaks
<1>4. ~\E q \in 1 .. Len(line) : q < 1
  BY DEF TokensInv
<1> DEFINE none(S) == [m \in 1 .. 0 |-> CHOOSE q \in S : TRUE]
<1>5. ASSUME NEW S \in SUBSET (1 .. Len(line))
      PROVE  none(S) \in [1 .. 0 -> S] /\ Increasing(none(S), 0) /\ AllBelow(S, 0, none(S), 1)
  BY <1>2, <1>4 DEF Increasing, AllBelow
<1> HIDE DEF none
<1>6. From(none(Written(line)))
  BY <1>2, <1>3, <1>5 DEF From
<1>7. BegunAt(none(Firsts(line)), none(Written(line)))
  BY <1>2, <1>3, <1>5 DEF BegunAt
<1>8. Copied \in Nat
  BY <1>2
<1> QED
  BY <1>1, <1>2, <1>6, <1>7, <1>8 DEF CopyInv

LEMMA EndCopies ==
  ASSUME TokensInv, CopyInv, EndOfLine
  PROVE  CopyInv'
<1>1. PICK from, at : From(from) /\ BegunAt(at, from)
  BY DEF CopyInv
<1>2. /\ scan = "scan" /\ scan' = "done" /\ i = Len(line) /\ text' = Append(text, Nul)
      /\ line' = line /\ i' = i /\ argv' = argv /\ flags' = flags
  BY DEF EndOfLine
<1>3. text \in Seq(Bytes) /\ Nul \in Bytes /\ Len(text) \in Nat
  BY DEF TokensInv, Bytes
<1>4. PICK len : len = Len(text)
  OBVIOUS
<1>5. /\ Len(text') = len + 1 /\ text'[len + 1] = Nul /\ len \in Nat
      /\ \A m \in 1 .. len : text'[m] = text[m]
  BY <1>2, <1>3, <1>4
<1>6. Copied = len /\ Copied' = len
  BY <1>2, <1>4, <1>5 DEF Copied
<1>7. From(from)'
  BY <1>1, <1>2, <1>5, <1>6 DEF From
<1>8. BegunAt(at, from)'
  BY <1>1, <1>2, <1>5, <1>6 DEF BegunAt
<1>9. FlagsInv'
  <2>1. FlagsInv /\ in_QM' = in_QM /\ in_TEXT' = in_TEXT /\ in_SPACE' = in_SPACE
    BY <1>2, Zenon DEF CopyInv, flags
  <2> QED
    BY <1>2, <2>1, Zenon DEF FlagsInv
<1>10. i' = Len(line') /\ text'[Len(text')] = Nul
  BY <1>2, <1>5
<1> QED
  BY <1>5, <1>6, <1>7, <1>8, <1>9, <1>10 DEF CopyInv

LEMMA CopyKept ==
  ASSUME CopyInv, UNCHANGED tokens
  PROVE  CopyInv'
<1>1. PICK from, at : From(from) /\ BegunAt(at, from)
  BY DEF CopyInv
<1>2. /\ scan' = scan /\ line' = line /\ i' = i /\ argv' = argv /\ text' = text
      /\ in_QM' = in_QM /\ in_TEXT' = in_TEXT /\ in_SPACE' = in_SPACE
  BY DEF tokens
<1>3. Copied' = Copied
  BY <1>2 DEF Copied
<1>4. From(from)' /\ BegunAt(at, from)'
  BY <1>1, <1>2, <1>3 DEF From, BegunAt
<1>5. FlagsInv'
  BY <1>2, Zenon DEF FlagsInv, CopyInv
<1> QED
  BY <1>2, <1>3, <1>4, <1>5 DEF CopyInv

\* Only a call for a line and the scan change what the cutting keeps.
LEMMA OthersKeepTokens ==
  ASSUME [Next]_vars PROVE MakeCmdline \/ Scan \/ UNCHANGED tokens
  BY DEF Next, Step, Finished, vars, NoMemory, InitOptions, TakeOption, EndOfOptions, Handle, HandleHelp,
         HandleFlag, HandleBucket, HandleLookType, HandleNumBuckets, HandleLookSize, Says, Usage, End,
         CheckLookaside, CheckAddress, ArgumentsMakeSense, ShowLookaside, NotALookaside, ShowPool,
         ShowOther, Cleanup

LEMMA CopyInvIsInvariant == Spec => [](CommandInv /\ CopyInv)
<1>1. ASSUME Init, CommandInv PROVE CopyInv
  <2>1. TokensInv
    BY <1>1 DEF CommandInv, CutInv
  <2>2. i = 0 /\ text = <<>> /\ argv = <<>> /\ scan = "idle" /\ in_SPACE /\ ~in_QM /\ ~in_TEXT
    BY <1>1, Zenon DEF Init, NoLine
  <2>3. Unbegun
    BY <2>2, Zenon DEF Unbegun
  <2> QED
    BY <2>1, <2>3, UnbegunCopies
<1>2. ASSUME CommandInv, CommandInv', CopyInv, [Next]_vars PROVE CopyInv'
  <2>1. TokensInv /\ TokensInv'
    BY <1>2 DEF CommandInv, CutInv
  <2>2. CASE MakeCmdline
    <3>1. PICK l : StartLine(l)
      BY <2>2 DEF MakeCmdline
    <3>2. scan = "idle" /\ scan' = "scan" /\ i' = i /\ argv' = argv /\ text' = text
          /\ in_QM' = in_QM /\ in_TEXT' = in_TEXT /\ in_SPACE' = in_SPACE
      BY <3>1, Zenon DEF StartLine, flags
    <3>3. i = 0 /\ argv = <<>> /\ text = <<>> /\ in_SPACE /\ ~in_QM
      BY <1>2, <3>2, Zenon DEF CommandInv, CutInv, AtStart
    <3>4. ~in_TEXT
      BY <1>2, <3>3, Zenon DEF CopyInv, FlagsInv
    <3>5. "scan" # "done"
      OBVIOUS
    <3>6. Unbegun'
      BY <3>2, <3>3, <3>4, <3>5, Zenon DEF Unbegun
    <3>7. (TokensInv /\ Unbegun => CopyInv)'
      BY UnbegunCopies, PTL
    <3> QED
      BY <2>1, <3>6, <3>7
  <2>3. CASE Scan
    <3>1. ScanStep
      BY <2>3 DEF Scan
    <3>2. CASE scan' = scan
      BY <1>2, <2>1, <3>1, <3>2, ScanCopies
    <3>3. CASE EndOfLine
      BY <1>2, <2>1, <3>3, EndCopies
    <3>4. scan' = scan \/ EndOfLine
      BY <3>1 DEF ScanStep, QuotedCharacter, Blank, Character, CloseQuote, OpenQuote, ReadOn
    <3> QED
      BY <3>2, <3>3, <3>4
  <2>4. CASE UNCHANGED tokens
    BY <1>2, <2>4, CopyKept
  <2> QED
    BY <1>2, <2>2, <2>3, <2>4, OthersKeepTokens
<1>3. Spec => []CommandInv
  BY CommandInvIsInvariant
<1> QED
  BY <1>1, <1>2, <1>3, PTL DEF Spec

\* A word has an end, before the next break or with the line.
LEMMA LastFromIs ==
  ASSUME NEW l, NEW len \in Nat, DOMAIN l = 1 .. len, Len(l) = len, NEW f \in Firsts(l)
  PROVE  /\ LastFrom(l, f) \in f .. len /\ f .. LastFrom(l, f) \cap Breaks(l) = {}
         /\ LastFrom(l, f) = len \/ LastFrom(l, f) + 1 \in Breaks(l)
<1> DEFINE T == {k \in f .. len : k = len \/ k + 1 \in Breaks(l)}
<1>1. f \in 1 .. len /\ f \notin Breaks(l) /\ Breaks(l) \subseteq 1 .. len
  BY DEF Firsts, Breaks
<1>2. T \in SUBSET Nat /\ T # {}
  <2>1. len \in T
    BY <1>1
  <2>2. T \in SUBSET Nat
    BY <1>1
  <2> QED
    BY <2>1, <2>2
<1>3. PICK n \in T : \A m \in T : n <= m
  BY <1>2, SmallestMember
<1>4. ASSUME NEW b \in f .. n, b \in Breaks(l) PROVE FALSE
  <2>1. b - 1 \in T
    BY <1>1, <1>3, <1>4
  <2> QED
    BY <1>1, <1>3, <1>4, <2>1
<1>5. n \in f .. Len(l) /\ f .. n \cap Breaks(l) = {} /\ (n = Len(l) \/ n + 1 \in Breaks(l))
  BY <1>3, <1>4
<1>6. LastFrom(l, f) \in f .. Len(l) /\ f .. LastFrom(l, f) \cap Breaks(l) = {}
      /\ (LastFrom(l, f) = Len(l) \/ LastFrom(l, f) + 1 \in Breaks(l))
  <2> DEFINE P(k) == f .. k \cap Breaks(l) = {} /\ (k = Len(l) \/ k + 1 \in Breaks(l))
  <2>1. LastFrom(l, f) = CHOOSE k \in f .. Len(l) : P(k)
    BY DEF LastFrom
  <2>2. \E k \in f .. Len(l) : P(k)
    BY <1>5
  <2> HIDE DEF P
  <2>3. LastFrom(l, f) \in f .. Len(l) /\ P(LastFrom(l, f))
    BY <2>1, <2>2
  <2> QED
    BY <2>3 DEF P
<1> QED
  BY <1>6

LEMMA PartOf ==
  ASSUME NEW S, NEW s \in Seq(S), NEW a \in Nat, NEW b \in Nat, b <= Len(s)
  PROVE  SubSeq(s, a + 1, b) = [k \in 1 .. b - a |-> s[a + k]]
<1>1. b - (a + 1) + 1 = b - a /\ \A k \in 1 .. b - a : k + (a + 1) - 1 = a + k
  OBVIOUS
<1>2. SubSeq(s, a + 1, b) = [k \in 1 .. b - (a + 1) + 1 |-> s[k + (a + 1) - 1]]
  BY SMT
<1> QED
  BY <1>1, <1>2

\* Everything of the line is copied, the first C bytes of the text area.
AllFrom(C, from) ==
  /\ C \in Nat /\ Len(line) \in Nat /\ line \in Seq(Characters)
  /\ text \in Seq(Bytes) /\ Len(text) = C + 1 /\ text[C + 1] = Nul
  /\ from \in [1 .. C -> Written(line)] /\ Increasing(from, C)
  /\ \A q \in Written(line) : \E m \in 1 .. C : from[m] = q
  /\ \A m \in 1 .. C : text[m] = IF from[m] \in Ends(line) THEN Nul ELSE line[from[m]]

\* The word that begins in the text where the word of the line at f does.
LEMMA WordIsCopied ==
  ASSUME NEW C, NEW from, AllFrom(C, from),
         NEW f \in Firsts(line), NEW a \in 0 .. C, \A m \in 1 .. C : m <= a <=> from[m] < f
  PROVE  WordFrom(a) = WordAtFirst(line, f)
<1> SUFFICES ASSUME NEW len \in Nat, C \in Nat, line \in Seq(Characters), Len(line) = len,
                    text \in Seq(Bytes), Len(text) = C + 1, text[C + 1] = Nul,
                    from \in [1 .. C -> Written(line)], Increasing(from, C),
                    \A q \in Written(line) : \E m \in 1 .. C : from[m] = q,
                    \A m \in 1 .. C : text[m] = IF from[m] \in Ends(line) THEN Nul ELSE line[from[m]]
             PROVE  WordFrom(a) = WordAtFirst(line, f)
  BY DEF AllFrom
<1>1. PICK L : L = LastFrom(line, f)
  OBVIOUS
<1>2. L \in f .. len /\ f .. L \cap Breaks(line) = {} /\ (L = len \/ L + 1 \in Breaks(line))
  BY <1>1, LastFromIs
<1>3. f \in 1 .. len /\ \A q \in Written(line) : q \in 1 .. len
  BY <1>1 DEF Firsts, Written, Kept, Ends, Breaks
<1>4. \A m \in 1 .. C : text[m] = Nul <=> from[m] \in Ends(line)
  <2>1. Nul \notin Characters
    <3>1. Nul # " " /\ \A c \in CommandNames : Name[c] # Nul
      BY DEF Nul, Name, CommandNames
    <3> QED
      BY <3>1, Zenon DEF Characters
  <2>2. \A q \in 1 .. len : line[q] # Nul
    BY <2>1
  <2> QED
    BY <1>3, <2>2
<1>5. PICK e \in {n \in a + 1 .. C + 1 : text[n] = Nul} :
        \A m \in {n \in a + 1 .. C + 1 : text[n] = Nul} : e <= m
  <2> DEFINE T == {n \in a + 1 .. C + 1 : text[n] = Nul}
  <2>1. T \in SUBSET Nat /\ T # {}
    BY DEF Bytes
  <2> QED
    BY <2>1, SmallestMember
<1>6. WordFrom(a) = SubSeq(text, a + 1, e - 1)
  <2> DEFINE T == {n \in a + 1 .. Len(text) : text[n] = Nul}
  <2>1. WordFrom(a) = SubSeq(text, a + 1, (CHOOSE n \in T : \A m \in T : n <= m) - 1)
    BY DEF WordFrom
  <2>2. e \in T /\ (\A m \in T : e <= m) /\ \A n \in T : n \in Int
    <3>1. T = {n \in a + 1 .. C + 1 : text[n] = Nul}
      OBVIOUS
    <3>2. \A n \in T : n \in Int
      OBVIOUS
    <3> QED
      BY <1>5, <3>1, <3>2
  <2>3. (CHOOSE n \in T : \A m \in T : n <= m) = e
    <3> HIDE DEF T
    <3>1. \A n \in T : (\A m \in T : n <= m) => n = e
      BY <2>2
    <3> QED
      BY <2>2, <3>1
  <2> QED
    BY <2>1, <2>3
<1>7. \A m \in 1 .. C : from[m] \in 1 .. len /\ (a < m <=> f <= from[m])
  BY <1>3
<1>8. \A m, k \in 1 .. C : m <= k <=> from[m] <= from[k]
  <2> SUFFICES ASSUME NEW m \in 1 .. C, NEW k \in 1 .. C PROVE m <= k <=> from[m] <= from[k]
    OBVIOUS
  <2>1. (m < k => from[m] < from[k]) /\ (k < m => from[k] < from[m])
    BY DEF Increasing
  <2>2. PICK x, y : x = from[m] /\ y = from[k]
    OBVIOUS
  <2>3. x \in Int /\ y \in Int /\ (m < k => x < y) /\ (k < m => y < x) /\ (m = k => x = y)
    BY <1>7, <2>1, <2>2
  <2>4. m <= k <=> x <= y
    BY <2>3
  <2> QED
    BY <2>2, <2>4
<1>9. ASSUME NEW m \in 1 .. C
      PROVE  m \in a + 1 .. e - 1 <=> from[m] \in f .. L
  <2>1. ASSUME m \in a + 1 .. e - 1, L < from[m] PROVE FALSE
    <3>1. L < len /\ L + 1 \in Breaks(line) /\ L \notin Breaks(line) /\ L \in 1 .. len
      <4>1. L \in f .. len /\ f \in 1 .. len /\ from[m] \in 1 .. len /\ L < from[m]
        BY <1>2, <1>3, <1>7, <2>1
      <4>2. L < len /\ L \in 1 .. len /\ L \in f .. L /\ L # len
        BY <4>1
      <4> QED
        BY <1>2, <4>2
    <3>2. L + 1 \in Ends(line)
      BY <3>1 DEF Ends
    <3>3. PICK k \in 1 .. C : from[k] = L + 1
      BY <3>2 DEF Written
    <3>4. k <= m /\ a < k
      BY <1>2, <1>3, <1>7, <1>8, <2>1, <3>3
    <3>5. text[k] = Nul
      BY <1>4, <3>2, <3>3
    <3> QED
      BY <1>5, <2>1, <3>4, <3>5
  <2>2. ASSUME from[m] \in f .. L, e <= m PROVE FALSE
    <3>1. e \in 1 .. C /\ a < e /\ text[e] = Nul
      BY <1>5, <2>2
    <3>2. from[e] \in Breaks(line) /\ f <= from[e] /\ from[e] <= from[m]
      BY <1>4, <1>7, <1>8, <2>2, <3>1 DEF Ends
    <3> QED
      BY <1>2, <1>3, <1>7, <2>2, <3>1, <3>2
  <2> QED
    BY <1>2, <1>3, <1>5, <1>7, <2>1, <2>2
<1> DEFINE P == {q \in f .. L : line[q] # Quote}
           n == e - 1 - a
<1>10. PICK s : s = [k \in 1 .. n |-> from[a + k]]
  OBVIOUS
<1>11. n \in Nat /\ (\A k \in 1 .. n : a + k \in 1 .. C /\ a + k \in a + 1 .. e - 1)
       /\ (\A m \in a + 1 .. e - 1 : m \in 1 .. C /\ m - a \in 1 .. n /\ a + (m - a) = m)
  BY <1>5
<1>12. P \in SUBSET Nat /\ IsFiniteSet(P)
  <2>1. IsFiniteSet(f .. L) /\ P \subseteq f .. L
    BY <1>2, <1>3, FS_Interval
  <2> QED
    BY <1>2, <1>3, <2>1, FS_Subset
<1>13. \A q \in P : q \in Kept(line)
  BY <1>2, <1>3 DEF Kept
<1>14. \A k \in 1 .. n : from[a + k] \in P /\ text[a + k] = line[from[a + k]]
  <2> SUFFICES ASSUME NEW k \in 1 .. n PROVE from[a + k] \in P /\ text[a + k] = line[from[a + k]]
    OBVIOUS
  <2>1. PICK m : m = a + k
    OBVIOUS
  <2>2. m \in 1 .. C /\ from[m] \in f .. L /\ from[m] \in Written(line)
    BY <1>9, <1>11, <2>1
  <2>3. from[m] \notin Ends(line) /\ from[m] \in Kept(line)
    BY <1>2, <2>2 DEF Written, Ends
  <2>4. from[m] \in P /\ text[m] = line[from[m]]
    BY <2>2, <2>3 DEF Kept
  <2> QED
    BY <2>1, <2>4
<1>15. s \in [1 .. n -> P] /\ Increasing(s, n)
  <2>1. s \in [1 .. n -> P]
    BY <1>10, <1>14
  <2>2. ASSUME NEW x \in 1 .. n, NEW y \in 1 .. n, x < y PROVE s[x] < s[y]
    <3>1. a + x \in 1 .. C /\ a + y \in 1 .. C /\ a + x < a + y
      BY <1>11, <2>2
    <3>2. from[a + x] < from[a + y]
      BY <3>1 DEF Increasing
    <3> QED
      BY <1>10, <3>2
  <2> QED
    BY <2>1, <2>2 DEF Increasing
<1>16. ASSUME NEW q \in P PROVE \E k \in 1 .. n : s[k] = q
  <2>1. PICK m \in 1 .. C : from[m] = q
    BY <1>13 DEF Written
  <2>2. m \in a + 1 .. e - 1
    BY <1>9, <2>1
  <2>3. m - a \in 1 .. n /\ s[m - a] = q
    BY <1>10, <1>11, <2>1, <2>2
  <2> QED
    BY <2>3
<1>17. InOrder(P) = s
  <2>1. n \in Nat
    BY <1>11
  <2>2. \A q \in P : \E k \in 1 .. n : s[k] = q
    BY <1>16
  <2> HIDE DEF P, n
  <2>3. Lists(s, n, P)
    BY <1>12, <1>15, <2>1, <2>2 DEF Lists
  <2> QED
    BY <2>3, WholeInOrder
<1>18. WordAtFirst(line, f) = [k \in DOMAIN s |-> line[s[k]]]
  BY <1>1, <1>17 DEF WordAtFirst
<1>19. WordAtFirst(line, f) = [k \in 1 .. n |-> text[a + k]]
  <2>1. DOMAIN s = 1 .. n
    BY <1>10
  <2>2. \A k \in 1 .. n : line[s[k]] = text[a + k]
    BY <1>10, <1>14
  <2> QED
    BY <1>18, <2>1, <2>2
<1>20. SubSeq(text, a + 1, e - 1) = [k \in 1 .. n |-> text[a + k]]
  <2>1. PICK b : b = e - 1
    OBVIOUS
  <2>2. b \in Nat /\ b <= Len(text) /\ n = b - a /\ a \in Nat
    BY <1>5, <2>1
  <2>3. SubSeq(text, a + 1, b) = [k \in 1 .. b - a |-> text[a + k]]
    BY <2>2, PartOf
  <2> QED
    BY <2>1, <2>2, <2>3
<1> QED
  BY <1>6, <1>19, <1>20

\* When the line is read, every byte is copied and every word has begun.
LEMMA WordsAreCut ==
  ASSUME TokensInv, CutInv, CopyInv, scan = "done"
  PROVE  Words = WordsOf(line)
<1>1. PICK from, at : From(from) /\ BegunAt(at, from)
  BY DEF CopyInv
<1>2. PICK C, len, n : C = Copied /\ len = Len(line) /\ n = Len(argv)
  OBVIOUS
<1>3. /\ C \in Nat /\ len \in Nat /\ n \in Nat /\ i + 1 = len + 1
      /\ line \in Seq(Characters) /\ text \in Seq(Bytes) /\ Len(text) = C + 1 /\ text[C + 1] = Nul
      /\ DOMAIN line = 1 .. len /\ DOMAIN argv = 1 .. n
  BY <1>2 DEF CopyInv, TokensInv, Copied
<1>4. /\ \A q \in Written(line) : q \in 1 .. len
      /\ \A q \in Firsts(line) : q \in 1 .. len
  BY <1>3 DEF Written, Kept, Ends, Firsts, Breaks
<1>5. \A q \in 1 .. len : q < len + 1 /\ q \in Nat
  BY <1>3
<1>6. from \in [1 .. C -> Written(line)] /\ Increasing(from, C)
      /\ (\A q \in Written(line) : \E m \in 1 .. C : from[m] = q)
      /\ \A m \in 1 .. C : text[m] = IF from[m] \in Ends(line) THEN Nul ELSE line[from[m]]
  BY <1>1, <1>2, <1>3, <1>4, <1>5 DEF From, AllBelow
<1>7. at \in [1 .. n -> Firsts(line)] /\ Increasing(at, n)
      /\ (\A q \in Firsts(line) : \E m \in 1 .. n : at[m] = q)
      /\ \A x \in 1 .. n : argv[x] \in 0 .. C /\ \A m \in 1 .. C : m <= argv[x] <=> from[m] < at[x]
  BY <1>1, <1>2, <1>3, <1>4, <1>5 DEF BegunAt, AllBelow
<1>11. AllFrom(C, from)
  BY <1>2, <1>3, <1>6 DEF AllFrom
<1>8. ASSUME NEW x \in 1 .. n PROVE WordFrom(argv[x]) = WordAtFirst(line, at[x])
  <2>1. PICK f, a : f = at[x] /\ a = argv[x]
    OBVIOUS
  <2>2. f \in Firsts(line) /\ a \in 0 .. C /\ \A m \in 1 .. C : m <= a <=> from[m] < f
    BY <1>7, <2>1
  <2>3. WordFrom(a) = WordAtFirst(line, f)
    BY <1>11, <2>2, WordIsCopied
  <2> QED
    BY <2>1, <2>3
<1>9. InOrder(Firsts(line)) = at
  <2>1. Firsts(line) \in SUBSET Nat /\ Firsts(line) \subseteq 1 .. len
    BY <1>4, <1>5
  <2>2. IsFiniteSet(Firsts(line))
    <3>1. IsFiniteSet(1 .. len)
      BY <1>3, FS_Interval
    <3> QED
      BY <2>1, <3>1, FS_Subset, Zenon
  <2>3. Lists(at, n, Firsts(line))
    BY <1>3, <1>7, <2>1, <2>2 DEF Lists
  <2> QED
    BY <2>3, WholeInOrder
<1>10. DOMAIN at = 1 .. n
  BY <1>7
<1> QED
  BY <1>2, <1>8, <1>9, <1>10 DEF Words, argc, WordsOf

\* The words found are the words of the line: none is cut at a quoted blank,
\* none runs into the next, and an empty pair of quotes is a word, whatever
\* the line.
THEOREM WordsAreCutRight == Spec => []WordsAreTheLine
<1>1. CommandInv /\ CopyInv => WordsAreTheLine
  BY WordsAreCut DEF CommandInv, CutInv, WordsAreTheLine
<1> QED
  BY <1>1, CopyInvIsInvariant, PTL

-----------------------------------------------------------------------------
\* The options and the files, word by word of the command line.

\* A word is an argument if the word before it is an option that wants one and
\* it is none itself: that the word before is no argument goes without saying.
LEMMA ArgumentsAre ==
  ASSUME Len(words) \in Nat, NEW p \in Places
  PROVE  IsArgument[p] <=> /\ p > 1 /\ IsSwitch(words[p]) /\ Read(words[p]).wants
                           /\ ~IsSwitch(words[p + 1])
<1> DEFINE Wants(q) == IsSwitch(words[q]) /\ Read(words[q]).wants
           D(f) == f = [q \in Places |-> /\ q > 1 /\ ~f[q - 1]
                                         /\ IsSwitch(words[q]) /\ Read(words[q]).wants
                                         /\ ~IsSwitch(words[q + 1])]
           g == [q \in Places |-> q > 1 /\ Wants(q) /\ ~IsSwitch(words[q + 1])]
<1>1. IsArgument = CHOOSE f : D(f)
  BY DEF IsArgument
<1>2. \A q \in Places : q > 1 => q - 1 \in Places /\ (q - 1) + 1 = q
  BY DEF Places, m_argc
<1>3. ASSUME NEW q \in Places
      PROVE  g[q] = (q > 1 /\ ~g[q - 1] /\ IsSwitch(words[q]) /\ Read(words[q]).wants /\ ~IsSwitch(words[q + 1]))
  <2>1. CASE q > 1
    <3>1. q - 1 \in Places /\ (q - 1) + 1 = q
      BY <1>2, <2>1
    <3>2. g[q - 1] = (q - 1 > 1 /\ Wants(q - 1) /\ ~IsSwitch(words[q]))
      BY <3>1
    <3>3. g[q] = (q > 1 /\ Wants(q) /\ ~IsSwitch(words[q + 1]))
      OBVIOUS
    <3> HIDE DEF g
    <3> QED
      BY <2>1, <3>2, <3>3, Zenon
  <2>2. CASE ~(q > 1)
    <3>3. g[q] = (q > 1 /\ Wants(q) /\ ~IsSwitch(words[q + 1]))
      OBVIOUS
    <3> HIDE DEF g
    <3> QED
      BY <2>2, <3>3, Zenon
  <2> QED
    BY <2>1, <2>2
<1>4. D(g)
  BY <1>3, Zenon
<1> HIDE DEF g
<1>5. D(IsArgument)
  BY <1>1, <1>4, Zenon
<1>6. \A q \in Places : IsArgument[q] =
        (q > 1 /\ ~IsArgument[q - 1] /\ IsSwitch(words[q]) /\ Read(words[q]).wants /\ ~IsSwitch(words[q + 1]))
  BY <1>5, Zenon
<1>7. CASE p > 1
  <2>1. p - 1 \in Places /\ (p - 1) + 1 = p
    BY <1>2, <1>7
  <2>2. IsArgument[p - 1] => ~IsSwitch(words[p])
    BY <1>6, <2>1, Zenon
  <2> QED
    BY <1>6, <1>7, <2>2, Zenon
<1>8. CASE ~(p > 1)
  BY <1>6, <1>8, Zenon
<1> QED
  BY <1>7, <1>8

-----------------------------------------------------------------------------
\* The command line that is read is the one that was read before.
LEMMA SameReading ==
  ASSUME UNCHANGED cmdline
  PROVE  /\ m_argc' = m_argc /\ Places' = Places
         /\ OptionPlaces' = OptionPlaces /\ FilePlaces' = FilePlaces
         /\ \A p : OptionAt(p)' = OptionAt(p)
         /\ IsArgument' = IsArgument
<1>1. words' = words /\ m_rgOptions' = m_rgOptions
  BY DEF cmdline
<1>2. m_argc' = m_argc
  BY <1>1 DEF m_argc
<1>2a. Places' = Places
  BY <1>2 DEF Places
<1>3. \A s : Perfect(s)' = Perfect(s)
  BY <1>1 DEF Perfect
<1>3a. \A s : Partial(s)' = Partial(s)
  BY <1>1 DEF Partial
<1>4. ASSUME NEW s PROVE LookupOption(s)' = LookupOption(s)
  BY <1>3, <1>3a DEF LookupOption
<1>5. ASSUME NEW w PROVE Read(w)' = Read(w)
  BY <1>1, <1>4 DEF Read
<1>6. IsArgument' = IsArgument
  BY <1>1, <1>2a, <1>5 DEF IsArgument
<1>7. OptionPlaces' = OptionPlaces
  BY <1>1, <1>2a DEF OptionPlaces
<1>8. FilePlaces' = FilePlaces
  BY <1>1, <1>2a, <1>6 DEF FilePlaces
<1>9. ASSUME NEW p PROVE OptionAt(p)' = OptionAt(p)
  BY <1>1, <1>2, <1>5, <1>6 DEF OptionAt
<1> QED
  BY <1>2, <1>2a, <1>6, <1>7, <1>8, <1>9
-----------------------------------------------------------------------------
\* The words before m_nNextOption have been returned, and as many as there are
\* files have been passed over: the unread words are those of the command line
\* from here on.
Moved    == m_argc - m_nLastArg
Frontier == m_nNextOption + Moved

UnreadAsTyped == \A p \in Unread : m_argv[p] = p + Moved

\* An option has been returned together with its argument.
AtAWord == Frontier \in Places => ~IsArgument[Frontier]

\* The files are those that stand before.
FilesRead == {m_argv[p] : p \in m_nLastArg .. m_argc - 1} = {q \in FilePlaces : q < Frontier}

\* So are the options returned, in the order of the command line.
OptionsRead ==
  /\ returned \in Seq({OptionAt(p) : p \in OptionPlaces})
  /\ \A n, k \in DOMAIN returned : n < k => returned[n].at < returned[k].at
  /\ {returned[n].at : n \in DOMAIN returned} = {q \in OptionPlaces : q < Frontier}

ReadInv ==
  /\ parse = "idle" => returned = <<>>
  /\ parse = "end" => m_nLastArg = m_nNextOption
  /\ parse # "idle" => UnreadAsTyped /\ AtAWord /\ FilesRead /\ OptionsRead

\* Where the unread words are, on the command line.
LEMMA FrontierIs ==
  ASSUME ArrayInv, parse # "idle"
  PROVE  /\ m_argc \in Nat \ {0} /\ m_nLastArg \in 1 .. m_argc /\ m_nNextOption \in 1 .. m_nLastArg
         /\ Moved \in Nat /\ Frontier \in 1 .. m_argc
         /\ \A p \in Unread : p + Moved \in Frontier .. m_argc - 1 /\ p \in Places /\ p + Moved \in Places
  BY DEF ArrayInv, m_argc, Moved, Frontier, Unread, Places

\* Words that are no options, from where one begins on, are files.
LEMMA PassedWords ==
  ASSUME ArrayInv, parse # "idle", AtAWord,
         NEW f \in Frontier .. m_argc, \A q \in Frontier .. f - 1 : ~IsSwitch(words[q + 1])
  PROVE  /\ {q \in FilePlaces : q < f} = {q \in FilePlaces : q < Frontier} \cup (Frontier .. f - 1)
         /\ {q \in OptionPlaces : q < f} = {q \in OptionPlaces : q < Frontier}
<1>1. m_argc \in Nat /\ Frontier \in 1 .. m_argc
  BY FrontierIs
<1>2. ASSUME NEW q \in Frontier .. f - 1
      PROVE  q \in Places /\ q > 0 /\ ~IsSwitch(words[q + 1]) /\ ~IsArgument[q]
  <2>1. q \in Places /\ q > 0 /\ ~IsSwitch(words[q + 1])
    BY <1>1 DEF Places
  <2>2. CASE q = Frontier
    BY <2>1, <2>2 DEF AtAWord
  <2>3. CASE q # Frontier
    <3>1. q - 1 \in Frontier .. f - 1 /\ (q - 1) + 1 = q
      BY <1>1, <2>3
    <3>2. ~IsSwitch(words[q])
      BY <3>1
    <3>3. Len(words) \in Nat
      BY DEF ArrayInv
    <3> QED
      BY <2>1, <3>2, <3>3, ArgumentsAre
  <2> QED
    BY <2>1, <2>2, <2>3
<1>3. \A q \in Frontier .. f - 1 : q \in FilePlaces /\ q \notin OptionPlaces
  BY <1>2, Zenon DEF FilePlaces, OptionPlaces
<1>4. \A q \in FilePlaces \cup OptionPlaces : q \in Int
  BY DEF FilePlaces, OptionPlaces, Places
<1> QED
  BY <1>1, <1>3, <1>4

\* A shuffle of the first unread words: they are files after it, and the others
\* are where they belong.
LEMMA ShuffleMoves ==
  ASSUME ArrayInv, parse # "idle", UnreadAsTyped,
         NEW count \in 0 .. m_nLastArg - m_nNextOption,
         m_argv' = Shuffled(m_nNextOption, count)
  PROVE  /\ {m_argv'[p] : p \in m_nLastArg - count .. m_argc - 1}
            = {m_argv[p] : p \in m_nLastArg .. m_argc - 1} \cup (Frontier .. Frontier + count - 1)
         /\ \A p \in m_nNextOption .. m_nLastArg - count - 1 : m_argv'[p] = p + (Moved + count)
<1> DEFINE n == m_argc - m_nNextOption - count
           Old == {m_argv[p] : p \in m_nLastArg .. m_argc - 1}
           New == {m_argv'[p] : p \in m_nLastArg - count .. m_argc - 1}
<1>1. /\ m_argc \in Nat \ {0} /\ m_nLastArg \in 1 .. m_argc /\ m_nNextOption \in 1 .. m_nLastArg
      /\ Moved = m_argc - m_nLastArg /\ Frontier = m_nNextOption + Moved
  BY FrontierIs DEF Moved, Frontier
<1>2. /\ \A p \in m_nNextOption .. m_argc - count - 1 : m_argv'[p] = m_argv[p + count]
      /\ \A p \in m_argc - count .. m_argc - 1 : m_argv'[p] = m_argv[p - n]
  BY ShuffledIs
<1>3. \A p \in m_nNextOption .. m_nLastArg - 1 : m_argv[p] = p + Moved
  BY DEF UnreadAsTyped, Unread
<1>4. ASSUME NEW p \in m_nNextOption .. m_nLastArg - count - 1 PROVE m_argv'[p] = p + (Moved + count)
  <2>1. p \in m_nNextOption .. m_argc - count - 1 /\ p + count \in m_nNextOption .. m_nLastArg - 1
    BY <1>1
  <2>2. m_argv'[p] = (p + count) + Moved
    BY <1>2, <1>3, <2>1
  <2> QED
    BY <1>1, <2>2
<1>5. ASSUME NEW p \in m_nLastArg - count .. m_argc - 1
      PROVE  m_argv'[p] \in Old \cup (Frontier .. Frontier + count - 1)
  <2>1. CASE p < m_argc - count
    <3>1. p \in m_nNextOption .. m_argc - count - 1 /\ p + count \in m_nLastArg .. m_argc - 1
      BY <1>1, <2>1
    <3> QED
      BY <1>2, <3>1
  <2>2. CASE ~(p < m_argc - count)
    <3>1. p \in m_argc - count .. m_argc - 1 /\ p - n \in m_nNextOption .. m_nLastArg - 1
      BY <1>1, <2>2
    <3>2. m_argv'[p] = (p - n) + Moved
      BY <1>2, <1>3, <3>1
    <3>3. (p - n) + Moved \in Frontier .. Frontier + count - 1
      BY <1>1, <2>2
    <3> QED
      BY <3>2, <3>3
  <2> QED
    BY <2>1, <2>2
<1>6. ASSUME NEW p \in m_nLastArg .. m_argc - 1 PROVE m_argv[p] \in New
  <2>1. /\ p - count \in m_nNextOption .. m_argc - count - 1 /\ (p - count) + count = p
        /\ p - count \in m_nLastArg - count .. m_argc - 1
    BY <1>1
  <2>2. m_argv'[p - count] = m_argv[p]
    BY <1>2, <2>1
  <2> QED
    BY <2>1, <2>2
<1>7. ASSUME NEW q \in Frontier .. Frontier + count - 1 PROVE q \in New
  <2>1. PICK p : p = q - Moved + n
    OBVIOUS
  <2>2. /\ p \in m_argc - count .. m_argc - 1 /\ p \in m_nLastArg - count .. m_argc - 1
        /\ p - n \in m_nNextOption .. m_nLastArg - 1 /\ (p - n) + Moved = q
    BY <1>1, <2>1
  <2>3. m_argv'[p] = q
    BY <1>2, <1>3, <2>2
  <2> QED
    BY <2>2, <2>3
<1>8. New = Old \cup (Frontier .. Frontier + count - 1)
  <2>1. \A x \in New : x \in Old \cup (Frontier .. Frontier + count - 1)
    BY <1>5
  <2>2. \A x \in Old : x \in New
    BY <1>6
  <2> HIDE DEF New, Old
  <2> QED
    BY <1>7, <2>1, <2>2
<1> QED
  BY <1>4, <1>8

\* What Next returns, of words it may have moved, is what stands on the command
\* line; and behind its argument, if it has one, the next word begins.
LEMMA NextReturns ==
  ASSUME ArrayInv, UnreadAsTyped, NEW k \in Unread, NextOption(k)
  PROVE  /\ option' = OptionAt(k + Moved) /\ returned' = Append(returned, OptionAt(k + Moved))
         /\ option'.argAt = 0 =>
              (k + Moved + 1 \in Places => ~IsArgument[k + Moved + 1])
         /\ option'.argAt # 0 =>
              k + Moved + 1 \in Places /\ IsArgument[k + Moved + 1]
<1> DEFINE at == k + Moved
           o  == Read(words[at + 1])
           has == o.wants /\ MultiArg(k + 1, m_nLastArg) = "SO_SUCCESS"
<1>1. /\ m_argc \in Nat \ {0} /\ m_nLastArg \in 1 .. m_argc /\ m_nNextOption \in 1 .. m_nLastArg
      /\ Moved = m_argc - m_nLastArg /\ Len(words) \in Nat
      /\ k \in m_nNextOption .. m_nLastArg - 1 /\ at \in 1 .. m_argc - 1
  BY FrontierIs DEF Moved, Unread, NextOption, ArrayInv
<1>2. m_argv[k] = at /\ WordAt(k) = words[at + 1] /\ IsSwitch(words[at + 1])
  BY DEF UnreadAsTyped, WordAt, NextOption, FirstSwitch
<1>3. k + 1 < m_nLastArg <=> at + 1 < m_argc
  BY <1>1
<1>4. k + 1 < m_nLastArg => m_argv[k + 1] = at + 1 /\ WordAt(k + 1) = words[at + 2]
  <2>1. k + 1 < m_nLastArg => k + 1 \in Unread /\ (k + 1) + Moved = at + 1 /\ (at + 1) + 1 = at + 2
    BY <1>1 DEF Unread
  <2> QED
    BY <2>1 DEF UnreadAsTyped, WordAt
<1>5. at + 1 \in Places <=> at + 1 < m_argc
  BY <1>1 DEF Places
<1>6. at + 1 < m_argc => (IsArgument[at + 1] <=> o.wants /\ ~IsSwitch(words[at + 2]))
  <2>1. at + 1 > 1 /\ (at + 1) + 1 = at + 2
    BY <1>1
  <2> QED
    BY <1>1, <1>2, <1>5, <2>1, ArgumentsAre
<1>7. MultiArg(k + 1, m_nLastArg) = IF at + 1 >= m_argc THEN "SO_ARG_MISSING"
                                    ELSE IF IsSwitch(words[at + 2]) THEN "SO_ARG_INVALID_DATA"
                                    ELSE "SO_SUCCESS"
  BY <1>1, <1>3, <1>4 DEF MultiArg
<1>8. has <=> at + 1 < m_argc /\ IsArgument[at + 1]
  <2>1. at + 1 >= m_argc <=> ~(at + 1 < m_argc)
    BY <1>1
  <2>2. MultiArg(k + 1, m_nLastArg) = "SO_SUCCESS" <=> at + 1 < m_argc /\ ~IsSwitch(words[at + 2])
    BY <1>7, <2>1
  <2> QED
    BY <1>6, <2>2, Zenon
<1>9. o.wants => o.arg = NULL
  BY DEF Read
<1>10. OptionAt(at) =
         [at    |-> at,
          error |-> IF o.wants THEN MultiArg(k + 1, m_nLastArg) ELSE o.error,
          id    |-> o.id,
          argAt |-> IF has THEN at + 1 ELSE 0,
          arg   |-> IF has THEN words[at + 2] ELSE o.arg]
  <2>1. (IF ~o.wants THEN o.error
         ELSE IF at + 1 = m_argc THEN "SO_ARG_MISSING"
         ELSE IF IsArgument[at + 1] THEN "SO_SUCCESS" ELSE "SO_ARG_INVALID_DATA")
        = IF o.wants THEN MultiArg(k + 1, m_nLastArg) ELSE o.error
    <3>1. at + 1 = m_argc <=> ~(at + 1 < m_argc)
      BY <1>1
    <3>2. at + 1 >= m_argc <=> ~(at + 1 < m_argc)
      BY <1>1
    <3> HIDE DEF o, at
    <3> QED
      BY <1>6, <1>7, <3>1, <3>2
  <2>2. (o.wants /\ at + 1 < m_argc /\ IsArgument[at + 1]) <=> has
    BY <1>8, Zenon
  <2>3. (IF ~o.wants THEN o.arg
         ELSE IF at + 1 < m_argc /\ IsArgument[at + 1] THEN words[at + 2] ELSE NULL)
        = IF has THEN words[at + 2] ELSE o.arg
    <3> HIDE DEF o, at
    <3> QED
      BY <1>8, <1>9
  <2> HIDE DEF has
  <2> QED
    BY <2>1, <2>2, <2>3 DEF OptionAt
<1>11. option' = [at    |-> at,
                  error |-> IF o.wants THEN MultiArg(k + 1, m_nLastArg) ELSE o.error,
                  id    |-> o.id,
                  argAt |-> IF has THEN at + 1 ELSE 0,
                  arg   |-> IF has THEN words[at + 2] ELSE o.arg]
       /\ returned' = Append(returned, option')
  <2>1. has => k + 1 < m_nLastArg
    BY <1>1, <1>3, <1>8
  <2>2. (IF has THEN m_argv[k + 1] ELSE 0) = IF has THEN at + 1 ELSE 0
    BY <1>4, <2>1
  <2>3. (IF has THEN WordAt(k + 1) ELSE o.arg) = IF has THEN words[at + 2] ELSE o.arg
    BY <1>4, <2>1
  <2>4. Return([at    |-> m_argv[k],
                error |-> IF o.wants THEN MultiArg(k + 1, m_nLastArg) ELSE o.error,
                id    |-> o.id,
                argAt |-> IF has THEN m_argv[k + 1] ELSE 0,
                arg   |-> IF has THEN WordAt(k + 1) ELSE o.arg])
    BY <1>2 DEF NextOption
  <2> QED
    BY <1>2, <2>2, <2>3, <2>4 DEF Return
<1>12. option' = OptionAt(at) /\ returned' = Append(returned, OptionAt(at))
  BY <1>10, <1>11
<1>13. option'.argAt = IF has THEN at + 1 ELSE 0
  BY <1>11
<1>14. (option'.argAt # 0) <=> has
  BY <1>1, <1>13
<1> QED
  BY <1>5, <1>8, <1>12, <1>14

LEMMA NextOptionReads ==
  ASSUME ParseInv, ReadInv, NEW k \in Unread, NextOption(k)
  PROVE  ReadInv'
<1> DEFINE at    == k + Moved
           count == k - m_nNextOption
<1>1. /\ m_argc \in Nat \ {0} /\ m_nLastArg \in 1 .. m_argc /\ m_nNextOption \in 1 .. m_nLastArg
      /\ Moved = m_argc - m_nLastArg /\ Frontier = m_nNextOption + Moved
      /\ k \in m_nNextOption .. m_nLastArg - 1 /\ at \in Frontier .. m_argc - 1 /\ at \in Places
      /\ Frontier \in 1 .. m_argc /\ count \in 0 .. m_nLastArg - m_nNextOption
      /\ at = Frontier + count /\ Moved \in Nat
  BY FrontierIs DEF ParseInv, NextOption, Moved, Frontier, Unread
<1>2. /\ UnreadAsTyped /\ AtAWord /\ FilesRead /\ OptionsRead /\ ArrayInv
      /\ parse = "next" /\ parse' = "next" /\ UNCHANGED cmdline
      /\ m_argv' = Shuffled(m_nNextOption, count) /\ m_nLastArg' = m_nLastArg - count
      /\ m_nNextOption' = m_nNextOption + (IF option'.argAt = 0 THEN 1 ELSE 2)
  BY DEF ReadInv, ParseInv, NextOption, ShuffleArg
<1>3. /\ m_argc' = m_argc /\ Places' = Places /\ OptionPlaces' = OptionPlaces
      /\ FilePlaces' = FilePlaces /\ IsArgument' = IsArgument
      /\ \A p : OptionAt(p)' = OptionAt(p)
  BY <1>2, SameReading
<1>4. /\ returned' = Append(returned, OptionAt(at))
      /\ option'.argAt = 0 => (at + 1 \in Places => ~IsArgument[at + 1])
      /\ option'.argAt # 0 => at + 1 \in Places /\ IsArgument[at + 1]
  BY <1>2, NextReturns
<1>5. Moved' = Moved + count /\ Frontier' = at + (IF option'.argAt = 0 THEN 1 ELSE 2)
  BY <1>1, <1>2, <1>3 DEF Moved, Frontier
<1>6. IsSwitch(words[at + 1]) /\ \A q \in Frontier .. at - 1 : ~IsSwitch(words[q + 1])
  <2>1. WordAt(k) = words[at + 1]
    BY <1>2 DEF UnreadAsTyped, WordAt
  <2>2. ASSUME NEW q \in Frontier .. at - 1 PROVE ~IsSwitch(words[q + 1])
    <3>1. q - Moved \in m_nNextOption .. k - 1 /\ q - Moved \in m_nNextOption .. m_nLastArg - 1
          /\ (q - Moved) + Moved = q
      BY <1>1
    <3>2. WordAt(q - Moved) = words[q + 1]
      BY <1>2, <3>1 DEF UnreadAsTyped, Unread, WordAt
    <3> QED
      BY <3>1, <3>2 DEF NextOption, FirstSwitch
  <2> QED
    BY <2>1, <2>2 DEF NextOption, FirstSwitch
<1>7. /\ {q \in FilePlaces : q < at} = {q \in FilePlaces : q < Frontier} \cup (Frontier .. at - 1)
      /\ {q \in OptionPlaces : q < at} = {q \in OptionPlaces : q < Frontier}
  <2>1. at \in Frontier .. m_argc /\ parse # "idle"
    BY <1>1, <1>2
  <2> HIDE DEF at
  <2> QED
    BY <1>2, <1>6, <2>1, PassedWords
\* The option is no file, nor is its argument a file or an option.
<1>8. /\ at \in OptionPlaces /\ at \notin FilePlaces
      /\ option'.argAt # 0 => at + 1 \notin FilePlaces /\ at + 1 \notin OptionPlaces
      /\ \A q \in FilePlaces \cup OptionPlaces : q \in Int
  <2>1. option'.argAt # 0 => ~IsSwitch(words[(at + 1) + 1])
    BY <1>4, <1>2, ArgumentsAre DEF ArrayInv
  <2> QED
    BY <1>1, <1>4, <1>6, <2>1 DEF FilePlaces, OptionPlaces, Places
<1>9. /\ {q \in FilePlaces : q < Frontier'} = {q \in FilePlaces : q < at}
      /\ {q \in OptionPlaces : q < Frontier'} = {q \in OptionPlaces : q < at} \cup {at}
  <2>1. CASE option'.argAt = 0
    <3>1. Frontier' = at + 1
      BY <1>5, <2>1
    <3> QED
      BY <1>1, <1>8, <3>1
  <2>2. CASE option'.argAt # 0
    <3>1. Frontier' = at + 2
      BY <1>5, <2>2
    <3> QED
      BY <1>1, <1>8, <2>2, <3>1
  <2> QED
    BY <2>1, <2>2
<1>10. /\ {m_argv'[p] : p \in m_nLastArg - count .. m_argc - 1}
          = {m_argv[p] : p \in m_nLastArg .. m_argc - 1} \cup (Frontier .. Frontier + count - 1)
       /\ \A p \in m_nNextOption .. m_nLastArg - count - 1 : m_argv'[p] = p + (Moved + count)
  BY <1>1, <1>2, ShuffleMoves
<1>11. UnreadAsTyped'
  <2>1. \A p \in Unread' : p \in m_nNextOption .. m_nLastArg - count - 1
    BY <1>1, <1>2 DEF Unread
  <2> QED
    BY <1>5, <1>10, <2>1 DEF UnreadAsTyped
<1>12. AtAWord'
  <2>1. CASE option'.argAt = 0
    <3>1. Frontier' = at + 1
      BY <1>5, <2>1
    <3> QED
      BY <1>3, <1>4, <2>1, <3>1 DEF AtAWord
  <2>2. CASE option'.argAt # 0
    <3>1. Frontier' = at + 2 /\ (at + 1) + 1 = at + 2
      BY <1>1, <1>5, <2>2
    <3>2. ~IsSwitch(words[at + 2])
      BY <1>2, <1>4, <2>2, <3>1, ArgumentsAre DEF ArrayInv
    <3>3. at + 2 \in Places => ~IsArgument[at + 2]
      BY <1>2, <3>2, ArgumentsAre DEF ArrayInv
    <3> QED
      BY <1>3, <3>1, <3>3 DEF AtAWord
  <2> QED
    BY <2>1, <2>2
<1>13. FilesRead'
  <2>1. Frontier .. Frontier + count - 1 = Frontier .. at - 1
    BY <1>1
  <2>2. {m_argv'[p] : p \in m_nLastArg - count .. m_argc - 1} = {q \in FilePlaces : q < Frontier'}
    BY <1>2, <1>7, <1>9, <1>10, <2>1 DEF FilesRead
  <2> QED
    BY <1>2, <1>3, <2>2 DEF FilesRead
<1>14. OptionsRead'
  <2> DEFINE Options == {OptionAt(p) : p \in OptionPlaces}
  <2>1. returned \in Seq(Options) /\ OptionAt(at) \in Options /\ OptionAt(at).at = at
    BY <1>2, <1>8 DEF OptionsRead, OptionAt
  <2>2. PICK o : o = OptionAt(at)
    OBVIOUS
  <2>3. /\ \A n, m \in DOMAIN returned : n < m => returned[n].at < returned[m].at
        /\ {returned[n].at : n \in DOMAIN returned} = {q \in OptionPlaces : q < Frontier}
    BY <1>2 DEF OptionsRead
  <2> HIDE DEF Options
  <2>4. returned' = Append(returned, o) /\ o \in Options /\ o.at = at
    BY <1>4, <2>1, <2>2
  <2>5. PICK len : len = Len(returned)
    OBVIOUS
  <2>6. /\ returned' \in Seq(Options) /\ len \in Nat /\ DOMAIN returned = 1 .. len
        /\ DOMAIN returned' = 1 .. len + 1
        /\ returned'[len + 1] = o /\ \A n \in 1 .. len : returned'[n] = returned[n]
    BY <2>1, <2>4, <2>5
  <2>7. ASSUME NEW n \in DOMAIN returned PROVE returned[n].at \in Int /\ returned[n].at < at
    <3>1. returned[n].at \in {q \in OptionPlaces : q < Frontier}
      BY <2>3
    <3> QED
      BY <1>1, <1>8, <3>1
  <2>8. ASSUME NEW n \in DOMAIN returned', NEW m \in DOMAIN returned', n < m
        PROVE  returned'[n].at < returned'[m].at
    BY <2>3, <2>4, <2>6, <2>7, <2>8
  <2>9. {returned'[n].at : n \in DOMAIN returned'} = {returned[n].at : n \in DOMAIN returned} \cup {at}
    BY <2>4, <2>6
  <2>10. {returned'[n].at : n \in DOMAIN returned'} = {q \in OptionPlaces : q < Frontier'}
    BY <1>7, <1>9, <2>3, <2>9
  <2>11. {OptionAt(p) : p \in OptionPlaces}' = Options
    BY <1>3 DEF Options
  <2> QED
    BY <1>3, <2>6, <2>8, <2>10, <2>11 DEF OptionsRead
<1> QED
  BY <1>2, <1>11, <1>12, <1>13, <1>14 DEF ReadInv

LEMMA NoMoreOptionsReads ==
  ASSUME ParseInv, ReadInv, NoMoreOptions
  PROVE  ReadInv' /\ parse' = "end" /\ Frontier' = m_argc
<1> DEFINE count == Cardinality(Unread)
<1>1. /\ m_argc \in Nat \ {0} /\ m_nLastArg \in 1 .. m_argc /\ m_nNextOption \in 1 .. m_nLastArg
      /\ Moved = m_argc - m_nLastArg /\ Frontier = m_nNextOption + Moved
      /\ Frontier \in 1 .. m_argc /\ Moved \in Nat
  BY FrontierIs DEF ParseInv, NoMoreOptions, Moved, Frontier
<1>2. /\ UnreadAsTyped /\ AtAWord /\ FilesRead /\ OptionsRead /\ ArrayInv
      /\ parse = "next" /\ parse' = "end" /\ UNCHANGED <<cmdline, m_nNextOption, returned>>
      /\ m_argv' = Shuffled(m_nNextOption, count) /\ m_nLastArg' = m_nLastArg - count
  BY DEF ReadInv, ParseInv, NoMoreOptions, ShuffleArg
<1>3. /\ m_argc' = m_argc /\ Places' = Places /\ OptionPlaces' = OptionPlaces
      /\ FilePlaces' = FilePlaces /\ IsArgument' = IsArgument
      /\ \A p : OptionAt(p)' = OptionAt(p)
  BY <1>2, SameReading
<1>4. count = m_nLastArg - m_nNextOption
  BY <1>1, UnreadCardinality
<1>5. m_nLastArg' = m_nNextOption /\ m_nNextOption' = m_nNextOption /\ Frontier' = m_argc
  BY <1>1, <1>2, <1>3, <1>4 DEF Moved, Frontier
<1>6. \A q \in Frontier .. m_argc - 1 : ~IsSwitch(words[q + 1])
  <2> SUFFICES ASSUME NEW q \in Frontier .. m_argc - 1 PROVE ~IsSwitch(words[q + 1])
    OBVIOUS
  <2>1. q - Moved \in m_nNextOption .. m_nLastArg - 1 /\ (q - Moved) + Moved = q
    BY <1>1
  <2>2. WordAt(q - Moved) = words[q + 1]
    BY <1>2, <2>1 DEF UnreadAsTyped, Unread, WordAt
  <2> QED
    BY <2>1, <2>2 DEF NoMoreOptions, Unread
<1>7. /\ {q \in FilePlaces : q < m_argc}
         = {q \in FilePlaces : q < Frontier} \cup (Frontier .. m_argc - 1)
      /\ {q \in OptionPlaces : q < m_argc} = {q \in OptionPlaces : q < Frontier}
  <2>1. m_argc \in Frontier .. m_argc /\ parse # "idle"
    BY <1>1, <1>2
  <2> QED
    BY <1>2, <1>6, <2>1, PassedWords
<1>8. {m_argv'[p] : p \in m_nLastArg - count .. m_argc - 1}
      = {m_argv[p] : p \in m_nLastArg .. m_argc - 1} \cup (Frontier .. Frontier + count - 1)
  BY <1>1, <1>2, <1>4, ShuffleMoves
<1>9. FilesRead'
  <2>1. Frontier .. Frontier + count - 1 = Frontier .. m_argc - 1
    BY <1>1, <1>4
  <2>2. {m_argv'[p] : p \in m_nLastArg - count .. m_argc - 1} = {q \in FilePlaces : q < m_argc}
    BY <1>2, <1>7, <1>8, <2>1 DEF FilesRead
  <2> QED
    BY <1>2, <1>3, <1>5, <2>2 DEF FilesRead
<1>10. OptionsRead'
  BY <1>2, <1>3, <1>5, <1>7 DEF OptionsRead
<1>11. UnreadAsTyped' /\ AtAWord'
  BY <1>1, <1>3, <1>5 DEF UnreadAsTyped, Unread, AtAWord, Places
<1> QED
  BY <1>2, <1>5, <1>9, <1>10, <1>11 DEF ReadInv

\* The first word behind the command's name is no argument.
NoneBeforeTheSecond == Len(words) \in Nat => \A p \in Places : IsArgument[p] => p > 1

LEMMA ArgumentsAreLater == NoneBeforeTheSecond
  BY ArgumentsAre DEF NoneBeforeTheSecond

LEMMA ArgumentsAreLaterNext == NoneBeforeTheSecond'
  BY ArgumentsAreLater, PTL

LEMMA InitParserReads ==
  ASSUME ParseInv, ReadInv, NEW ws, Len(ws) \in Nat \ {0}, NEW os, InitParser(ws, os)
  PROVE  ReadInv'
<1>1. /\ returned' = <<>> /\ parse' = "next" /\ words' = ws
      /\ m_nNextOption' = 1 /\ m_nLastArg' = Len(ws)
      /\ m_argv' = [p \in 0 .. Len(ws) - 1 |-> p]
  BY DEF InitParser, ReadInv
<1>2. m_argc' = Len(ws) /\ Moved' = 0 /\ Frontier' = 1
  BY <1>1 DEF m_argc, Moved, Frontier
<1>3. UnreadAsTyped'
  BY <1>1, <1>2 DEF UnreadAsTyped, Unread
<1>4. AtAWord'
  <2>1. \A p \in Places' : IsArgument'[p] => p > 1
    <3>1. Len(words') \in Nat
      BY <1>1
    <3> QED
      BY <3>1, ArgumentsAreLaterNext DEF NoneBeforeTheSecond
  <2> QED
    BY <1>2, <2>1 DEF AtAWord
<1>5. FilesRead' /\ OptionsRead'
  BY <1>1, <1>2 DEF FilesRead, OptionsRead, FilePlaces, OptionPlaces, Places
<1> QED
  BY <1>1, <1>3, <1>4, <1>5 DEF ReadInv

LEMMA ReadInit == NoArguments => ReadInv
  BY DEF NoArguments, ReadInv

LEMMA ReadKept == ReadInv /\ UNCHANGED parser => ReadInv'
<1> SUFFICES ASSUME ReadInv, UNCHANGED parser PROVE ReadInv'
  OBVIOUS
<1>1. UNCHANGED <<cmdline, m_argv, m_nNextOption, m_nLastArg, returned, parse>>
  BY DEF parser, cmdline
<1>2. /\ m_argc' = m_argc /\ Places' = Places /\ OptionPlaces' = OptionPlaces
      /\ FilePlaces' = FilePlaces /\ IsArgument' = IsArgument
      /\ \A p : OptionAt(p)' = OptionAt(p)
  BY <1>1, SameReading
<1>3. Moved' = Moved /\ Frontier' = Frontier /\ Unread' = Unread
  BY <1>1, <1>2 DEF Moved, Frontier, Unread
<1>4. CASE parse = "idle"
  BY <1>1, <1>4 DEF ReadInv
<1>5. CASE parse # "idle"
  <2>1. UnreadAsTyped' /\ AtAWord'
    BY <1>1, <1>2, <1>3, <1>5 DEF ReadInv, UnreadAsTyped, AtAWord
  <2>2. FilesRead'
    BY <1>1, <1>2, <1>3, <1>5 DEF ReadInv, FilesRead
  <2>3. {OptionAt(p) : p \in OptionPlaces}' = {OptionAt(p) : p \in OptionPlaces}
    BY <1>2
  <2>4. OptionsRead'
    BY <1>1, <1>2, <1>3, <1>5, <2>3 DEF ReadInv, OptionsRead
  <2> QED
    BY <1>1, <2>1, <2>2, <2>4 DEF ReadInv
<1> QED
  BY <1>4, <1>5

LEMMA ReadInvIsInvariant == Spec => []ReadInv
<1>1. Init => ReadInv
  BY ReadInit DEF Init
<1>2. CommandInv /\ ReadInv /\ [Next]_vars => ReadInv'
  <2> SUFFICES ASSUME CommandInv, ReadInv, [Next]_vars PROVE ReadInv'
    OBVIOUS
  <2>1. CASE InitOptions
    <3>1. Len(Words) \in Nat \ {0}
      BY <2>1, SomeWords DEF CommandInv, PhaseInv, InitOptions
    <3> QED
      BY <2>1, <3>1, InitParserReads DEF CommandInv, InitOptions
  <2>2. CASE TakeOption
    BY <2>2, NextOptionReads DEF CommandInv, TakeOption
  <2>3. CASE EndOfOptions
    BY <2>3, NoMoreOptionsReads DEF CommandInv, EndOfOptions
  <2>4. CASE Handle
    <3>1. UNCHANGED parser
      BY <2>4 DEF Handle, HandleHelp, HandleFlag, HandleBucket, HandleLookType, HandleNumBuckets,
                  HandleLookSize, Says, Usage, End
    <3> QED
      BY <3>1, ReadKept
  <2>5. CASE NoMemory \/ MakeCmdline \/ Scan \/ ArgumentsMakeSense \/ Cleanup \/ UNCHANGED vars
    <3>1. UNCHANGED parser
      BY <2>5 DEF NoMemory, MakeCmdline, Scan, ArgumentsMakeSense, Cleanup, vars
    <3> QED
      BY <3>1, ReadKept
  <2>6. CASE CheckLookaside \/ CheckAddress \/ ShowLookaside \/ NotALookaside \/ ShowPool \/ ShowOther
    <3>1. UNCHANGED parser
      BY <2>6 DEF CheckLookaside, CheckAddress, ShowLookaside, NotALookaside, ShowPool, ShowOther,
                  Usage, End
    <3> QED
      BY <3>1, ReadKept
  <2> QED
    BY <2>1, <2>2, <2>3, <2>4, <2>5, <2>6 DEF Next, Step, Finished
<1> QED
  BY <1>1, <1>2, CommandInvIsInvariant, PTL DEF Spec

\* The places of a command line are finitely many.
LEMMA FinitelyMany ==
  ASSUME Len(words) \in Nat, NEW S \in SUBSET Places
  PROVE  S \in SUBSET Nat /\ IsFiniteSet(S) /\ \A q \in S : q < m_argc
<1>1. IsFiniteSet(0 .. m_argc - 1)
  BY FS_Interval DEF m_argc
<1>2. IsFiniteSet(S)
  BY <1>1, FS_Subset DEF Places
<1>3. \A q \in S : q \in 0 .. m_argc - 1
  BY DEF Places
<1> QED
  BY <1>2, <1>3 DEF m_argc

LEMMA OptionsAreLeftToRight ==
  ASSUME ParseInv, ReadInv, parse # "idle"
  PROVE  LET places == InOrder(OptionPlaces)
         IN  /\ Len(returned) <= Len(places)
             /\ \A n \in DOMAIN returned : returned[n] = OptionAt(places[n])
             /\ parse = "end" => Len(returned) = Len(places)
<1> DEFINE S == OptionPlaces
           Options == {OptionAt(p) : p \in OptionPlaces}
<1>1. /\ returned \in Seq(Options)
      /\ \A n, k \in DOMAIN returned : n < k => returned[n].at < returned[k].at
      /\ {returned[n].at : n \in DOMAIN returned} = {q \in OptionPlaces : q < Frontier}
  BY DEF ReadInv, OptionsRead
<1>2. \A o \in Options : o.at \in S /\ o = OptionAt(o.at)
  BY DEF OptionAt
<1> HIDE DEF Options
<1>3. PICK len : len = Len(returned)
  OBVIOUS
<1>4. len \in Nat /\ DOMAIN returned = 1 .. len /\ \A n \in 1 .. len : returned[n] \in Options
  BY <1>1, <1>3
<1>5. PICK s : s = [n \in 1 .. len |-> returned[n].at]
  OBVIOUS
<1>6. s \in [1 .. len -> S] /\ \A n \in 1 .. len : s[n] = returned[n].at
  BY <1>2, <1>4, <1>5
<1>7. Increasing(s, len)
  BY <1>1, <1>4, <1>6 DEF Increasing
<1>8. AllBelow(S, len, s, Frontier)
  <2>1. {s[n] : n \in 1 .. len} = {returned[n].at : n \in DOMAIN returned}
    BY <1>4, <1>6
  <2> QED
    BY <1>1, <2>1 DEF AllBelow
<1>9. S \in SUBSET Nat /\ IsFiniteSet(S) /\ \A q \in S : q < m_argc
  BY FinitelyMany DEF ParseInv, ArrayInv, OptionPlaces
<1>10. Frontier \in Nat
  BY FrontierIs DEF ParseInv
<1> HIDE DEF S
<1>11. /\ len <= Cardinality(S) /\ Cardinality(S) \in Nat
       /\ \A a \in 1 .. len : InOrder(S)[a] = s[a]
       /\ (\A q \in S : q < Frontier) => len = Cardinality(S)
  BY <1>4, <1>6, <1>7, <1>8, <1>9, <1>10, InOrderIs
<1>12. Len(InOrder(S)) = Cardinality(S)
  BY <1>11 DEF InOrder
<1>13. parse = "end" => Frontier = m_argc
  BY FrontierIs DEF ParseInv, ReadInv, Frontier, Moved
<1>14. \A n \in DOMAIN returned : returned[n] = OptionAt(InOrder(S)[n])
  BY <1>2, <1>4, <1>6, <1>11
<1>15. Len(returned) <= Len(InOrder(S)) /\ (parse = "end" => Len(returned) = Len(InOrder(S)))
  BY <1>3, <1>9, <1>11, <1>12, <1>13
<1> QED
  BY <1>14, <1>15 DEF S

LEMMA FilesAreLeftToRight ==
  ASSUME ParseInv, ReadInv, parse = "end"
  PROVE  Files = [n \in 1 .. Cardinality(FilePlaces) |-> words[InOrder(FilePlaces)[n] + 1]]
<1> DEFINE S == FilePlaces
           len == m_argc - m_nLastArg
<1>1. /\ m_argc \in Nat \ {0} /\ m_nLastArg \in 1 .. m_argc /\ len \in Nat
      /\ Frontier = m_argc
      /\ \A p \in 0 .. m_argc - 1 : m_argv[p] \in Nat
  BY FrontierIs DEF ParseInv, ArrayInv, ReadInv, Frontier, Moved, Places
<1>2. PICK s : s = [a \in 1 .. len |-> m_argv[m_nLastArg + a - 1]]
  OBVIOUS
<1>3. {m_argv[p] : p \in m_nLastArg .. m_argc - 1} = {q \in S : q < m_argc}
  BY <1>1 DEF ReadInv, FilesRead
<1>4. s \in [1 .. len -> S] /\ AllBelow(S, len, s, m_argc)
  <2>1. \A a \in 1 .. len : m_nLastArg + a - 1 \in m_nLastArg .. m_argc - 1
    BY <1>1
  <2>2. \A a \in 1 .. len : s[a] \in {m_argv[p] : p \in m_nLastArg .. m_argc - 1}
    BY <1>2, <2>1
  <2>3. ASSUME NEW p \in m_nLastArg .. m_argc - 1 PROVE \E a \in 1 .. len : s[a] = m_argv[p]
    <3>1. p - m_nLastArg + 1 \in 1 .. len /\ m_nLastArg + (p - m_nLastArg + 1) - 1 = p
      BY <1>1
    <3>2. s[p - m_nLastArg + 1] = m_argv[p]
      BY <1>2, <3>1
    <3> QED
      BY <3>1, <3>2
  <2>4. {s[a] : a \in 1 .. len} = {m_argv[p] : p \in m_nLastArg .. m_argc - 1}
    <3>1. \A x \in {m_argv[p] : p \in m_nLastArg .. m_argc - 1} : \E a \in 1 .. len : s[a] = x
      BY <2>3
    <3> HIDE DEF len
    <3> QED
      BY <2>2, <3>1
  <2>5. \A a \in 1 .. len : s[a] \in S
    BY <1>3, <2>2
  <2> HIDE DEF len, S
  <2> QED
    BY <1>2, <1>3, <2>4, <2>5 DEF AllBelow
<1>5. Increasing(s, len)
  <2>1. \A p, q \in m_nLastArg .. m_argc - 1 : p < q => m_argv[p] < m_argv[q]
    BY DEF ParseInv, InOrderInv, FilesKeepOrder
  <2> QED
    BY <1>1, <1>2, <2>1 DEF Increasing
<1>6. S \in SUBSET Nat /\ IsFiniteSet(S) /\ \A q \in S : q < m_argc
  BY FinitelyMany DEF ParseInv, ArrayInv, FilePlaces
<1> HIDE DEF S
<1>7. PICK n : n = len
  OBVIOUS
<1>8. n = Cardinality(S) /\ \A a \in 1 .. n : InOrder(S)[a] = s[a]
  <2>1. n \in Nat /\ s \in [1 .. n -> S] /\ Increasing(s, n) /\ AllBelow(S, n, s, m_argc) /\ m_argc \in Nat
    BY <1>1, <1>4, <1>5, <1>7
  <2> HIDE DEF len
  <2> QED
    BY <1>6, <2>1, InOrderIs
<1>9. PICK w : w = [k \in 1 .. m_argc |-> words[m_argv[k - 1] + 1]]
  OBVIOUS
<1>10. Files = [a \in 1 .. n |-> w[m_nLastArg + a]]
  <2>1. Files = SubSeq(w, m_nLastArg + 1, m_argc)
    BY <1>9 DEF Files
  <2>2. PICK X : \A k \in 1 .. m_argc : words[m_argv[k - 1] + 1] \in X
    <3>1. \A k \in 1 .. m_argc : words[m_argv[k - 1] + 1] \in {words[m_argv[b - 1] + 1] : b \in 1 .. m_argc}
      OBVIOUS
    <3> QED
      BY <3>1
  <2>3. w \in Seq(X) /\ Len(w) = m_argc
    BY <1>1, <1>9, <2>2
  <2> QED
    BY <1>1, <1>7, <2>1, <2>3
<1>11. ASSUME NEW a \in 1 .. n PROVE w[m_nLastArg + a] = words[InOrder(S)[a] + 1]
  <2>1. m_nLastArg + a \in 1 .. m_argc /\ (m_nLastArg + a) - 1 = m_nLastArg + a - 1
    BY <1>1, <1>7
  <2>2. w[m_nLastArg + a] = words[m_argv[m_nLastArg + a - 1] + 1]
    BY <1>9, <2>1
  <2>3. s[a] = m_argv[m_nLastArg + a - 1]
    BY <1>2, <1>7
  <2> QED
    BY <1>8, <2>2, <2>3
<1> QED
  BY <1>8, <1>10, <1>11 DEF S

\* Every word of the command line is returned once: the options in their order,
\* each with the argument that stands behind it, and then the files, for every
\* command line and every table of options, however the calls shuffle the words.
THEOREM OptionsLeftToRight == Spec => []ParseIsLeftToRight
<1>1. CommandInv /\ ReadInv => ParseIsLeftToRight
  <2> SUFFICES ASSUME CommandInv, ReadInv PROVE ParseIsLeftToRight
    OBVIOUS
  <2>1. CASE parse = "idle"
    <3>1. returned = <<>> /\ IsFiniteSet(OptionPlaces)
      BY <2>1, FinitelyMany DEF ReadInv, CommandInv, ParseInv, ArrayInv, OptionPlaces
    <3>2. Cardinality(OptionPlaces) \in Nat
      BY <3>1, FS_CardinalityType
    <3>3. Len(InOrder(OptionPlaces)) \in Nat
      BY <3>2 DEF InOrder
    <3> QED
      BY <2>1, <3>1, <3>3 DEF ParseIsLeftToRight
  <2>2. CASE parse # "idle"
    BY <2>2, OptionsAreLeftToRight, FilesAreLeftToRight DEF CommandInv, ParseIsLeftToRight
  <2> QED
    BY <2>1, <2>2
<1> QED
  BY <1>1, CommandInvIsInvariant, ReadInvIsInvariant, PTL

-----------------------------------------------------------------------------
\* What the command makes of the options.

\* The options with one of the ids among the first h that are returned.
Told(h, ids) == {n \in 1 .. h : returned[n].error = "SO_SUCCESS" /\ returned[n].id \in ids}

\* What !poolinfo has made of them.
Heard(h) ==
  /\ Told(h, {"OPT_HELP"}) = {}
  /\ opts.bLookaside <=> Told(h, {"OPT_PI_LOOKASIDE"}) # {}
  /\ opts.bFreeList <=> Told(h, {"OPT_PI_FREELIST"}) # {}
  /\ \/ Told(h, {"OPT_PI_BUCKET"}) = {} /\ opts.sizeBucket = BUCKET_ALL
     \/ \E n \in Told(h, {"OPT_PI_BUCKET"}) :
          /\ \A m \in Told(h, {"OPT_PI_BUCKET"}) : m <= n
          /\ opts.sizeBucket = strtoul(returned[n].arg)

\* The parser is at work while the command takes options, on the words and the
\* table it was given.
AtWork ==
  /\ pc \in {"start", "scan", "init"} => parse = "idle" /\ opts = NoOpts
  /\ pc \in {"parse", "handle"} => parse = "next"
  /\ pc \in {"check", "run"} => parse = "end"
  /\ parse # "idle" => scan = "done" /\ words = Words /\ m_rgOptions = OptionsOf[command]
  /\ pc = "handle" =>
       Len(returned) \in Nat \ {0} /\ option = returned[Len(returned)] /\ option.error = "SO_SUCCESS"

\* All options that are returned are heard, but the one that is handled next.
AllHeard ==
  command = "poolinfo" =>
    /\ pc \in {"parse", "check", "run"} => Heard(Len(returned))
    /\ pc = "handle" => Heard(Len(returned) - 1)

\* A walk is made when all of them are.
Decided ==
  Walks =>
    /\ pc \in {"cleanup", "done"} /\ command = "poolinfo" /\ parse = "end" /\ Heard(Len(returned))
    /\ outcome.does = "lookaside" <=> opts.bLookaside
    /\ outcome.does = "listHeads" => opts.bFreeList
    /\ outcome.expr = Expression

SaidInv == AtWork /\ AllHeard /\ Decided

LEMMA HeardKept ==
  ASSUME opts' = opts, NEW h, \A n \in 1 .. h : returned'[n] = returned[n], Heard(h)
  PROVE  Heard(h)'
<1>1. \A ids : Told(h, ids)' = Told(h, ids)
  BY DEF Told
<1>2. \A n \in Told(h, {"OPT_PI_BUCKET"}) : returned'[n] = returned[n]
  BY DEF Told
<1> QED
  BY <1>1, <1>2 DEF Heard, BUCKET_ALL, strtoul

LEMMA NothingHeard ==
  ASSUME opts = NoOpts
  PROVE  Heard(0)
<1>1. \A ids : Told(0, ids) = {}
  BY DEF Told
<1>2. opts.bLookaside = FALSE /\ opts.bFreeList = FALSE /\ opts.sizeBucket = BUCKET_ALL
  BY DEF NoOpts
<1> QED
  BY <1>1, <1>2, Zenon DEF Heard

\* One more option is heard.
LEMMA HeardNext ==
  ASSUME NEW h \in Nat, Heard(h), returned' = returned,
         returned[h + 1].error = "SO_SUCCESS",
         returned[h + 1].id # "OPT_HELP",
         opts'.bLookaside <=> opts.bLookaside \/ returned[h + 1].id = "OPT_PI_LOOKASIDE",
         opts'.bFreeList <=> opts.bFreeList \/ returned[h + 1].id = "OPT_PI_FREELIST",
         opts'.sizeBucket = IF returned[h + 1].id = "OPT_PI_BUCKET" THEN strtoul(returned[h + 1].arg)
                            ELSE opts.sizeBucket
  PROVE  Heard(h + 1)'
<1> DEFINE o == returned[h + 1]
<1>1. ASSUME NEW ids
      PROVE  Told(h + 1, ids)' = Told(h, ids) \cup {n \in {h + 1} : o.id \in ids}
  <2>1. \A n \in 1 .. h + 1 : n \in 1 .. h \/ n = h + 1
    OBVIOUS
  <2>2. h + 1 \in 1 .. h + 1 /\ \A n \in 1 .. h : n \in 1 .. h + 1
    OBVIOUS
  <2> QED
    BY <2>1, <2>2, Zenon DEF Told
<1>2. \A n \in 1 .. h : n <= h + 1 /\ n # h + 1
  OBVIOUS
<1>3. \A ids : Told(h, ids) \subseteq 1 .. h
  BY DEF Told
<1>4. Told(h + 1, {"OPT_HELP"})' = {}
  BY <1>1 DEF Heard
<1>5. (opts'.bLookaside <=> Told(h + 1, {"OPT_PI_LOOKASIDE"})' # {})
  BY <1>1, Zenon DEF Heard
<1>6. (opts'.bFreeList <=> Told(h + 1, {"OPT_PI_FREELIST"})' # {})
  BY <1>1, Zenon DEF Heard
<1>7. \/ Told(h + 1, {"OPT_PI_BUCKET"})' = {} /\ opts'.sizeBucket = BUCKET_ALL
      \/ \E n \in Told(h + 1, {"OPT_PI_BUCKET"})' :
           /\ \A m \in Told(h + 1, {"OPT_PI_BUCKET"})' : m <= n
           /\ opts'.sizeBucket = strtoul(returned[n].arg)
  <2>1. CASE o.id = "OPT_PI_BUCKET"
    <3>1. Told(h + 1, {"OPT_PI_BUCKET"})' = Told(h, {"OPT_PI_BUCKET"}) \cup {h + 1}
      BY <1>1, <2>1
    <3>2. \A m \in Told(h + 1, {"OPT_PI_BUCKET"})' : m <= h + 1
      BY <1>2, <1>3, <3>1
    <3> QED
      BY <2>1, <3>1, <3>2
  <2>2. CASE o.id # "OPT_PI_BUCKET"
    <3>1. Told(h + 1, {"OPT_PI_BUCKET"})' = Told(h, {"OPT_PI_BUCKET"})
      <4>1. o.id \notin {"OPT_PI_BUCKET"}
        BY <2>2
      <4>2. Told(h + 1, {"OPT_PI_BUCKET"})'
              = Told(h, {"OPT_PI_BUCKET"}) \cup {n \in {h + 1} : o.id \in {"OPT_PI_BUCKET"}}
        BY <1>1
      <4> QED
        BY <4>1, <4>2, Zenon
    <3> QED
      BY <2>2, <3>1 DEF Heard
  <2> QED
    BY <2>1, <2>2
<1> QED
  BY <1>4, <1>5, <1>6, <1>7 DEF Heard, BUCKET_ALL, strtoul

-----------------------------------------------------------------------------
\* What tables have options of: none of !poolinfo's is the one of !poollist
\* that says the same.
Lacks(s, id) == s \in Seq({s[n] : n \in DOMAIN s}) /\ \A n \in DOMAIN s : s[n].nId # id

LEMMA JoinLacks ==
  ASSUME NEW s, NEW t, NEW id, Lacks(s, id), Lacks(t, id)
  PROVE  Lacks(s \o t, id)
<1> DEFINE T == {s[n] : n \in DOMAIN s} \cup {t[n] : n \in DOMAIN t}
<1>1. s \in Seq({s[n] : n \in DOMAIN s}) /\ t \in Seq({t[n] : n \in DOMAIN t})
      /\ \A x \in T : x.nId # id
  BY DEF Lacks
<1>2. \A U, V, q : U \subseteq V /\ q \in Seq(U) => q \in Seq(V)
  OBVIOUS
<1>3. s \in Seq(T) /\ t \in Seq(T)
  BY <1>1, <1>2, Zenon
<1> HIDE DEF T
<1>4. s \o t \in Seq(T)
  BY <1>3
<1>5. PICK u : u = s \o t
  OBVIOUS
<1>6. u \in Seq(T)
  BY <1>4, <1>5
<1>7. \A n \in DOMAIN u : u[n] \in T
  BY <1>6
<1>8. u \in Seq({u[n] : n \in DOMAIN u})
  BY <1>6
<1> QED
  BY <1>1, <1>5, <1>7, <1>8 DEF Lacks

LEMMA OneLacks ==
  ASSUME NEW nId, NEW type, NEW name, NEW id, nId # id
  PROVE  Lacks(Option(nId, type, name), id)
  BY DEF Option, Lacks

LEMMA PoolinfoLacks == Lacks(g_pi_opts, "OPT_PL_LOOKASIDE")
<1> DEFINE P == "OPT_PL_LOOKASIDE"
<1>1. \A type, name :
        /\ Lacks(Option("OPT_HELP", type, name), P)
        /\ Lacks(Option("OPT_PI_SUMMARY", type, name), P)
        /\ Lacks(Option("OPT_PI_VERBOSE", type, name), P)
        /\ Lacks(Option("OPT_PI_FREELIST", type, name), P)
        /\ Lacks(Option("OPT_PI_BUCKET", type, name), P)
        /\ Lacks(Option("OPT_PI_LOOKASIDE", type, name), P)
        /\ Lacks(Option("OPT_PI_LOOKTYPE", type, name), P)
        /\ Lacks(Option("OPT_PI_NUMBUCKETS", type, name), P)
        /\ Lacks(Option("OPT_PI_LOOKSIZE", type, name), P)
  BY OneLacks
<1>2. \A s, t : Lacks(s, P) /\ Lacks(t, P) => Lacks(s \o t, P)
  BY JoinLacks
<1> HIDE DEF P
<1>3. Lacks(HELP_OPTS, P)
  BY <1>1, <1>2, Zenon DEF HELP_OPTS
<1>4. Lacks(g_pi_opts, P)
  BY <1>1, <1>2, <1>3, Zenon DEF g_pi_opts
<1> QED
  BY <1>4 DEF P

\* An option that is found is one of the table's.
LEMMA FoundInTable ==
  ASSUME DOMAIN m_rgOptions \in SUBSET (Nat \ {0}), IsFiniteSet(DOMAIN m_rgOptions), NEW s,
         LookupOption(s).error = "SO_SUCCESS" \/ LookupOption(s).row # 0
  PROVE  LookupOption(s).row \in DOMAIN m_rgOptions
<1>1. Perfect(s) \in SUBSET Nat /\ Partial(s) \in SUBSET DOMAIN m_rgOptions /\ Perfect(s) \subseteq DOMAIN m_rgOptions
  BY DEF Perfect, Partial
<1>2. IsFiniteSet(Partial(s))
  BY <1>1, FS_Subset
<1>3. Partial(s) = {} <=> Cardinality(Partial(s)) = 0
  BY <1>2, FS_EmptySet
<1>4. CASE Perfect(s) # {}
  <2>1. \E n \in Perfect(s) : \A k \in Perfect(s) : n <= k
    BY <1>1, <1>4, SmallestMember
  <2>2. LookupOption(s).row = CHOOSE n \in Perfect(s) : \A k \in Perfect(s) : n <= k
    BY <1>4 DEF LookupOption
  <2> QED
    BY <1>1, <2>1, <2>2
<1>5. CASE Perfect(s) = {} /\ Cardinality(Partial(s)) = 1
  <2>1. LookupOption(s).row = CHOOSE n \in Partial(s) : TRUE
    BY <1>3, <1>5 DEF LookupOption
  <2>2. \E n \in Partial(s) : TRUE
    BY <1>3, <1>5
  <2> QED
    BY <1>1, <2>1, <2>2
<1>6. CASE Perfect(s) = {} /\ Cardinality(Partial(s)) # 1
  <2>1. Cardinality(Partial(s)) \in Nat
    BY <1>2, FS_CardinalityType
  <2>2. Partial(s) = {} \/ Cardinality(Partial(s)) > 1
    BY <1>3, <1>6, <2>1
  <2>3. LookupOption(s).error \in {"SO_OPT_INVALID", "SO_OPT_MULTIPLE"} /\ LookupOption(s).row = 0
    BY <1>6, <2>2 DEF LookupOption
  <2> QED
    BY <2>3
<1> QED
  BY <1>4, <1>5, <1>6

LEMMA OptionInTable ==
  ASSUME DOMAIN m_rgOptions \in SUBSET (Nat \ {0}), IsFiniteSet(DOMAIN m_rgOptions),
         NEW p, OptionAt(p).error = "SO_SUCCESS"
  PROVE  \E n \in DOMAIN m_rgOptions : OptionAt(p).id = m_rgOptions[n].nId
<1> DEFINE w == words[p + 1]
           found == LookupOption(Text(w))
<1>1. OptionAt(p).id = Read(w).id /\ (Read(w).wants \/ Read(w).error = "SO_SUCCESS")
  BY DEF OptionAt
<1>2. found.row # 0 => Read(w).id = m_rgOptions[found.row].nId
  BY DEF Read
<1>3. Read(w).wants => found.row # 0
  BY DEF Read
<1>4. Read(w).error = "SO_SUCCESS" => found.error = "SO_SUCCESS"
  BY DEF Read
<1>5. found.error = "SO_SUCCESS" \/ found.row # 0
  BY <1>1, <1>3, <1>4
<1> HIDE DEF found
<1>6. PICK s : s = Text(w)
  OBVIOUS
<1>7. found.row \in DOMAIN m_rgOptions
  BY <1>5, <1>6, FoundInTable DEF found
<1>8. found.row # 0 => OptionAt(p).id = m_rgOptions[found.row].nId
  BY <1>1, <1>2
<1> QED
  BY <1>7, <1>8

-----------------------------------------------------------------------------
\* The steps that leave what is heard alone.
Untouched == UNCHANGED <<tokens, parser, command, opts>>

LEMMA UntouchedIs ==
  ASSUME Untouched
  PROVE  /\ Words' = Words /\ Expression' = Expression /\ scan' = scan /\ command' = command
         /\ parse' = parse /\ words' = words /\ m_rgOptions' = m_rgOptions /\ returned' = returned
         /\ option' = option /\ opts' = opts
         /\ \A h : Heard(h) => Heard(h)'
<1>1. /\ scan' = scan /\ argv' = argv /\ text' = text /\ command' = command /\ opts' = opts
      /\ parse' = parse /\ words' = words /\ m_rgOptions' = m_rgOptions /\ returned' = returned
      /\ option' = option /\ m_argv' = m_argv /\ m_nLastArg' = m_nLastArg
  BY DEF Untouched, tokens, parser
<1>2. Words' = Words
  BY <1>1 DEF Words, argc, WordFrom
<1>3. Expression' = Expression
  BY <1>1 DEF Expression, Files, m_argc
<1>4. \A h : Heard(h) => Heard(h)'
  BY <1>1, HeardKept
<1> QED
  BY <1>1, <1>2, <1>3, <1>4

LEMMA SaidInit == Init => SaidInv
<1> SUFFICES ASSUME Init PROVE SaidInv
  OBVIOUS
<1>1. pc = "start" /\ parse = "idle" /\ opts = NoOpts /\ ~Walks
  BY DEF Init, NoArguments, Walks, Nothing
<1> QED
  BY <1>1 DEF SaidInv, AtWork, AllHeard, Decided

\* A step that only goes on to the next phase.
LEMMA GoesOn ==
  ASSUME SaidInv, Untouched, outcome' = outcome,
         \/ pc' = pc
         \/ pc = "start" /\ pc' = "cleanup" /\ outcome.does = "nothing"
         \/ pc = "check" /\ pc' = "run"
         \/ pc = "cleanup" /\ pc' = "done"
  PROVE  SaidInv'
<1>1. AtWork'
  BY UntouchedIs DEF SaidInv, AtWork
<1>2. AllHeard'
  <2>1. command' = command /\ returned' = returned /\ \A h : Heard(h) => Heard(h)'
    BY UntouchedIs
  <2> QED
    BY <2>1 DEF SaidInv, AllHeard
<1>3. Decided'
  <2>1. /\ command' = command /\ returned' = returned /\ opts' = opts /\ parse' = parse
        /\ Expression' = Expression /\ \A h : Heard(h) => Heard(h)'
    BY UntouchedIs
  <2>2. Walks' <=> Walks
    BY DEF Walks
  <2>3. Walks => pc \in {"cleanup", "done"} /\ outcome.does # "nothing"
    BY DEF SaidInv, Decided, Walks
  <2> QED
    BY <2>1, <2>2, <2>3 DEF SaidInv, Decided
<1> QED
  BY <1>1, <1>2, <1>3 DEF SaidInv

\* The end of a command.
LEMMA EndsSaid ==
  ASSUME SaidInv, NEW result, End(result), pc \in {"handle", "check", "run"},
         result.does \in {"lookaside", "listHeads"} =>
           /\ pc = "run" /\ command = "poolinfo"
           /\ result.does = "lookaside" <=> opts.bLookaside
           /\ result.does = "listHeads" => opts.bFreeList
           /\ result.expr = Expression
  PROVE  SaidInv'
<1>1. Untouched /\ pc' = "cleanup" /\ outcome' = result
  BY DEF End, Untouched, called
<1>2. /\ command' = command /\ returned' = returned /\ opts' = opts /\ parse' = parse
      /\ Expression' = Expression /\ \A h : Heard(h) => Heard(h)'
  BY <1>1, UntouchedIs
<1>3. AtWork'
  BY <1>1, UntouchedIs DEF SaidInv, AtWork
<1>4. AllHeard'
  BY <1>1 DEF AllHeard
<1>5. Decided'
  <2>1. Walks' => result.does \in {"lookaside", "listHeads"}
    BY <1>1 DEF Walks
  <2>2. pc = "run" => parse = "end" /\ (command = "poolinfo" => Heard(Len(returned)))
    BY DEF SaidInv, AtWork, AllHeard
  <2> QED
    BY <1>1, <1>2, <2>1, <2>2 DEF Decided
<1> QED
  BY <1>3, <1>4, <1>5 DEF SaidInv

LEMMA UsageSaid ==
  ASSUME SaidInv, NEW name, Usage(name), pc \in {"handle", "check", "run"}
  PROVE  SaidInv'
<1>1. PICK result : result = [Nothing EXCEPT !.does = "usage", !.of = name]
  OBVIOUS
<1>2. End(result) /\ result.does = "usage"
  BY <1>1 DEF Usage, Nothing
<1> QED
  BY <1>2, EndsSaid

\* While a command takes options there is no outcome.
LEMMA NoOutcome ==
  ASSUME PhaseInv, pc \notin {"cleanup", "done"}, outcome' = outcome
  PROVE  Decided'
  BY DEF PhaseInv, Decided, Walks

LEMMA CutSaid == PhaseInv /\ SaidInv /\ (MakeCmdline \/ Scan) => SaidInv'
<1> SUFFICES ASSUME PhaseInv, SaidInv, MakeCmdline \/ Scan PROVE SaidInv'
  OBVIOUS
<1>1. /\ pc \in {"start", "scan"} /\ pc' \in {"scan", "init"} /\ parse' = parse /\ opts' = opts
      /\ outcome' = outcome
  BY DEF MakeCmdline, Scan, parser
<1>2. AtWork' /\ AllHeard'
  BY <1>1 DEF SaidInv, AtWork, AllHeard
<1> QED
  BY <1>1, <1>2, NoOutcome DEF SaidInv

LEMMA InitOptionsSaid == PhaseInv /\ ReadInv /\ SaidInv /\ InitOptions => SaidInv'
<1> SUFFICES ASSUME PhaseInv, ReadInv, SaidInv, InitOptions PROVE SaidInv'
  OBVIOUS
<1>1. /\ pc = "init" /\ pc' = "parse" /\ parse = "idle" /\ parse' = "next" /\ opts = NoOpts
      /\ words' = Words /\ m_rgOptions' = OptionsOf[command] /\ returned' = returned
      /\ scan = "done" /\ scan' = scan /\ argv' = argv /\ text' = text
      /\ command' = command /\ opts' = opts /\ outcome' = outcome
  BY DEF SaidInv, AtWork, PhaseInv, InitOptions, InitParser, tokens, called
<1>2. Words' = Words
  BY <1>1 DEF Words, argc, WordFrom
<1>3. AtWork'
  BY <1>1, <1>2 DEF AtWork
<1>4. returned = <<>> /\ Len(returned') = 0
  BY <1>1 DEF ReadInv
<1>5. Heard(0)'
  <2>1. Heard(0)
    BY <1>1, NothingHeard
  <2> QED
    BY <1>1, <2>1, HeardKept
<1>6. AllHeard'
  BY <1>1, <1>4, <1>5 DEF AllHeard
<1> QED
  BY <1>1, <1>3, <1>6, NoOutcome DEF SaidInv

LEMMA EndOfOptionsSaid == PhaseInv /\ SaidInv /\ EndOfOptions => SaidInv'
<1> SUFFICES ASSUME PhaseInv, SaidInv, EndOfOptions PROVE SaidInv'
  OBVIOUS
<1>1. /\ pc = "parse" /\ pc' = "check" /\ parse = "next" /\ parse' = "end"
      /\ words' = words /\ m_rgOptions' = m_rgOptions /\ returned' = returned
      /\ scan' = scan /\ argv' = argv /\ text' = text
      /\ command' = command /\ opts' = opts /\ outcome' = outcome
  BY DEF EndOfOptions, NoMoreOptions, cmdline, tokens, called
<1>2. Words' = Words
  BY <1>1 DEF Words, argc, WordFrom
<1>3. AtWork'
  BY <1>1, <1>2 DEF SaidInv, AtWork
<1>4. AllHeard'
  <2>1. \A h : Heard(h) => Heard(h)'
    BY <1>1, HeardKept
  <2> QED
    BY <1>1, <2>1 DEF SaidInv, AllHeard
<1> QED
  BY <1>1, <1>3, <1>4, NoOutcome DEF SaidInv

LEMMA TakeOptionSaid == PhaseInv /\ ReadInv /\ SaidInv /\ TakeOption => SaidInv'
<1> SUFFICES ASSUME PhaseInv, ReadInv, SaidInv, TakeOption PROVE SaidInv'
  OBVIOUS
<1>1. PICK k \in Unread : NextOption(k)
  BY DEF TakeOption
<1>2. /\ pc = "parse" /\ pc' = (IF option'.error = "SO_SUCCESS" THEN "handle" ELSE "parse")
      /\ scan' = scan /\ argv' = argv /\ text' = text
      /\ command' = command /\ opts' = opts /\ outcome' = outcome
  BY DEF TakeOption, tokens, called
<1>3. /\ parse = "next" /\ parse' = "next" /\ words' = words /\ m_rgOptions' = m_rgOptions
      /\ returned' = Append(returned, option')
  BY <1>1 DEF NextOption, Return, cmdline
<1>4. Words' = Words
  BY <1>2 DEF Words, argc, WordFrom
<1>5. PICK h : h = Len(returned)
  OBVIOUS
<1>6. /\ h \in Nat /\ Len(returned') = h + 1 /\ returned'[h + 1] = option' /\ (h + 1) - 1 = h
      /\ h + 1 \in Nat \ {0}
      /\ \A n \in 1 .. h : returned'[n] = returned[n]
  <2>1. returned \in Seq({OptionAt(p) : p \in OptionPlaces})
    BY <1>3 DEF ReadInv, OptionsRead
  <2>2. PICK S : S = {OptionAt(p) : p \in OptionPlaces} \cup {option'}
    OBVIOUS
  <2>3. \A U, V, q : U \subseteq V /\ q \in Seq(U) => q \in Seq(V)
    OBVIOUS
  <2>4. returned \in Seq(S) /\ option' \in S
    BY <2>1, <2>2, <2>3
  <2> QED
    BY <1>3, <1>5, <2>4
<1>7. AtWork'
  BY <1>2, <1>3, <1>4, <1>6 DEF SaidInv, AtWork
<1>8. ASSUME command = "poolinfo" PROVE Heard(h)'
  BY <1>2, <1>5, <1>6, <1>8, HeardKept DEF SaidInv, AllHeard
<1>9. AllHeard'
  <2>1. ASSUME Heard(h)', option'.error # "SO_SUCCESS" PROVE Heard(h + 1)'
    <3>1. \A n \in 1 .. h + 1 : n \in 1 .. h \/ n = h + 1
      BY <1>6
    <3>2. \A n \in 1 .. h : n \in 1 .. h + 1
      BY <1>6
    <3>3. \A ids : Told(h + 1, ids)' = Told(h, ids)'
      BY <1>6, <2>1, <3>1, <3>2, Zenon DEF Told
    <3> QED
      BY <2>1, <3>3 DEF Heard
  <2> QED
    BY <1>2, <1>6, <1>8, <2>1 DEF AllHeard
<1> QED
  BY <1>2, <1>7, <1>9, NoOutcome DEF SaidInv

\* The option that is handled is of the table of the command.
LEMMA HandledIsOfTable ==
  ASSUME ReadInv, SaidInv, pc = "handle", command = "poolinfo"
  PROVE  option.id # "OPT_PL_LOOKASIDE"
<1>1. /\ m_rgOptions = g_pi_opts /\ parse = "next" /\ Len(returned) \in Nat \ {0}
      /\ option = returned[Len(returned)] /\ option.error = "SO_SUCCESS"
  BY DEF SaidInv, AtWork, OptionsOf
<1>2. PICK p : option = OptionAt(p)
  <2>1. returned \in Seq({OptionAt(p) : p \in OptionPlaces})
    BY <1>1 DEF ReadInv, OptionsRead
  <2>2. Len(returned) \in DOMAIN returned
    BY <1>1, <2>1
  <2>3. option \in {OptionAt(p) : p \in OptionPlaces}
    BY <1>1, <2>1, <2>2
  <2> QED
    BY <2>3
<1>3. Lacks(m_rgOptions, "OPT_PL_LOOKASIDE")
  BY <1>1, PoolinfoLacks
<1>4. DOMAIN m_rgOptions \in SUBSET (Nat \ {0}) /\ IsFiniteSet(DOMAIN m_rgOptions)
  <2>1. DOMAIN m_rgOptions = 1 .. Len(m_rgOptions) /\ Len(m_rgOptions) \in Nat
    BY <1>3 DEF Lacks
  <2>2. IsFiniteSet(1 .. Len(m_rgOptions))
    BY <2>1, FS_Interval
  <2> QED
    BY <2>1, <2>2
<1>5. PICK n \in DOMAIN m_rgOptions : OptionAt(p).id = m_rgOptions[n].nId
  BY <1>1, <1>2, <1>4, OptionInTable
<1> QED
  BY <1>2, <1>3, <1>5 DEF Lacks

\* An option is handled: what it says is heard.
LEMMA SaysSaid ==
  ASSUME PhaseInv, ReadInv, SaidInv, NEW new, Says(new), pc = "handle",
         command = "poolinfo" =>
           /\ option.id # "OPT_HELP"
           /\ new.bLookaside <=> opts.bLookaside \/ option.id = "OPT_PI_LOOKASIDE"
           /\ new.bFreeList <=> opts.bFreeList \/ option.id = "OPT_PI_FREELIST"
           /\ new.sizeBucket = IF option.id = "OPT_PI_BUCKET" THEN Number ELSE opts.sizeBucket
  PROVE  SaidInv'
<1>1. /\ pc' = "parse" /\ opts' = new /\ outcome' = outcome /\ command' = command
      /\ UNCHANGED <<tokens, parser>>
  BY DEF Says, called
<1>2. /\ parse' = parse /\ words' = words /\ m_rgOptions' = m_rgOptions /\ returned' = returned
      /\ scan' = scan /\ argv' = argv /\ text' = text
  BY <1>1 DEF tokens, parser
<1>3. Words' = Words
  BY <1>2 DEF Words, argc, WordFrom
<1>4. AtWork'
  BY <1>1, <1>2, <1>3 DEF SaidInv, AtWork
<1>5. AllHeard'
  <2> SUFFICES ASSUME command = "poolinfo" PROVE Heard(Len(returned))'
    BY <1>1, <1>2 DEF AllHeard
  <2>1. PICK h : h = Len(returned) - 1
    OBVIOUS
  <2>2. h \in Nat /\ h + 1 = Len(returned) /\ option = returned[h + 1] /\ option.error = "SO_SUCCESS"
        /\ Heard(h)
    BY <2>1 DEF SaidInv, AtWork, AllHeard
  <2>3. Heard(h + 1)'
    BY <1>1, <1>2, <2>2, HeardNext DEF Number
  <2>4. Len(returned') = h + 1
    BY <1>2, <2>2
  <2> QED
    BY <2>3, <2>4
<1> QED
  BY <1>1, <1>4, <1>5, NoOutcome DEF SaidInv

LEMMA HandleSaid == CommandInv /\ ReadInv /\ SaidInv /\ Handle => SaidInv'
<1> SUFFICES ASSUME CommandInv, ReadInv, SaidInv, Handle PROVE SaidInv'
  OBVIOUS
<1>1. PhaseInv /\ OptsInv /\ pc = "handle"
  BY DEF CommandInv, Handle, HandleHelp, HandleFlag, HandleBucket, HandleLookType, HandleNumBuckets,
         HandleLookSize, Is
<1>2. DOMAIN opts = OptNames
  BY <1>1 DEF OptsInv
<1>3. ASSUME NEW name, Usage(name) PROVE SaidInv'
  BY <1>1, <1>3, UsageSaid
<1>4. CASE HandleHelp
  BY <1>3, <1>4 DEF HandleHelp
<1>5. CASE HandleFlag
  <2>0. command = "poolinfo" => option.id # "OPT_PL_LOOKASIDE"
    BY <1>1, HandledIsOfTable
  <2>1. PICK new : /\ Says(new)
                   /\ option.id = "OPT_PL_LOOKASIDE" \/
                        /\ option.id \notin {"OPT_HELP", "OPT_PI_BUCKET"}
                        /\ new.bLookaside <=> opts.bLookaside \/ option.id = "OPT_PI_LOOKASIDE"
                        /\ new.bFreeList <=> opts.bFreeList \/ option.id = "OPT_PI_FREELIST"
                        /\ new.sizeBucket = opts.sizeBucket
    <3>1. CASE Is("OPT_PI_SUMMARY") /\ Says([opts EXCEPT !.bSummary = TRUE])
      BY <1>2, <3>1 DEF Is, OptNames
    <3>2. CASE Is("OPT_PI_VERBOSE") /\ Says([opts EXCEPT !.bSummary = FALSE])
      BY <1>2, <3>2 DEF Is, OptNames
    <3>3. CASE Is("OPT_PI_FREELIST") /\ Says([opts EXCEPT !.bFreeList = TRUE])
      BY <1>2, <3>3 DEF Is, OptNames
    <3>4. CASE Is("OPT_PI_LOOKASIDE") /\ Says([opts EXCEPT !.bLookaside = TRUE])
      BY <1>2, <3>4 DEF Is, OptNames
    <3>5. CASE Is("OPT_PP_RAWHDR") /\ Says([opts EXCEPT !.bRaw = TRUE])
      BY <1>2, <3>5 DEF Is, OptNames
    <3>6. ASSUME NEW id \in {"OPT_PL_NONPAGED", "OPT_PL_PAGED", "OPT_PL_SESSION", "OPT_PL_ALL"}, Is(id),
                 NEW types, Says([opts EXCEPT !.poolTypes = types])
          PROVE  \E new : /\ Says(new)
                          /\ option.id \notin {"OPT_HELP", "OPT_PI_BUCKET"}
                          /\ new.bLookaside <=> opts.bLookaside \/ option.id = "OPT_PI_LOOKASIDE"
                          /\ new.bFreeList <=> opts.bFreeList \/ option.id = "OPT_PI_FREELIST"
                          /\ new.sizeBucket = opts.sizeBucket
      BY <1>2, <3>6 DEF Is, OptNames
    <3>7. CASE Is("OPT_PL_LOOKASIDE") /\ Says([opts EXCEPT !.bLookaside = TRUE])
      BY <1>2, <3>7 DEF Is
    <3> QED
      BY <1>5, <3>1, <3>2, <3>3, <3>4, <3>5, <3>6, <3>7 DEF HandleFlag
  <2> QED
    BY <1>1, <2>0, <2>1, SaysSaid
<1>6. CASE HandleBucket
  <2>1. PICK new : new = [opts EXCEPT !.sizeBucket = Number]
    OBVIOUS
  <2>2. /\ new.bLookaside = opts.bLookaside /\ new.bFreeList = opts.bFreeList
        /\ new.sizeBucket = Number /\ Says(new) /\ option.id = "OPT_PI_BUCKET"
    BY <1>2, <1>6, <2>1 DEF OptNames, HandleBucket, Is
  <2> QED
    BY <1>1, <2>2, SaysSaid
<1>7. ASSUME NEW s, NEW n, Says([opts EXCEPT !.structSize = s, !.numBuckets = n]),
             option.id \in {"OPT_PI_LOOKTYPE", "OPT_PI_NUMBUCKETS"}
      PROVE  SaidInv'
  <2>1. PICK new : new = [opts EXCEPT !.structSize = s, !.numBuckets = n]
    OBVIOUS
  <2>2. /\ new.bLookaside = opts.bLookaside /\ new.bFreeList = opts.bFreeList
        /\ new.sizeBucket = opts.sizeBucket /\ Says(new)
    BY <1>2, <1>7, <2>1 DEF OptNames
  <2> QED
    BY <1>1, <1>7, <2>2, SaysSaid
<1>8. CASE HandleLookType
  <2>1. option.id = "OPT_PI_LOOKTYPE"
    BY <1>8 DEF HandleLookType, Is
  <2>2. \/ Says([opts EXCEPT !.structSize = ctx.lookasideStructSize,
                             !.numBuckets = ctx.lookasideBuckets])
        \/ Says([opts EXCEPT !.structSize = ctx.sessionLookasideStructSize,
                             !.numBuckets = ctx.sessionLookasideBuckets])
        \/ Usage(command)
    BY <1>8, Zenon DEF HandleLookType
  <2> QED
    BY <1>3, <1>7, <2>1, <2>2
<1>9. CASE HandleNumBuckets \/ HandleLookSize
  <2>1. PICK new : /\ Says(new) /\ option.id \in {"OPT_PI_NUMBUCKETS", "OPT_PI_LOOKSIZE"}
                   /\ new.bLookaside = opts.bLookaside /\ new.bFreeList = opts.bFreeList
                   /\ new.sizeBucket = opts.sizeBucket
    <3>1. CASE HandleNumBuckets
      <4>1. PICK new : new = [opts EXCEPT !.numBuckets = Number, !.structSize = Number]
        OBVIOUS
      <4>2. Says(new) /\ option.id = "OPT_PI_NUMBUCKETS"
        BY <3>1, <4>1 DEF HandleNumBuckets, Is
      <4>3. new.bLookaside = opts.bLookaside /\ new.bFreeList = opts.bFreeList /\ new.sizeBucket = opts.sizeBucket
        BY <1>2, <4>1 DEF OptNames
      <4> QED
        BY <4>2, <4>3
    <3>2. CASE HandleLookSize
      BY <1>2, <3>2 DEF HandleLookSize, Is, OptNames
    <3> QED
      BY <1>9, <3>1, <3>2
  <2> QED
    BY <1>1, <2>1, SaysSaid
<1> QED
  BY <1>4, <1>5, <1>6, <1>8, <1>9 DEF Handle

LEMMA SaidInvIsInvariant == Spec => []SaidInv
<1>1. CommandInv /\ ReadInv /\ SaidInv /\ [Next]_vars => SaidInv'
  <2> SUFFICES ASSUME CommandInv, ReadInv, SaidInv, [Next]_vars PROVE SaidInv'
    OBVIOUS
  <2>0. PhaseInv
    BY DEF CommandInv
  <2>1. CASE NoMemory \/ ArgumentsMakeSense \/ Cleanup \/ UNCHANGED vars
    <3>1. pc = "start" => outcome.does = "nothing"
      BY <2>0 DEF PhaseInv
    <3>2. Untouched /\ outcome' = outcome
      BY <2>1 DEF NoMemory, ArgumentsMakeSense, Cleanup, vars, Untouched, called
    <3>3. \/ pc' = pc \/ (pc = "start" /\ pc' = "cleanup") \/ (pc = "check" /\ pc' = "run")
          \/ (pc = "cleanup" /\ pc' = "done")
      BY <2>1 DEF NoMemory, ArgumentsMakeSense, Cleanup, vars
    <3> QED
      BY <3>1, <3>2, <3>3, GoesOn
  <2>2. CASE MakeCmdline \/ Scan
    BY <2>0, <2>2, CutSaid
  <2>3. CASE InitOptions
    BY <2>0, <2>3, InitOptionsSaid
  <2>4. CASE TakeOption
    BY <2>0, <2>4, TakeOptionSaid
  <2>5. CASE EndOfOptions
    BY <2>0, <2>5, EndOfOptionsSaid
  <2>6. CASE Handle
    BY <2>6, HandleSaid
  <2>7. CASE CheckLookaside \/ CheckAddress \/ NotALookaside \/ ShowOther
    <3>1. ASSUME NEW name, Usage(name), pc = "check" PROVE SaidInv'
      BY <3>1, UsageSaid
    <3>2. ASSUME NEW result, End(result), pc \in {"check", "run"},
                 result.does \in {"badBucket", "noLookaside", "work"}
          PROVE  SaidInv'
      BY <3>2, EndsSaid
    <3>3. CASE CheckLookaside
      <4>1. PICK result : result = [Nothing EXCEPT !.does = "badBucket"]
        OBVIOUS
      <4>2. result.does = "badBucket"
        BY <4>1 DEF Nothing
      <4> QED
        BY <3>1, <3>2, <3>3, <4>1, <4>2 DEF CheckLookaside
    <3>4. CASE CheckAddress
      BY <3>1, <3>4 DEF CheckAddress
    <3>5. CASE NotALookaside
      <4>1. PICK result : result = [Nothing EXCEPT !.does = "noLookaside", !.expr = Expression]
        OBVIOUS
      <4>2. result.does = "noLookaside"
        BY <4>1 DEF Nothing
      <4> QED
        BY <3>2, <3>5, <4>1, <4>2 DEF NotALookaside
    <3>6. CASE ShowOther
      <4>1. PICK result : result = [Nothing EXCEPT !.does = "work", !.of = command,
                                                   !.expr = IF command = "poollist" THEN <<>> ELSE Expression]
        OBVIOUS
      <4>2. result.does = "work"
        BY <4>1 DEF Nothing
      <4> QED
        BY <3>2, <3>6, <4>1, <4>2 DEF ShowOther
    <3> QED
      BY <2>7, <3>3, <3>4, <3>5, <3>6
  <2>8. CASE ShowLookaside
    <3>1. PICK result : End(result) /\ result.does = "lookaside" /\ result.expr = Expression
      BY <2>8 DEF ShowLookaside
    <3>2. pc = "run" /\ command = "poolinfo" /\ opts.bLookaside
      BY <2>8 DEF ShowLookaside
    <3> QED
      BY <3>1, <3>2, EndsSaid
  <2>9. CASE ShowPool
    <3>1. PICK result : /\ End(result) /\ result.expr = Expression
                        /\ result.does = IF opts.bFreeList THEN "listHeads" ELSE "descriptor"
      BY <2>9 DEF ShowPool
    <3>2. pc = "run" /\ command = "poolinfo" /\ ~opts.bLookaside
      BY <2>9 DEF ShowPool
    <3> QED
      BY <3>1, <3>2, EndsSaid
  <2> QED
    BY <2>1, <2>2, <2>3, <2>4, <2>5, <2>6, <2>7, <2>8, <2>9 DEF Next, Step, Finished
<1> QED
  BY <1>1, SaidInit, CommandInvIsInvariant, ReadInvIsInvariant, PTL DEF Spec

-----------------------------------------------------------------------------
\* When no option is left, those returned are those of the command line.
LEMMA AllAreReturned ==
  ASSUME ParseInv, ReadInv, parse = "end"
  PROVE  /\ Len(returned) \in Nat /\ DOMAIN returned = 1 .. Len(returned)
         /\ {OptionAt(p) : p \in OptionPlaces} = {returned[n] : n \in 1 .. Len(returned)}
         /\ \A n, m \in 1 .. Len(returned) :
              /\ returned[n].at \in Int
              /\ n < m => returned[n].at < returned[m].at
<1> DEFINE S == {OptionAt(p) : p \in OptionPlaces}
<1>1. /\ returned \in Seq(S)
      /\ \A n, k \in DOMAIN returned : n < k => returned[n].at < returned[k].at
      /\ {returned[n].at : n \in DOMAIN returned} = {q \in OptionPlaces : q < Frontier}
  BY DEF ReadInv, OptionsRead
<1>2. Frontier = m_argc /\ m_argc \in Nat /\ \A p \in OptionPlaces : p \in Int /\ p < m_argc
  BY FrontierIs DEF ParseInv, ReadInv, Frontier, Moved, OptionPlaces, Places
<1>3. \A o \in S : o.at \in OptionPlaces /\ o = OptionAt(o.at)
  BY DEF OptionAt
<1>4. DOMAIN returned = 1 .. Len(returned) /\ Len(returned) \in Nat /\ \A n \in 1 .. Len(returned) : returned[n] \in S
  <2> HIDE DEF S
  <2> QED
    BY <1>1
<1>5. ASSUME NEW p \in OptionPlaces PROVE \E n \in 1 .. Len(returned) : returned[n] = OptionAt(p)
  <2>1. PICK n \in 1 .. Len(returned) : returned[n].at = p
    BY <1>1, <1>2, <1>4
  <2>2. returned[n] = OptionAt(p)
    BY <1>3, <1>4, <2>1
  <2> QED
    BY <2>2
<1>6. S = {returned[n] : n \in 1 .. Len(returned)}
  BY <1>4, <1>5
<1>7. \A n \in 1 .. Len(returned) : returned[n].at \in Int
  BY <1>2, <1>3, <1>4
<1> QED
  BY <1>1, <1>4, <1>6, <1>7

LEMMA AcceptedIsTold ==
  ASSUME ParseInv, ReadInv, parse = "end", NEW ids
  PROVE  Accepted(ids) = {returned[n] : n \in Told(Len(returned), ids)}
  BY AllAreReturned DEF Accepted, Told

\* The last that is heard is the last on the line.
LEMMA LastIsLast ==
  ASSUME ParseInv, ReadInv, parse = "end", NEW ids,
         NEW n \in Told(Len(returned), ids), \A m \in Told(Len(returned), ids) : m <= n
  PROVE  LastOf(ids) = returned[n]
<1>1. PICK len : len = Len(returned)
  OBVIOUS
<1>2. len \in Nat /\ \A m, k \in 1 .. len : returned[m].at \in Int
                                         /\ (m < k => returned[m].at < returned[k].at)
  BY <1>1, AllAreReturned
<1>3. \A m \in Told(len, ids) : m \in 1 .. len /\ (m = n \/ m < n)
  BY <1>1, <1>2 DEF Told
<1>4. Accepted(ids) = {returned[m] : m \in Told(len, ids)} /\ n \in Told(len, ids)
  BY <1>1, AcceptedIsTold
<1>5. \A m \in Told(len, ids) : returned[m].at <= returned[n].at
  <2> SUFFICES ASSUME NEW m \in Told(len, ids) PROVE returned[m].at <= returned[n].at
    OBVIOUS
  <2>1. PICK x, y : x = returned[m].at /\ y = returned[n].at
    OBVIOUS
  <2>2. x \in Int /\ y \in Int /\ (m = n \/ x < y)
    BY <1>2, <1>3, <1>4, <2>1
  <2>3. x <= y
    BY <2>1, <2>2
  <2> QED
    BY <2>1, <2>3
<1>6. \A m \in Told(len, ids) : returned[n].at <= returned[m].at => m = n
  <2> SUFFICES ASSUME NEW m \in Told(len, ids), m < n PROVE ~(returned[n].at <= returned[m].at)
    BY <1>3
  <2>1. PICK x, y : x = returned[m].at /\ y = returned[n].at
    OBVIOUS
  <2>2. x \in Int /\ y \in Int /\ x < y
    BY <1>2, <1>3, <1>4, <2>1
  <2>3. ~(y <= x)
    BY <2>2
  <2> QED
    BY <2>1, <2>3
<1>7. /\ returned[n] \in Accepted(ids)
      /\ \A other \in Accepted(ids) : other.at <= returned[n].at
      /\ \A o \in Accepted(ids) : (\A other \in Accepted(ids) : other.at <= o.at) => o = returned[n]
  BY <1>4, <1>5, <1>6
<1> QED
  BY <1>7 DEF LastOf

\* From the text typed to the walk made, whatever is typed, for every table of
\* numbers and every context.
THEOREM WhatWasTypedIsDone == Spec => []DoesWhatWasTyped
<1>1. CommandInv /\ ReadInv /\ SaidInv /\ WordsAreTheLine /\ (Walks => BucketFitsSize) => DoesWhatWasTyped
  <2> SUFFICES ASSUME CommandInv, ReadInv, SaidInv, WordsAreTheLine, Walks => BucketFitsSize, Walks
               PROVE  /\ Accepted({"OPT_HELP"}) = {}
                      /\ outcome.does = "lookaside" <=> Accepted({"OPT_PI_LOOKASIDE"}) # {}
                      /\ outcome.does = "listHeads" => Accepted({"OPT_PI_FREELIST"}) # {}
                      /\ opts.sizeBucket = IF Accepted({"OPT_PI_BUCKET"}) = {} THEN BUCKET_ALL
                                           ELSE strtoul(LastOf({"OPT_PI_BUCKET"}).arg)
                      /\ BucketFitsSize
                      /\ LET files == InOrder(FilePlaces)
                         IN  outcome.expr = FlattenArgv([n \in DOMAIN files |-> WordsOf(line)[files[n] + 1]])
    BY Zenon DEF DoesWhatWasTyped
  <2>1. /\ parse = "end" /\ Heard(Len(returned)) /\ ParseInv
        /\ outcome.does = "lookaside" <=> opts.bLookaside
        /\ outcome.does = "listHeads" => opts.bFreeList
        /\ outcome.expr = Expression
        /\ words = Words /\ scan = "done"
    BY DEF SaidInv, AtWork, Decided, CommandInv
  <2>2. PICK h : h = Len(returned)
    OBVIOUS
  <2>3. Heard(h)
    BY <2>1, <2>2
  <2>4. ASSUME NEW ids PROVE Accepted(ids) = {} <=> Told(h, ids) = {}
    <3>1. Accepted(ids) = {returned[n] : n \in Told(h, ids)}
      BY <2>1, <2>2, AcceptedIsTold
    <3> QED
      BY <3>1
  <2>5. opts.sizeBucket = IF Accepted({"OPT_PI_BUCKET"}) = {} THEN BUCKET_ALL
                          ELSE strtoul(LastOf({"OPT_PI_BUCKET"}).arg)
    <3>1. CASE Told(h, {"OPT_PI_BUCKET"}) = {}
      BY <2>3, <2>4, <3>1 DEF Heard
    <3>2. CASE Told(h, {"OPT_PI_BUCKET"}) # {}
      <4>1. PICK n \in Told(h, {"OPT_PI_BUCKET"}) :
              /\ \A m \in Told(h, {"OPT_PI_BUCKET"}) : m <= n
              /\ opts.sizeBucket = strtoul(returned[n].arg)
        BY <2>3, <3>2 DEF Heard
      <4>2. LastOf({"OPT_PI_BUCKET"}) = returned[n]
        BY <2>1, <2>2, <4>1, LastIsLast
      <4> QED
        BY <2>4, <3>2, <4>1, <4>2
    <3> QED
      BY <3>1, <3>2
  <2>6. Expression = FlattenArgv([n \in DOMAIN InOrder(FilePlaces) |-> WordsOf(line)[InOrder(FilePlaces)[n] + 1]])
    <3>1. Files = [n \in 1 .. Cardinality(FilePlaces) |-> words[InOrder(FilePlaces)[n] + 1]]
      BY <2>1, FilesAreLeftToRight
    <3>2. DOMAIN InOrder(FilePlaces) = 1 .. Cardinality(FilePlaces) /\ words = WordsOf(line)
      BY <2>1 DEF InOrder, WordsAreTheLine
    <3> QED
      BY <3>1, <3>2 DEF Expression
  <2>7. Told(h, {"OPT_HELP"}) = {}
    BY <2>3 DEF Heard
  <2>8. (opts.bLookaside <=> Told(h, {"OPT_PI_LOOKASIDE"}) # {}) /\ (opts.bFreeList <=> Told(h, {"OPT_PI_FREELIST"}) # {})
    BY <2>3, Zenon DEF Heard
  <2> QED
    BY <2>1, <2>4, <2>5, <2>6, <2>7, <2>8
<1> QED
  BY <1>1, CommandInvIsInvariant, ReadInvIsInvariant, SaidInvIsInvariant, WordsAreCutRight,
     WalkedBucketFits, PTL
=============================================================================
