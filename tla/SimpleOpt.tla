------------------------------ MODULE SimpleOpt ------------------------------
(***************************************************************************)
(* CSimpleOpt as the commands use it, with no flags: options and files may *)
(* be mixed on the command line.  Each call of Next returns one option and *)
(* moves the files before it behind all the others, in the same array of   *)
(* pointers it goes on reading.                                            *)
(*                                                                         *)
(* A pointer is the place of a word on the command line; place 0 is the    *)
(* command's name.  A word is a sequence of characters; a character may    *)
(* stand for several that no option tells apart.                           *)
(***************************************************************************)
EXTENDS Sequences, Order

CONSTANTS
  NULL,       \* the null pointer
  StaticBuf   \* SO_STATICBUF, the words a shuffle can move without malloc

VARIABLES
  words,          \* the words of the command line; words[p + 1] is at place p
  m_rgOptions,    \* the table of options: [nId, pszArg, nArgType]
  m_argv,         \* the array
  m_nNextOption,  \* everything before it has been returned
  m_nLastArg,     \* the files begin here
  option,         \* the option returned last
  returned,       \* history: all of them
  m_rgShuffleBuf, \* NULL, "allocated", or "failed": NULL for want of memory
  shuffled,       \* history: the most words a shuffle has moved
  parse           \* "idle", "next", "end"

cmdline == <<words, m_rgOptions>>
parser == <<words, m_rgOptions, m_argv, m_nNextOption, m_nLastArg, option, returned,
          m_rgShuffleBuf, shuffled, parse>>

m_argc == Len(words)
Places == 0 .. m_argc - 1

\* An option that was returned: its place, LastError(), OptionId() and the
\* place and text of OptionArg().
NoOption == [at |-> 0, error |-> "SO_SUCCESS", id |-> NULL, argAt |-> 0, arg |-> NULL]

NoArguments ==
  /\ parse = "idle"
  /\ words = <<>> /\ m_rgOptions = <<>> /\ m_argv = <<>>
  /\ m_nNextOption = 1 /\ m_nLastArg = 0
  /\ option = NoOption /\ returned = <<>>
  /\ m_rgShuffleBuf = NULL /\ shuffled = 0

-----------------------------------------------------------------------------
\* PrepareArg: a slash before an option is a hyphen.
Prepared(w) ==
  IF Len(w) > 1 /\ w[1] = "/" /\ w[2] # "-" THEN [w EXCEPT ![1] = "-"] ELSE w

IsSwitch(w) == Prepared(w) # <<>> /\ Prepared(w)[1] = "-"

\* FindEquals: the text of an option before its equals sign, and after it.
Equals(w)    == {k \in DOMAIN w : w[k] = "="}
FirstEquals(w) == CHOOSE k \in Equals(w) : \A n \in Equals(w) : k <= n
Text(w)      == IF Equals(w) = {} THEN Prepared(w) ELSE SubSeq(Prepared(w), 1, FirstEquals(w) - 1)
Combined(w)  == IF Equals(w) = {} THEN NULL ELSE SubSeq(w, FirstEquals(w) + 1, Len(w))

\* CalcMatch: the hyphens must agree in number; then the rest is compared.
Hyphens(s) == CHOOSE n \in 0 .. Len(s) :
                (\A k \in 1 .. n : s[k] = "-") /\ (n < Len(s) => s[n + 1] # "-")

PerfectMatch(source, test) == source = test

PartialMatch(source, test) ==
  /\ Len(test) < Len(source) /\ SubSeq(source, 1, Len(test)) = test
  /\ Hyphens(source) = Hyphens(test) /\ Hyphens(test) < Len(test)

\* LookupOption: a perfect match, else the only partial one.  (Partial matches
\* are all as long as the text, so that none is better than another.)
Perfect(s) == {n \in DOMAIN m_rgOptions : PerfectMatch(m_rgOptions[n].pszArg, s)}
Partial(s) == {n \in DOMAIN m_rgOptions : PartialMatch(m_rgOptions[n].pszArg, s)}

LookupOption(s) ==
  LET perfect == Perfect(s)
      partial == Partial(s)
  IN  CASE perfect # {} -> [error |-> "SO_SUCCESS", row |-> CHOOSE n \in perfect : \A k \in perfect : n <= k]
        [] perfect = {} /\ partial = {} -> [error |-> "SO_OPT_INVALID", row |-> 0]
        [] perfect = {} /\ Cardinality(partial) = 1 -> [error |-> "SO_SUCCESS", row |-> CHOOSE n \in partial : TRUE]
        [] perfect = {} /\ Cardinality(partial) > 1 -> [error |-> "SO_OPT_MULTIPLE", row |-> 0]

\* What is known of an option from its own word.
Read(w) ==
  LET found == LookupOption(Text(w))
      row   == IF found.row = 0 THEN [nId |-> NULL, pszArg |-> <<>>, nArgType |-> "SO_NONE"]
                                ELSE m_rgOptions[found.row]
  IN  [error |-> IF found.error = "SO_SUCCESS" /\ row.nArgType = "SO_NONE" /\ Combined(w) # NULL
                 THEN "SO_ARG_INVALID" ELSE found.error,
       id |-> row.nId, arg |-> Combined(w),
       wants |-> row.nArgType = "SO_REQ_SEP" /\ Combined(w) = NULL]

-----------------------------------------------------------------------------
InitParserOneLater(ws, options) ==
  /\ parse = "idle"
  /\ words' = ws /\ m_rgOptions' = options
  /\ m_argv' = [p \in 0 .. Len(ws) - 1 |-> p]
  /\ m_nNextOption' = 1 /\ m_nLastArg' = Len(ws)
  /\ IF Len(ws) - 2 > StaticBuf THEN m_rgShuffleBuf' \in {"allocated", "failed"}
                              ELSE m_rgShuffleBuf' = NULL
  /\ parse' = "next"
  /\ UNCHANGED <<option, returned, shuffled>>

\* Init(argc, argv, options, 0).  Nobody tests its result: if the malloc has
\* failed, Next goes on with the static buffer.
InitParser(ws, options) ==
  /\ parse = "idle"
  /\ words' = ws /\ m_rgOptions' = options
  /\ m_argv' = [p \in 0 .. Len(ws) - 1 |-> p]
  /\ m_nNextOption' = 1 /\ m_nLastArg' = Len(ws)
  /\ IF Len(ws) > StaticBuf THEN m_rgShuffleBuf' \in {"allocated", "failed"}
                          ELSE m_rgShuffleBuf' = NULL
  /\ parse' = "next"
  /\ UNCHANGED <<option, returned, shuffled>>

\* ShuffleArg(start, count): the words are saved, the tail - the files that
\* are there already included - is moved down, and they are appended.
ShuffledBeforeFiles(start, count) ==
  LET nTail == m_nLastArg - start - count
  IN  [p \in Places |-> IF p < start \/ p >= m_nLastArg THEN m_argv[p]
                        ELSE IF p < start + nTail THEN m_argv[p + count]
                        ELSE m_argv[p - nTail]]

Shuffled(start, count) ==
  LET nTail == m_argc - start - count
  IN  [p \in Places |-> IF p < start THEN m_argv[p]
                        ELSE IF p < start + nTail THEN m_argv[p + count]
                        ELSE m_argv[p - nTail]]

ShuffleArg(start, count) ==
  /\ m_argv' = Shuffled(start, count)
  /\ m_nLastArg' = m_nLastArg - count
  /\ shuffled' = IF count > shuffled THEN count ELSE shuffled

WordAt(p) == words[m_argv[p] + 1]
Unread    == m_nNextOption .. m_nLastArg - 1

\* No option is left: everything unread is files, and Next returns FALSE.
NoMoreOptions ==
  /\ parse = "next"
  /\ \A p \in Unread : ~IsSwitch(WordAt(p))
  /\ ShuffleArg(m_nNextOption, Cardinality(Unread))
  /\ parse' = "end"
  /\ UNCHANGED <<cmdline, m_nNextOption, option, returned, m_rgShuffleBuf>>

\* The word at k, if it may be the argument of the option before it.
MultiArgOfAnyWord(k, last) ==
  IF k >= m_argc THEN "SO_ARG_MISSING"
  ELSE IF IsSwitch(WordAt(k)) THEN "SO_ARG_INVALID_DATA"
  ELSE "SO_SUCCESS"

MultiArg(k, last) ==
  IF k >= last THEN "SO_ARG_MISSING"
  ELSE IF IsSwitch(WordAt(k)) THEN "SO_ARG_INVALID_DATA"
  ELSE "SO_SUCCESS"

Return(o) == option' = o /\ returned' = Append(returned, o)

\* The first option among the unread words, at k.
FirstSwitch(k) == k \in Unread /\ IsSwitch(WordAt(k)) /\ \A p \in m_nNextOption .. k - 1 : ~IsSwitch(WordAt(p))

\* Next returns it, with an argument of its own if it is to have one.  (After
\* the shuffle the option lies at m_nNextOption and the word behind it at the
\* next place, which before the shuffle was k + 1.)
NextOption(k) ==
  /\ parse = "next" /\ FirstSwitch(k)
  /\ \E o \in {Read(WordAt(k))} :
       Return([at    |-> m_argv[k],
               error |-> IF o.wants THEN MultiArg(k + 1, m_nLastArg) ELSE o.error,
               id    |-> o.id,
               argAt |-> IF o.wants /\ MultiArg(k + 1, m_nLastArg) = "SO_SUCCESS" THEN m_argv[k + 1] ELSE 0,
               arg   |-> IF o.wants /\ MultiArg(k + 1, m_nLastArg) = "SO_SUCCESS" THEN WordAt(k + 1) ELSE o.arg])
  /\ ShuffleArg(m_nNextOption, k - m_nNextOption)
  /\ m_nNextOption' = m_nNextOption + (IF option'.argAt = 0 THEN 1 ELSE 2)
  /\ UNCHANGED <<cmdline, m_rgShuffleBuf, parse>>

NextCall == NoMoreOptions \/ \E k \in Unread : NextOption(k)

Files == SubSeq([n \in 1 .. m_argc |-> words[m_argv[n - 1] + 1]], m_nLastArg + 1, m_argc)

-----------------------------------------------------------------------------
\* "files will be returned to the application in the same order they were
\* supplied on the command line" (SimpleOpt.h:58): though each call may move
\* some of them to the end of the array it is reading.
FilesKeepOrder ==
  \A p, q \in m_nLastArg .. m_argc - 1 : p < q => m_argv[p] < m_argv[q]

(***************************************************************************)
(* The options of a command line, read from left to right and nothing      *)
(* moved: a word is an argument if the one before it is an option that     *)
(* wants one, and it is no option itself.                                  *)
(***************************************************************************)
IsArgument ==
  LET is[p \in Places] ==
        /\ p > 1 /\ ~is[p - 1]
        /\ IsSwitch(words[p]) /\ Read(words[p]).wants
        /\ ~IsSwitch(words[p + 1])
  IN  is

OptionPlaces == {p \in Places : p > 0 /\ IsSwitch(words[p + 1])}
FilePlaces   == {p \in Places : p > 0 /\ ~IsSwitch(words[p + 1]) /\ ~IsArgument[p]}

OptionAt(p) ==
  LET o == Read(words[p + 1])
  IN  [at    |-> p,
       error |-> IF ~o.wants THEN o.error
                 ELSE IF p + 1 = m_argc THEN "SO_ARG_MISSING"
                 ELSE IF IsArgument[p + 1] THEN "SO_SUCCESS" ELSE "SO_ARG_INVALID_DATA",
       id    |-> o.id,
       argAt |-> IF o.wants /\ p + 1 < m_argc /\ IsArgument[p + 1] THEN p + 1 ELSE 0,
       arg   |-> IF ~o.wants THEN o.arg
                 ELSE IF p + 1 < m_argc /\ IsArgument[p + 1] THEN words[p + 2] ELSE NULL]

\* Every word of the command line is returned once, as an option, as an
\* option's argument or as a file: what Next returns, call by call, is the
\* command line read from left to right, and the files at the end are the rest.
ParseIsLeftToRight ==
  LET places == InOrder(OptionPlaces)
  IN  /\ Len(returned) <= Len(places)
      /\ \A n \in DOMAIN returned : returned[n] = OptionAt(places[n])
      /\ parse = "end" =>
           /\ Len(returned) = Len(places)
           /\ Files = [n \in 1 .. Cardinality(FilePlaces) |-> words[InOrder(FilePlaces)[n] + 1]]

\* Room in the shuffle buffer.
Room == IF m_rgShuffleBuf = "allocated" THEN m_argc ELSE StaticBuf

\* A shuffle stays in its buffer, however many files stand before an option:
\* only a malloc that has failed, untested, lets it write past the static one.
ShuffleFits == m_rgShuffleBuf # "failed" => shuffled <= Room
=============================================================================
