----------------------------- MODULE MCCommands ------------------------------
(***************************************************************************)
(* !poolinfo with every text of up to five blanks, quotes and letters, for *)
(* the cutting into words; with every sentence of up to three words that   *)
(* are options of all kinds - arguments apart and combined, an             *)
(* abbreviation, an ambiguous one, unknown ones, a slash - and with four   *)
(* words of those a walk depends on.  The other commands with the          *)
(* sentences of two.  A ULONG has 64 values, a chunk 4 or 8 bytes.         *)
(***************************************************************************)
EXTENDS Commands

Texts == UNION {[1 .. n -> {" ", Quote, "x"}] : n \in 0 .. 5}

\* Words one after another, with a space between them.
Longer(sentences, vocabulary) == {s \o <<" ">> \o w : s \in sentences, w \in vocabulary}

Pairs(vocabulary)   == Longer(vocabulary, vocabulary)
Triples(vocabulary) == Longer(Pairs(vocabulary), vocabulary)

Flags    == {<<"-", "l">>, <<"/", "f">>}
Spaced   == {<<"-", "b">>, <<"-", "l", "b">>, <<"-", "t">>}
Joined   == {<<"-", "b", "=", "9">>, <<"-", "v", "=", "9">>}
Unusual  == {<<"-", "-", "fr">>, <<"-", "-", "look">>, <<"-">>, <<"-", "h">>}
Data     == {<<"9">>, <<Quote, "x", " ", "9", Quote>>}

Walking  == {<<"-", "l">>, <<"-", "f">>, <<"-", "b", "=", "9">>, <<"-", "b", "=", "20">>,
             <<"-", "b", "=", "3e">>, <<"-", "t", "=", "paged">>, <<"-", "t", "=", "session">>,
             <<"-", "l", "b", "=", "9">>, <<"-", "l", "s", "=", "9">>}

Others   == {<<"-", "a">>, <<"-", "n">>, <<"-", "p">>, <<"-", "s">>, <<"-", "r">>, <<"-", "l">>,
             <<"-", "h">>, <<"-", "z">>, <<"x">>}

AnyOption == Flags \cup Spaced \cup Joined \cup Unusual \cup Data

MCLines ==
  [c \in CommandNames |->
     IF c = "poolinfo"
     THEN Texts \cup AnyOption \cup Pairs(AnyOption) \cup Triples(AnyOption)
          \cup Longer(Pairs(Walking) \cup Triples(Walking), {<<"x">>})
     ELSE {<<>>} \cup Others \cup Pairs(Others)]

MCNumbers == [w \in {<<"9">>, <<"20">>, <<"3e">>} |->
                CASE w = <<"9">> -> 9 [] w = <<"20">> -> 20 [] w = <<"3e">> -> 62]

MCContexts ==
  {[poolBlockSize |-> 4, listHeadsBuckets |-> 4, lookasideBuckets |-> 3,
    sessionLookasideBuckets |-> 2, lookasideStructSize |-> 8, sessionLookasideStructSize |-> 8],
   [poolBlockSize |-> 8, listHeadsBuckets |-> 2, lookasideBuckets |-> 3,
    sessionLookasideBuckets |-> 1, lookasideStructSize |-> 8, sessionLookasideStructSize |-> 8]}
=============================================================================
