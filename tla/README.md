# A verification development for poolinfo

poolinfo is a WinDbg extension with four commands about the Windows kernel
pool: `!poolpage` shows the chunks of a page, `!poolchunk` finds the chunk a
pointer is in and, if it is free, the free list it is on, `!poollist` lists the
pool descriptors and `!poolinfo` shows a descriptor, its free lists and its
lookasides.  This directory models the extension in TLA+, checks the models
with TLC and proves theorems about them with TLAPS.  Source paths are relative
to `src/src/poolinfo/`.

## Inventory

The extension is sequential: a command runs on the debugger's thread to its
end.  What makes it hard is its environment.  The target may be running (local
kernel debugging), damaged (a crash dump of a pool corruption, the very case the
extension is for) or unreadable in part, and every read of it can fail.

| component | state | operations | talks to |
|---|---|---|---|
| page walk (`pool.cpp`: `EnumPoolPage`, `FindPoolHeader`; `poolinfo.cpp`: `poolpage`) | a copy of the page, an offset | one read, then a loop with a callback for each header | `!poolpage` and `!poolchunk` give it the callback |
| ListHeads walk (`pool.cpp`: `EnumListHeads`, `EnumListHeadsBucket`) | bucket, position, counter, `FIND_PTR` | one read per link; a callback that may read the header and end the walk | called by `FindFreeChunk` and `!poolinfo -f` |
| lookaside walk (`pool.cpp`: `EnumLookasides`, `EnumLookasideBucket`) | the same | the same, except that a callback's FALSE does not end the bucket | called by `FindFreeChunk` and `!poolinfo -l` |
| search for a free chunk (`pool.cpp`: `FindFreeChunk`, `FindChunkInListHeads`) | lists of descriptors and lookasides, `FIND_PTR` | searches each in turn, reports the first whose enumeration returned FALSE | both walks, descriptor discovery |
| command context (`context.cpp`) | interfaces, cloned structures, list of KPRCBs | `InitCmdCtx`, `ReleaseCmdCtx`, `GetAllKprcb` | every command |
| struct and symbol layer (`syms.cpp`) | offsets, sizes and data pointers of structure fields | `ResolveStruct`, `GetReadStructLength`, `ReadVirtualStruct`, accessors | context, discovery, printing |
| descriptor discovery (`pool.cpp`: `GetAllPoolDescriptors`, `GetAllLookasides`) | allocated arrays of descriptors | reads globals, counts, copies the parts into one list | search, `!poollist`, `!poolinfo` |
| allocated-chunk report (`pool.cpp`: `PrintExtendedChunkInfo`; `poolinfo.cpp`: `poolchunk`) | header, `FIND_PTR` | page walk, header read again, then the search or the pool types | page walk, search |
| options of `!poolinfo` and `!poollist` (`poolinfo.cpp`) | option variables | option loop, range tests, bucket arithmetic, choice of walk | walks, discovery |
| command line (`util.cpp`) | a buffer of arguments | `MakeCmdline`, `CommandLineToArgvA`, `FlattenArgv` | every command |
| option parser (`SimpleOpt.h`, vendored) | the argument vector, reordered in place | `Next`, `ShuffleArg` | every command |
| printing, entry points, build files | none that outlives a call | formatting, glue | |

Correctness, by component:

- *Page walk*: no read outside the copy for any contents of the page; progress;
  an answer that depends on the page and the pointer alone; a clean listing that
  accounts for every byte.
- *List walks*: what a search reports is on the list, at that place; a search
  that says "no" has looked everywhere; a listing is complete, in order, and
  numbered as the list is; the walk ends when the lists do.
- *Search*: the report names the descriptor the chunk is really on; nothing one
  descriptor left behind is reported for another; giving up means it is nowhere.
- *Context*: what is acquired is released on every path, nothing twice; a
  command that starts has everything it dereferences.
- *Structures*: the read covers every field that will be dereferenced.
- *Discovery*: the list is the concatenation of its parts whichever of them
  fail; nothing freed is read; what stays allocated is known.
- *Allocated-chunk report*: what is said of a chunk follows from one reading of
  its header, even if the target runs; no index leaves its array; it comes to an
  end.
- *Options*: the walk made is the one typed, in a bucket that fits the size and
  exists; every way out releases what is held.
- *Command line*: the block allocated suffices; the words are those the quotes
  make.
- *Option parser*: options and files are what reading from left to right gives,
  though the array is reordered while it is read.

The hazards behind these properties are listed, each at its line, in
`PROJECT.json`.

## Modules

| module | models | state and actions |
|---|---|---|
| `PoolGeometry` | page layout (`poolinfo.h`, `pool.h`) | page and chunk arithmetic, and what a page means without any walk: `Starts`, the chunk starts, is the least set that holds 0 and is closed under "the next chunk" |
| `ChunkLookup` | *abstract specification* of `!poolpage` and `!poolchunk` | the page is read once; the chunk named is the one of that page the pointer is in, or none if there is none |
| `PoolPage` | `EnumPoolPage`, its callbacks `EnumPoolProcFindHeader` and `EnumProcPrintHeader`, `FindPoolHeader`, the reads of `poolpage` | one action per read and per iteration of the loop |
| `PoolPageProofs` | | theorems about `PoolPage` |
| `Target` | the memory behind the free lists (external), the reads of `util.cpp`, `FIND_PTR` | links, failing reads and which chunks contain the pointer, as one record; what a list is and what of it a listing shows, without a walk (`Closes`, `Ends`, `Listing`) |
| `Enumeration` | *abstract specification* of `EnumListHeads` and `EnumLookasides` | the calls of the callback: one list after another, an entry at a time; no loops, counters or cursors |
| `ListHeads` | `EnumListHeads`, `EnumListHeadsBucket` and their callbacks | one action per read of a link or header, one per outcome of the callback |
| `Lookasides` | `EnumLookasides`, `EnumLookasideBucket` and their callbacks | the same; the answer of the callback is kept but not looked at, as in the code |
| `ListWalk` | one enumeration of either kind | composes `ListHeads` and `Lookasides` over the same variables, so that what is checked and proved is about both |
| `ListWalkProofs` | | lemmas about lists in any memory, theorems about `ListWalk` |
| `FreeChunkSearch` | `FindFreeChunk`, `FindChunkInListHeads` | extends `ListWalk`, whose steps are its steps: the loops over descriptors and lookasides |
| `PoolChunk` | `!poolchunk` and `PrintExtendedChunkInfo` | extends `FreeChunkSearch`: one action per read of the header, per way to get descriptors, and per line printed; the target may run (`TargetRuns`) between the reads of the header |
| `PoolChunkProofs` | | theorems about `PoolChunk` and the search in it |
| `Order` | | `InOrder`, the members of a set of numbers as a sequence: what the references below are put in order with |
| `OrderProofs` | | lemmas about numbers: smallest members, induction, `InOrder` |
| `CmdLine` | `CommandLineToArgvA` | one action per character class; what the words of a line *are* (`WordsOf`) is defined by counting quotes, without the scan |
| `SimpleOpt` | `CSimpleOpt`: `Init`, `Next`, `ShuffleArg`, `LookupOption`, `MultiArg`, `Files` | one action per call of `Next`; the array of pointers is a function from places to places |
| `Commands` | the option loops of the four commands, `MakeCmdline`, `FlattenArgv`, `GetExpressionArgv`, the macros of `poolinfo.h` | extends `CmdLine` and `SimpleOpt`, whose steps are its steps; one action per option, test and outcome |
| `CommandsProofs` | | theorems about `Commands`, the cutting of the line and the parser in it |
| `CmdContext` | `InitCmdCtx`, `ReleaseCmdCtx`, `GetAllKprcb`, `ResolveAllStructs` | one action per interface, structure, processor and list entry, each with its failure |
| `CmdContextProofs` | | theorems about `CmdContext` |
| `Structs` | `CloneStruct`, `ResolveStruct`, `GetReadStructLength`, `ReadVirtualStruct`, accessors | one action per iteration of each loop |
| `StructsProofs` | | theorems about `Structs` |
| `PoolList` | `poollist`, `GetAllPoolDescriptors`, `GetNonPagedPools`, `GetPagedPools`, `GetSessionPool`, `GetAllLookasides` and its four parts | one action per part, per array entry and per failure; a pointer is NULL or the contents of its block, and `heap` is the set of blocks |
| `PoolListProofs` | | theorems about `PoolList` |

Each `MC...` module gives the constants of its component their values for TLC.

How the modules stand for the code:

- A local variable keeps its name and the program counter `pc` is named for the
  read, loop or call the code is at.  A macro (`PTR_IN_CHUNK`) or small helper is
  an operator of that name.
- Operators named like another with a suffix (`EndOfPageUnchecked`,
  `ReturnOneTooMany`) are slips the code might have had; no specification uses
  them.  They show that each property can be violated.
- Addresses are relative to the base of a page in `PoolPage`, and symbols in
  `Target`, where only "which chunks contain the pointer" matters.  A damaged
  header may make several chunks contain it, and a damaged list may run through
  the heads of others.
- A target that is running can give any page each time it is read (`PoolPage`),
  and another header each time (`PoolChunk`).  During one enumeration of a list
  the target's memory is taken to be still.
- A character of a command line is a string that may stand for several no part
  of the program tells apart; `strtoul` is a function on words (`Numbers`).
- `PrepareArg` and `FindEquals` change words in place for the time of a look-up
  and put back what a file needs; `SimpleOpt` reads the text they make and leaves
  the words alone.  The second copy in `ShuffleArg` (`memcpy` between places that
  overlap, `SimpleOpt.h:869`) is what the compiler's library makes of it, a move.
- The accessors of `syms.cpp` read as many bytes as their caller names; `Structs`
  takes this to be the size the symbols give the field.
- `ListingIsExact` and the report of the search identify a descriptor by its
  place, not by its address or name.

## Runs

| run | instance | shows |
|---|---|---|
| `page_walk` | 4 blocks, block sizes 0 to 3, all 256 pages, every pointer, both callbacks | `HeaderInPage`, `Progress`, `CleanWalkTilesPage`, `Termination`; `PoolPage` implements `ChunkLookup` |
| `list_walks` | two buckets, two chunks, every value of their links, at most one failing read, any set of holders; both kinds of list | both walks implement `Enumeration`; `FoundIsThere` (for ListHeads the first holder, `FoundIsFirst`), `NoneIsPassed` (`MissIsComplete` of ListHeads, `HoldersAreNoted` of a lookaside), `ShowsEveryEntry`; `WalkEnds` for lists that come to an end |
| `pool_chunk` | two descriptors and two lookasides of two buckets, or none; two chunks anywhere in either order; at most one failing read and one holder; headers of every kind with an index that is the first, the last, or too large | `IndexIsInArray`, `AnswerFollowsHeader`, `LinesAgree`, and of the search in it `ListHeadsAnswerIsExact`, `LookasideReportIsTrue`; `CommandEnds` |
| `cmd_context` | four interfaces, five structures, up to three processors, two commands | `NothingLeftBehind`, `NoDanglingPointer`, `KernelCommandIsEquipped` |
| `structs` | three fields, two optional, offsets to 3, sizes to 2, any fields absent | `ReadLengthIsExact`, `AccessIsInBuffer`, `OptionalIsOptional` |
| `pool_list` | up to two processors, a DWORD of three values, all options and failures | `ListingIsExact`, `NothingDangles`, `ListsAreFreed` |
| `commands` | `!poolinfo` with every text of up to five blanks, quotes and letters, with sentences of up to three of thirteen words that are options of every kind, and with two or three of nine options a walk depends on before an address; the other commands with up to two words; two contexts | `BlockSuffices`, `WordsAreTheLine`; `FilesKeepOrder`, `ParseIsLeftToRight`, `ShuffleFits`; `WalkStaysInside`, `DoesWhatWasTyped` (with `BucketFitsSize`), `CommandReturns` |

Five runs show a disagreement of the code with its own text; TLC's
counterexample is the result.

| run | the text | what happens |
|---|---|---|
| `search_false_means_found` | "enum returned false, we found the pointer" (`pool.cpp:1032`), "chunk found" (`pool.cpp:899`) | the enumerations return FALSE for a read that fails too, and the search reports entry #1 of bucket 0 though `find` is empty |
| `search_gives_up` | "if not there, ... ragequit" (`pool.cpp:975`) | `EnumLookasideBucket` overwrites a match with the answer for the next entry; the search gives up on a chunk that is on a lookaside |
| `cmd_context_kernel_only` | "This extension is for kernel-mode only" (`context.cpp:99`) | `InitCmdCtx` returns `S_OK` with a released context, and the command goes on |
| `cmd_context_kprcbs` | "now put them all in a list" (`context.cpp:23`) | the second loop asks for processor `numProc` and fills the list with the last KPRCB |
| `commands_override` | "override the number of lookaside buckets" (usage of `-lb`, `poolinfo.cpp:506`) | the number is tested and not used: the lookaside is walked with the buckets of its kind |

Why the bounds are enough:

- *Page*: a page of four blocks with one size less than the page long has chunks
  that end before, at and beyond its end, chunks of size zero at every place, and
  every order of two and three chunks.  The relation between block count and
  largest size is that of both targets (256 and 255, 512 and 511).  The safety
  properties are proved for every geometry.
- *Lists*: two buckets and two chunks give empty, single and double lists, lists
  that share an entry, cycle, dangle, or run into another head.  `MaxCount` bounds
  how far a list that never ends is followed (`EndlessWalk`): it is more than the
  number of cells, so that a walk that reaches it has been somewhere twice.
- *Search*: two descriptors and two lookasides are enough for one that comes
  after another and must not inherit anything.
- *`!poolchunk`*: `MaxDescs`, two, descriptors of a pool type: an index can be the
  first, the last and one too large, and the array empty.
- *Command line*: five characters have a quoted blank between two words, empty
  and unclosed quotes; `BlockSuffices` is proved for any length.
- *Options*: three words are a file before, between and after options and their
  arguments; the words are an argument apart and one combined, an abbreviation, an
  ambiguous one, an unknown option, a slash, a lone hyphen and data that would be
  an argument.  `StaticBuf`, two instead of fifty, makes lines longer and shorter
  than it occur.  `DwordLimit`, 64 instead of 2^32, has sizes below one chunk,
  beyond every bucket, and so large that rounding wraps.
- *Context*: with three processors the first, the last and one between differ;
  a second command sees what the first left.
- *Structs*: one mandatory field and two optional ones before it, in any order in
  memory, with gaps and unions.
- *Discovery*: `DwordLimit` is the number of values of a DWORD; three is the
  smallest for which arrays of no entry (by wrapping), one and two all occur.

`TypeOK` of each module is checked in its run.  Deadlock is checked everywhere; a
command that is over stutters (`Finished`).

*Fairness.*  The liveness properties assume weak fairness of the whole next-state
relation: a command runs alone on the debugger's thread, and each read of the
target returns, with data or an error.  Nothing is assumed about what it returns,
and of `PoolChunk`'s actions the command's own are fair, the target's (`TargetRuns`)
are not.

## Theorems

All are checked by TLAPS for every value of the constants that satisfies the
assumptions named; TLC evaluates these assumptions in the runs.

*`PoolPageProofs`* (`GeometryAssumption`: a page has at least one block, a header
fits in a block, `NULL` is not an address; `EnumProcsAssumption`).  The inductive
invariant is `TypeOK /\ OnTheWay /\ Answered`: the walk is at a chunk start,
everything before it has been passed and lies behind it (`Tiling`: the lines
printed are a partition of what was passed), and what has been named so far is
exactly what of the passed part contains the pointer.  What makes it work without
induction over the page is that `Starts` is a least closed set: to show that no
chunk starts inside another, the walk's own set of chunks is shown closed
(`NoneInside`, `BehindAdvances`).  From it follow `TypeCorrect`,
`ReadsInsidePage`, `WalkMovesForward`, `CleanWalkIsComplete` and
`WalkImplementsLookup`, the refinement of `ChunkLookup` step by step.

*`CmdContextProofs`* (`CmdContextAssumption`: non-empty lists of interfaces and
structures).  What is allocated is at every moment what the context points to
(`Accounts`), and `Stages` says how much that is at each point of `InitCmdCtx`:
without it "the command is equipped" is not inductive.  Theorems: `TypeCorrect`,
`ReleasesEverything`, `NeverDangles`, `EquippedOnKernel`.

*`StructsProofs`* (`StructsAssumption`: the table ends with a mandatory field, a
later field ends later, fields that start together have one size, some mandatory
field starts beyond the first byte; true of the five tables of `syms.cpp`).  The
invariant says how far each loop has come (`Loops`), that a pending failure means
an optional field was the last one seen (`Failures`), and where the data pointers
are (`Pointed`).  Theorems: `TypeCorrect`, `ReadsTheStructure`,
`AccessorsStayInside`, `OptionalFieldsAreOptional`.  The assumption is not
idle: were an absent optional field the last of its table, or every field at
offset 0, `ResolveStruct` would fail or the read have length zero.

*`OrderProofs`* (no assumptions).  The library's induction theorems cannot be used, as
they take an operator as a parameter.  The induction is done with sets instead:
`SetInduction` says that a set which holds 0 and the successor of each number it holds
contains every number; it follows from the well-foundedness of < on `Nat`, and is used
for the set of the numbers a fact holds for.  `InOrderIs` says that an increasing sequence
of members of a set, with none left out up to some number, is how `InOrder` of that set
begins; `InOrderGrows`, how such a sequence goes on when the number grows by one.  With
them a loop that goes through a line or an array one by one is compared with a definition
that speaks of all its places at once.

*`ListWalkProofs`* (`TargetAssumption`: a memory has finitely many cells, every
descriptor at least one bucket; a head, an entry, `NULL` and `Junk` differ).  `At`, the
cell a number of links from the head of a list, is a recursive function: `AtIs` gives it
its recursion by `SetInduction`, `EntriesDiffer` says that an entry met twice would make
the list endless, and `ListIsShort` that a list which ends has no more entries than there
are cells.  The target's memory is any memory, not one
of the instance's.  Every step of either walk is one of six `Moves` - it breaks off,
shows an empty bucket, enters a list, shows an entry, advances to the next or leaves
the list - and each part of the invariant is proved for the moves, once for both
kinds of list.  `Place` says where
the cursor is: at entry number `count` of the bucket's list; `Fresh` that on a
readable target FALSE means a chunk of this very descriptor is noted, whatever `find`
held before; `Listed` that the calls made are those of the
buckets passed and of the entries up to the cursor, in that order; `Unseen`,
`NotedIsHere` and `NotedIsFirst` what a search knows of the entries it has passed;
`Cursor` ties the last call to the cursor for the refinement.  Theorems:
`WalkTypeCorrect`, `SearchFindsWhatIsThere`, `SearchPassesNone`, `ListingIsWhole`,
and `WalkImplementsEnumeration`, that each read is a step or a stutter of
`Enumeration`.

*`PoolChunkProofs`* (`FreeChunkSearchAssumption`, `PoolChunkAssumption`: the two
lists are of descriptors, possibly empty; a header's fields have their types, and
`NULL` is neither a header nor an array).  The search reuses the parts of the walk's
invariant while a walk is under way (`UnderWay`) and adds what is known of the
descriptors before the one searched (`Searched`): on a healthy target none of them
has the chunk.  That `find` is shared by the lookasides is where the invariant is
needed: what is noted is at its place in the lookaside walked *now*, or nothing is.
The command's own invariant says which variables each step has set, from which
reading.  Theorems: `ChunkTypeCorrect`, `IndexStaysInArray`, `AnswerIsOfOneHeader`,
`ListHeadsSearchIsExact`, `LookasideSearchIsTrue`, `OutputAgrees`.

*`PoolListProofs`* (`PoolListAssumption`: there is a processor, a DWORD has a value,
`NULL` is not an array).  Two invariants.  `Inv`, for `NoPointerDangles`, extends
`NothingDangles` to the places between those where a pointer is used, and adds that
an array is live while it is filled.  `ListInv`, for `ListTypeCorrect`, `ListsFreed`
and `ListingExact`, says of each part whether its turn is still to come (`Pending`:
there is no array), has come (`Filling`: the entries read so far are the first of
`Whole`) or is over (the array is `Whole`, or the part is in `failed` and counts as
nothing), that the lists are what the parts that were read give joined in their
order, what of them has been printed (`OutIs`), and what is allocated (`HeapIs`).  `Shown`, the loop that prints the descriptors whose type is asked for, and
`FlattenSeq` of seven parts are folds, treated like `At`; `ListingExact` joins them: to select from
the list is to join what is selected from the parts.  TLC checked `ListInv` on the
instance of `pool_list` before it was proved.

*`CommandsProofs`* (`CommandsAssumption`: a line is a sequence of strings, none of them
the Nul, a number on it is below 2^32 and the sizes and counts of a context are ULONGs other than 0).
The theorems are about `Commands`, with the cutting of the line and the option
parser as its parts.  The invariant `CommandInv` has six:
`CutInv` bounds pointers and bytes by what has been read - twice the words begun are
at most the characters read, plus one while a word is open, as each costs the
character it begins with and the blank before it - and says that every word begins
in the text; `ParseInv` that the words not returned yet lie in the order of the line,
before the files, and that the files come before all of them on the line, as a
shuffle takes from the front of the first and appends to the second; `BufferInv`
that no shuffle moves more words than the line has; `OptsInv` that option values are
ULONGs; `PhaseInv` what is done when; `WalkInv` that a walk is in the bucket computed
and within its array.  From it follow `CommandTypeCorrect`, `BlockIsLargeEnough`,
`FilesStayInOrder`, `ShufflesFit`, `WalksStayInside` and `WalkedBucketFits`, the part of
`DoesWhatWasTyped` about sizes and buckets: exact for every block size, and for every
size that does not wrap when it is rounded up.

On `CommandInv` rest three more invariants, each comparing what a loop has done so far
with the definition that says it of the whole line; TLC checked all three on the
instance of `commands` before they were proved.

- `CopyInv`, of the scan.  The flags are what the references say of the next character
  (`in_QM` is the parity of the quotes so far, `in_SPACE` that no word is open); there is
  a place of the line for every byte copied, in increasing order, with no place left out
  that is to be copied - a character that is neither a quote nor a blank between words,
  or the blank behind a word, for its Nul; and each word begins in the text where the
  bytes from its first place on are.  `WordIsCopied` takes a word from there: the next
  Nul is from the break behind it.  Theorem `WordsAreCutRight`, of `WordsAreTheLine`.
- `ReadInv`, of the parser.  Though the array is shuffled, its unread part is the end of
  the command line, unchanged (`UnreadAsTyped`); it never begins with an argument
  (`AtAWord`); what is before is in one of two places, as an option returned, exactly as
  `OptionAt` reads it (`OptionsRead`), or among the files (`FilesRead`).  `ArgumentsAre`
  makes the reference's recursion plain first: an argument's neighbour is an option, so
  that it cannot be an argument itself.  Theorem `OptionsLeftToRight`, of
  `ParseIsLeftToRight`.
- `SaidInv`, of the command.  Its options say what the accepted options returned so far
  say, less the one being handled (`Heard`): the last size, a lookaside or a free list if
  some option said so, and no help.  An accepted option is one of the command's own table
  (`HandledIsOfTable`), so that `!poollist`'s `-l` cannot set what `!poolinfo`'s does.
  With the other two, theorem `WhatWasTypedIsDone`, of `DoesWhatWasTyped`.

Only model-checked: liveness (`Termination`, `WalkEnds`, `CommandEnds`,
`CommandReturns`), which is out of TLAPS's reach here.  Every invariant and every other
action or refinement property of the runs that pass is a theorem.

## Not modelled

- `PrintPoolDescriptor`, `PrintLookaside`, usage and banner, tag and type names:
  formatting.  They read a structure as `Structs` models it and keep nothing.
- Entry points and build files: glue.  `DebugExtensionInitialize` makes one context
  and releases it, as a command does.
- Of `SimpleOpt.h` what the extension does not use: clumped and short arguments,
  flags, the other argument types, `Stop`, `Options`.
- Sizes the context derives from pointer width and symbols are constants
  (`ListHeadsBuckets`, `LookasideBuckets`, the geometry) or fields of `ctx`
  (`Commands`).
- Allocations the code does not test are taken to succeed: the KPRCB list of
  `GetAllKprcb` and the block of `CommandLineToArgvA`.  The shuffle buffer's, whose
  failure the parser reports and the commands ignore, may fail.
- Sizes in bytes of what is allocated: the session's `POOL_DESC`, allocated at
  `pool.cpp:1091` with the size of a pointer, counts as an array of one entry.
- Memory that commands leave allocated is modelled in `PoolList` only: the four
  lists of `GetAllLookasides`, and the buffer of a structure that cannot be read
  (`syms.cpp:231-248`).  `PrintExtendedChunkInfo` leaves its array, too.
- A target that changes while a list is being walked.

## Plan

The components were modelled in this order, the most important behaviour first:
the page walk and its proofs; the two list walks and the search composed of them;
the context and its proofs; the struct layer and its proofs; the discovery of
descriptors; `!poolchunk`; the command line, the option parser and the commands
composed of them; the proofs of the list walks and of the search composed
of them, of `!poolchunk`, of the discovery and `!poollist`, and of the commands; and those that
compare the words, the options and the walk with the text typed.

What could be added:

- A target that runs during an enumeration: which of the list properties remain.
- An abstract specification of a command line - the text, the sequence of options, the
  walk - that `Commands` implements step by step.
