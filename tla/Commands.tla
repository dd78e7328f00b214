------------------------------ MODULE Commands -------------------------------
(***************************************************************************)
(* The command line of the four commands, from the text the debugger       *)
(* passes on to the call that does the work: CmdLine cuts the text into    *)
(* words, SimpleOpt takes the options out of them, the command collects    *)
(* what they say, and the files that are left make the address expression. *)
(*                                                                         *)
(* What the work is, is modelled elsewhere: the page walk in PoolPage, the *)
(* walks of lists in ListHeads and Lookasides, !poolchunk in PoolChunk,    *)
(* the lists of !poollist in PoolList.                                     *)
(***************************************************************************)
EXTENDS CmdLine, SimpleOpt, SequencesExt

CONSTANTS
  Lines,       \* the texts that may follow a command's name, by command
  Numbers,     \* strtoul with base 16, on the words it does not make 0 of
  Contexts,    \* what InitCmdCtx may set
  DwordLimit   \* 2^32, the number of values of a ULONG

CommandNames == {"poolinfo", "poolpage", "poolchunk", "poollist"}

ASSUME CommandsAssumption ==
  /\ DOMAIN Lines = CommandNames /\ \A c \in CommandNames : Lines[c] \subseteq Seq(STRING \ {Nul})
  /\ DwordLimit \in Nat \ {0} /\ StaticBuf \in Nat
  /\ \A w \in DOMAIN Numbers : Numbers[w] \in 1 .. DwordLimit - 1
  /\ \A c \in Contexts :
       c \in LET Ulong == 1 .. DwordLimit - 1
             IN  [poolBlockSize : Ulong, listHeadsBuckets : Ulong,
                  lookasideBuckets : Ulong, sessionLookasideBuckets : Ulong,
                  lookasideStructSize : Ulong, sessionLookasideStructSize : Ulong]

VARIABLES
  command,   \* the command that runs
  ctx,       \* its context
  pc,        \* "start", "scan", "init", "parse", "handle", "check", "run", "cleanup", "done"
  opts,      \* what the options have said so far
  held,      \* what the command has to release
  outcome    \* what it does in the end

called == <<command, ctx>>
vars   == <<tokens, parser, called, pc, opts, held, outcome>>

-----------------------------------------------------------------------------
\* The tables of options.  A long name is written with as many characters as
\* matter for its abbreviations.
Option(id, type, name) == <<[nId |-> id, pszArg |-> name, nArgType |-> type]>>
Short(c)    == <<"-", c>>
Long(name)  == <<"-", "-">> \o name

HELP_OPTS ==
  Option("OPT_HELP", "SO_NONE", Short("h")) \o Option("OPT_HELP", "SO_NONE", Long(<<"help">>))
  \o Option("OPT_HELP", "SO_NONE", Short("?"))

g_pp_opts ==
  HELP_OPTS
  \o Option("OPT_PP_RAWHDR", "SO_NONE", Short("r")) \o Option("OPT_PP_RAWHDR", "SO_NONE", Long(<<"raw">>))

g_pl_opts ==
  HELP_OPTS
  \o Option("OPT_PL_ALL", "SO_NONE", Short("a")) \o Option("OPT_PL_ALL", "SO_NONE", Long(<<"all">>))
  \o Option("OPT_PL_NONPAGED", "SO_NONE", Short("n")) \o Option("OPT_PL_NONPAGED", "SO_NONE", Long(<<"nonpaged">>))
  \o Option("OPT_PL_PAGED", "SO_NONE", Short("p")) \o Option("OPT_PL_PAGED", "SO_NONE", Long(<<"paged">>))
  \o Option("OPT_PL_SESSION", "SO_NONE", Short("s")) \o Option("OPT_PL_SESSION", "SO_NONE", Long(<<"session">>))
  \o Option("OPT_PL_LOOKASIDE", "SO_NONE", Short("l")) \o Option("OPT_PL_LOOKASIDE", "SO_NONE", Long(<<"look", "aside">>))

g_pi_opts ==
  HELP_OPTS
  \o Option("OPT_PI_SUMMARY", "SO_NONE", Short("s")) \o Option("OPT_PI_SUMMARY", "SO_NONE", Long(<<"summary">>))
  \o Option("OPT_PI_VERBOSE", "SO_NONE", Short("v")) \o Option("OPT_PI_VERBOSE", "SO_NONE", Long(<<"verbose">>))
  \o Option("OPT_PI_FREELIST", "SO_NONE", Short("f")) \o Option("OPT_PI_FREELIST", "SO_NONE", Long(<<"fr", "ee">>))
  \o Option("OPT_PI_BUCKET", "SO_REQ_SEP", Short("b")) \o Option("OPT_PI_BUCKET", "SO_REQ_SEP", Long(<<"bucket">>))
  \o Option("OPT_PI_LOOKASIDE", "SO_NONE", Short("l")) \o Option("OPT_PI_LOOKASIDE", "SO_NONE", Long(<<"look", "aside">>))
  \o Option("OPT_PI_LOOKTYPE", "SO_REQ_SEP", Short("t")) \o Option("OPT_PI_LOOKTYPE", "SO_REQ_SEP", Long(<<"look", "type">>))
  \o Option("OPT_PI_NUMBUCKETS", "SO_REQ_SEP", <<"-", "l", "b">>)
  \o Option("OPT_PI_NUMBUCKETS", "SO_REQ_SEP", Long(<<"numbuckets">>))
  \o Option("OPT_PI_LOOKSIZE", "SO_REQ_SEP", <<"-", "l", "s">>)
  \o Option("OPT_PI_LOOKSIZE", "SO_REQ_SEP", Long(<<"look", "size">>))

\* !poolchunk has a table of its own, g_pc_opts, and uses that of !poolinfo.
OptionsOf == [poolinfo |-> g_pi_opts, poolpage |-> g_pp_opts,
              poolchunk |-> g_pi_opts, poollist |-> g_pl_opts]

Name == [poolinfo |-> "!poolinfo", poolpage |-> "!poolpage",
         poolchunk |-> "!poolchunk", poollist |-> "!poollist"]

-----------------------------------------------------------------------------
strtoul(w) == IF w \in DOMAIN Numbers THEN Numbers[w] ELSE 0

BUCKET_ALL == DwordLimit - 1

BUCKET_TO_SIZE(bucket, bs) == ((bucket + 1) * bs) % DwordLimit

\* In ULONGs; bs is a power of two.
ROUND_POOL_SIZE(size, bs) ==
  LET sum == (size + bs - 1) % DwordLimit IN sum - (sum % bs)

SIZE_TO_BUCKET(size, bs) ==
  IF ROUND_POOL_SIZE(size, bs) < bs THEN 0 ELSE (ROUND_POOL_SIZE(size, bs) \div bs) - 1

NoOpts == [bSummary |-> TRUE, bFreeList |-> FALSE, bLookaside |-> FALSE,
           sizeBucket |-> BUCKET_ALL, structSize |-> 0, numBuckets |-> 0,
           bRaw |-> FALSE, poolTypes |-> {}]

Nothing == [does |-> "nothing", of |-> NULL, bucket |-> 0, walked |-> {}, desc |-> NULL, expr |-> <<>>]

Init ==
  /\ NoLine /\ NoArguments
  /\ command \in CommandNames
  /\ ctx \in Contexts
  /\ pc = "start"
  /\ opts = NoOpts
  /\ held = {"ctx"}
  /\ outcome = Nothing

-----------------------------------------------------------------------------
\* MakeCmdline has no memory for the line.
NoMemory ==
  /\ pc = "start"
  /\ pc' = "cleanup"
  /\ UNCHANGED <<tokens, parser, called, opts, held, outcome>>

\* It puts the command's name before the text.
MakeCmdline ==
  /\ pc = "start"
  /\ \E l \in Lines[command] : StartLine(<<Name[command], " ">> \o l)
  /\ held' = held \cup {"argv"}
  /\ pc' = "scan"
  /\ UNCHANGED <<parser, called, opts, outcome>>

Scan ==
  /\ pc = "scan"
  /\ ScanStep
  /\ pc' = IF scan' = "done" THEN "init" ELSE "scan"
  /\ UNCHANGED <<parser, called, opts, held, outcome>>

InitOptions ==
  /\ pc = "init"
  /\ InitParser(Words, OptionsOf[command])
  /\ pc' = "parse"
  /\ UNCHANGED <<tokens, called, opts, held, outcome>>

\* Options with an error are passed over.
TakeOption ==
  /\ pc = "parse"
  /\ \E k \in Unread : NextOption(k)
  /\ pc' = IF option'.error = "SO_SUCCESS" THEN "handle" ELSE "parse"
  /\ UNCHANGED <<tokens, called, opts, held, outcome>>

EndOfOptions ==
  /\ pc = "parse"
  /\ NoMoreOptions
  /\ pc' = "check"
  /\ UNCHANGED <<tokens, called, opts, held, outcome>>

End(result) ==
  /\ outcome' = result
  /\ pc' = "cleanup"
  /\ UNCHANGED <<tokens, parser, called, opts, held>>

\* The usage of a command is shown, and that is all.
Usage(name) == End([Nothing EXCEPT !.does = "usage", !.of = name])

Says(new) ==
  /\ opts' = new
  /\ pc' = "parse"
  /\ UNCHANGED <<tokens, parser, called, held, outcome>>

Is(id) == pc = "handle" /\ option.id = id

Number == strtoul(option.arg)

\* -h; of !poolchunk, any option of the table it has by mistake.
HandleHelp ==
  /\ pc = "handle" /\ (option.id = "OPT_HELP" \/ command = "poolchunk")
  /\ Usage(command)

HandleFlag ==
  \/ Is("OPT_PI_SUMMARY")   /\ Says([opts EXCEPT !.bSummary = TRUE])
  \/ Is("OPT_PI_VERBOSE")   /\ Says([opts EXCEPT !.bSummary = FALSE])
  \/ Is("OPT_PI_FREELIST")  /\ Says([opts EXCEPT !.bFreeList = TRUE])
  \/ Is("OPT_PI_LOOKASIDE") /\ Says([opts EXCEPT !.bLookaside = TRUE])
  \/ Is("OPT_PP_RAWHDR")    /\ Says([opts EXCEPT !.bRaw = TRUE])
  \/ Is("OPT_PL_NONPAGED")  /\ Says([opts EXCEPT !.poolTypes = @ \cup {"nonpaged"}])
  \/ Is("OPT_PL_PAGED")     /\ Says([opts EXCEPT !.poolTypes = @ \cup {"paged"}])
  \/ Is("OPT_PL_SESSION")   /\ Says([opts EXCEPT !.poolTypes = @ \cup {"session"}])
  \/ Is("OPT_PL_ALL")       /\ Says([opts EXCEPT !.poolTypes = {"nonpaged", "paged", "session"}])
  \/ Is("OPT_PL_LOOKASIDE") /\ Says([opts EXCEPT !.bLookaside = TRUE])

HandleBucketOnce ==
  Is("OPT_PI_BUCKET") /\ Says(IF opts.sizeBucket = BUCKET_ALL THEN [opts EXCEPT !.sizeBucket = Number] ELSE opts)

HandleBucket == Is("OPT_PI_BUCKET") /\ Says([opts EXCEPT !.sizeBucket = Number])

HandleLookType ==
  /\ Is("OPT_PI_LOOKTYPE")
  /\ \/ /\ option.arg \in {<<"nonpaged">>, <<"paged">>}
        /\ Says([opts EXCEPT !.structSize = ctx.lookasideStructSize, !.numBuckets = ctx.lookasideBuckets])
     \/ /\ option.arg = <<"session">>
        /\ Says([opts EXCEPT !.structSize = ctx.sessionLookasideStructSize,
                             !.numBuckets = ctx.sessionLookasideBuckets])
     \/ /\ option.arg \notin {<<"nonpaged">>, <<"paged">>, <<"session">>}
        /\ Usage(command)

\* -lb falls through to -ls.
HandleNumBuckets == Is("OPT_PI_NUMBUCKETS") /\ Says([opts EXCEPT !.numBuckets = Number, !.structSize = Number])
HandleLookSize   == Is("OPT_PI_LOOKSIZE") /\ Says([opts EXCEPT !.structSize = Number])

Handle ==
  \/ HandleHelp
  \/ command # "poolchunk" /\
       (HandleFlag \/ HandleBucket \/ HandleLookType \/ HandleNumBuckets \/ HandleLookSize)

-----------------------------------------------------------------------------
\* "do the arguments make sense?", for a lookaside.
TypeMissing == opts.bLookaside /\ (opts.numBuckets = 0 \/ opts.structSize = 0)

BucketTooLarge ==
  /\ opts.bLookaside /\ opts.sizeBucket # BUCKET_ALL
  /\ SIZE_TO_BUCKET(opts.sizeBucket, ctx.poolBlockSize) >= opts.numBuckets

NoAddress == m_nLastArg = m_argc

CheckLookaside ==
  /\ pc = "check" /\ command = "poolinfo"
  /\ \/ TypeMissing /\ Usage("poolinfo")
     \/ ~TypeMissing /\ BucketTooLarge /\ End([Nothing EXCEPT !.does = "badBucket"])

\* Without an address !poolchunk shows the usage of !poolinfo.
CheckAddress ==
  /\ pc = "check" /\ command # "poollist"
  /\ command = "poolinfo" => ~TypeMissing /\ ~BucketTooLarge
  /\ NoAddress
  /\ Usage(IF command = "poolchunk" THEN "poolinfo" ELSE command)

ArgumentsMakeSense ==
  /\ pc = "check"
  /\ command = "poolinfo" => ~TypeMissing /\ ~BucketTooLarge
  /\ command # "poollist" => ~NoAddress
  /\ pc' = "run"
  /\ UNCHANGED <<tokens, parser, called, opts, held, outcome>>

\* FlattenArgv: the files, each with a space behind it.
FlattenArgv(files) == FlattenSeq([n \in DOMAIN files |-> Append(files[n], " ")])

Expression == FlattenArgv(Files)

\* The lookasides GetAllLookasides may have at the address, with the buckets
\* of their kind, and NULL: FindLookasideFromPointer finds none.
Lookasides == {[numBuckets |-> ctx.lookasideBuckets], [numBuckets |-> ctx.sessionLookasideBuckets]}

bucket == IF opts.sizeBucket = BUCKET_ALL THEN BUCKET_ALL
          ELSE SIZE_TO_BUCKET(opts.sizeBucket, ctx.poolBlockSize)

WalkedUnchecked(n) == IF bucket = BUCKET_ALL THEN 0 .. n - 1 ELSE {bucket}

\* The buckets EnumLookasides walks, of a lookaside with n.
Walked(n) == IF bucket = BUCKET_ALL THEN 0 .. n - 1 ELSE {bucket} \cap (0 .. n - 1)

ShowLookaside ==
  /\ pc = "run" /\ command = "poolinfo" /\ opts.bLookaside
  /\ \E d \in Lookasides :
       End([does |-> "lookaside", of |-> NULL, bucket |-> bucket, walked |-> Walked(d.numBuckets),
            desc |-> d, expr |-> Expression])

NotALookaside ==
  /\ pc = "run" /\ command = "poolinfo" /\ opts.bLookaside
  /\ End([Nothing EXCEPT !.does = "noLookaside", !.expr = Expression])

\* PrintPoolDescriptor, whose failure is passed over, and with -f
\* EnumListHeads, which takes any bucket.
ShowPool ==
  /\ pc = "run" /\ command = "poolinfo" /\ ~opts.bLookaside
  /\ End([does |-> IF opts.bFreeList THEN "listHeads" ELSE "descriptor", of |-> NULL, bucket |-> bucket,
          walked |-> IF ~opts.bFreeList THEN {}
                     ELSE IF bucket = BUCKET_ALL THEN 0 .. ctx.listHeadsBuckets - 1 ELSE {bucket},
          desc |-> NULL, expr |-> Expression])

\* The other commands go on with their own work.
ShowOther ==
  /\ pc = "run" /\ command # "poolinfo"
  /\ End([Nothing EXCEPT !.does = "work", !.of = command,
                         !.expr = IF command = "poollist" THEN <<>> ELSE Expression])

CleanupKeepingArgv ==
  /\ pc = "cleanup"
  /\ held' = held \ {"ctx"}
  /\ pc' = "done"
  /\ UNCHANGED <<tokens, parser, called, opts, outcome>>

Cleanup ==
  /\ pc = "cleanup"
  /\ held' = held \ {"argv", "ctx"}
  /\ pc' = "done"
  /\ UNCHANGED <<tokens, parser, called, opts, outcome>>

Finished == pc = "done" /\ UNCHANGED vars

Step ==
  \/ NoMemory \/ MakeCmdline \/ Scan
  \/ InitOptions \/ TakeOption \/ EndOfOptions \/ Handle
  \/ CheckLookaside \/ CheckAddress \/ ArgumentsMakeSense
  \/ ShowLookaside \/ NotALookaside \/ ShowPool \/ ShowOther
  \/ Cleanup

Next == Step \/ Finished

Spec == Init /\ [][Next]_vars

\* A command runs on the debugger's thread; the calls it makes return.
FairSpec == Spec /\ WF_vars(Next)

-----------------------------------------------------------------------------
TypeOK ==
  /\ scan \in {"idle", "scan", "done"} /\ parse \in {"idle", "next", "end"}
  /\ i \in 0 .. Len(line)
  /\ \A b \in {in_QM, in_TEXT, in_SPACE} : b \in BOOLEAN
  /\ \A n \in DOMAIN argv : argv[n] \in 0 .. Len(text) /\ (scan = "done" => argv[n] < Len(text))
  /\ m_nNextOption \in 1 .. Len(words) + 1 /\ m_nLastArg \in 0 .. Len(words)
  /\ parse # "idle" => m_nNextOption <= m_nLastArg
  /\ \A n \in DOMAIN m_argv : m_argv[n] \in 0 .. Len(words) - 1
  /\ command \in CommandNames /\ ctx \in Contexts
  /\ pc \in {"start", "scan", "init", "parse", "handle", "check", "run", "cleanup", "done"}
  /\ opts.sizeBucket \in 0 .. DwordLimit - 1
  /\ opts.numBuckets \in 0 .. DwordLimit - 1 /\ opts.structSize \in 0 .. DwordLimit - 1
  /\ held \subseteq {"argv", "ctx"}

Walks == outcome.does \in {"lookaside", "listHeads"}

\* Whatever -t, -lb and -b say, no walk of a lookaside leaves the buckets that
\* the lookaside at the address has; one of ListHeads does only for a size that
\* is larger than any chunk of a pool page.
WalkStaysInside ==
  /\ outcome.does = "lookaside" => outcome.walked \subseteq 0 .. outcome.desc.numBuckets - 1
  /\ outcome.does = "listHeads" =>
       \/ outcome.walked \subseteq 0 .. ctx.listHeadsBuckets - 1
       \/ opts.sizeBucket > ctx.listHeadsBuckets * ctx.poolBlockSize

\* The bucket walked for a size is the one such a chunk is freed to: its chunks
\* are large enough, and those of the bucket before are not.  (Only a size so
\* close to 2^32 that rounding it up overflows is taken for bucket 0.)
BucketFitsSize ==
  opts.sizeBucket # BUCKET_ALL /\ opts.sizeBucket + ctx.poolBlockSize <= DwordLimit =>
    /\ outcome.bucket \in Nat
    /\ BUCKET_TO_SIZE(outcome.bucket, ctx.poolBlockSize) >= opts.sizeBucket
    /\ outcome.bucket > 0 => BUCKET_TO_SIZE(outcome.bucket - 1, ctx.poolBlockSize) < opts.sizeBucket

\* The options with one of the ids, and the last of them on the line.
Accepted(ids) ==
  {o \in {OptionAt(p) : p \in OptionPlaces} : o.error = "SO_SUCCESS" /\ o.id \in ids}
LastOf(ids) ==
  LET accepted == Accepted(ids) IN CHOOSE o \in accepted : \A other \in accepted : other.at <= o.at

\* From the text typed to the walk made: !poolinfo shows lists only if no help
\* is asked for, of a lookaside exactly if -l stands somewhere, in the bucket of
\* the size the last -b asks for, at the address that the words that are no options and
\* belong to none give, in their order.
DoesWhatWasTyped ==
  Walks =>
    /\ Accepted({"OPT_HELP"}) = {}
    /\ outcome.does = "lookaside" <=> Accepted({"OPT_PI_LOOKASIDE"}) # {}
    /\ outcome.does = "listHeads" => Accepted({"OPT_PI_FREELIST"}) # {}
    /\ opts.sizeBucket = IF Accepted({"OPT_PI_BUCKET"}) = {} THEN BUCKET_ALL
                         ELSE strtoul(LastOf({"OPT_PI_BUCKET"}).arg)
    /\ BucketFitsSize
    /\ LET files == InOrder(FilePlaces)
       IN  outcome.expr = FlattenArgv([n \in DOMAIN files |-> WordsOf(line)[files[n] + 1]])

\* Every command line comes to an end, with everything released that the command
\* held.
CommandReturns == <>(pc = "done" /\ held = {})

\* "-lb, --numbuckets <#>  override the number of lookaside buckets"
\* (poolinfo.cpp:506): if -lb is the last to say how many buckets there are,
\* that many are walked.
OverrideIsUsed ==
  /\ outcome.does = "lookaside" /\ opts.sizeBucket = BUCKET_ALL
  /\ Accepted({"OPT_PI_NUMBUCKETS"}) # {}
  /\ LastOf({"OPT_PI_NUMBUCKETS", "OPT_PI_LOOKTYPE"}).id = "OPT_PI_NUMBUCKETS"
  => outcome.walked = 0 .. strtoul(LastOf({"OPT_PI_NUMBUCKETS"}).arg) - 1
=============================================================================
