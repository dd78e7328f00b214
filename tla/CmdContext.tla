----------------------------- MODULE CmdContext -----------------------------
(***************************************************************************)
(* The context every command works with: InitCmdCtx creates the debugger   *)
(* interfaces, looks at the debuggee, resolves the structures and lists    *)
(* the processors, releasing what it has on each of its error paths;       *)
(* ReleaseCmdCtx ends the command.  The loading of the extension           *)
(* (DebugExtensionInitialize, for its banner) is one such command.         *)
(***************************************************************************)
EXTENDS Integers, Sequences, FiniteSets

CONSTANTS
  Ifaces,       \* the interfaces, in the order of their creation
  Structs,      \* the structures, in the order of their resolution
  MaxCpus,      \* bound: processors of the target
  MaxCommands,  \* bound: commands run one after the other
  NULL

ASSUME CmdContextAssumption ==
  /\ MaxCpus \in Nat /\ MaxCommands \in Nat
  /\ Ifaces \in Seq(STRING) /\ Ifaces # <<>>
  /\ Structs \in Seq(STRING) /\ Structs # <<>>
  /\ NULL \notin Nat /\ NULL \notin Seq(Nat \cup {NULL})

VARIABLES
  dbgClass,  \* the class of the debuggee: "kernel" or "user"
  cpus,      \* its number of processors
  pc,        \* where InitCmdCtx or the command is; "idle" between commands
  i,         \* the next interface, structure or list entry
  ret,       \* the HRESULT InitCmdCtx will return
  ctx,       \* the CMD_CTX
  numProc,   \* GetAllKprcb: processors counted
  kKprcb,    \* GetAllKprcb: the last KPRCB read, named by its processor
  live,      \* what is allocated: interfaces, structures, the KPRCB list
  commands   \* commands started

vars == <<dbgClass, cpus, pc, i, ret, ctx, numProc, kKprcb, live, commands>>

EmptyCtx == [ifaces |-> {}, structs |-> {}, pKprcbs |-> NULL, numKprcb |-> 0]

Elements(s) == {s[k] : k \in DOMAIN s}

\* What the pointers of a context point to.
Held(c) == c.ifaces \cup c.structs \cup (IF c.pKprcbs = NULL THEN {} ELSE {"pKprcbs"})

Init ==
  /\ dbgClass \in {"kernel", "user"}
  /\ cpus \in 0 .. MaxCpus
  /\ pc = "idle"
  /\ i = 1
  /\ ret = "S_OK"
  /\ ctx = EmptyCtx
  /\ numProc = 0
  /\ kKprcb = NULL
  /\ live = {}
  /\ commands = 0

-----------------------------------------------------------------------------
\* ReleaseCmdCtx: release or free what the context points to, and forget it.
ReleaseNoReset == live' = live \ Held(ctx) /\ UNCHANGED ctx
ReleaseIfacesOnly ==
  /\ live' = live \ ctx.ifaces
  /\ ctx' = [ctx EXCEPT !.ifaces = {}, !.structs = {}, !.pKprcbs = NULL]
ReleaseCmdCtx ==
  /\ live' = live \ Held(ctx)
  /\ ctx' = [ctx EXCEPT !.ifaces = {}, !.structs = {}, !.pKprcbs = NULL]

\* InitCmdCtx returns r: the caller goes on unless FAILED(r), and then does not
\* release the context itself.
Return(r) ==
  /\ ret' = r
  /\ pc' = IF r = "fail" THEN "idle" ELSE "command"

StartCommand ==
  /\ pc = "idle" /\ commands < MaxCommands
  /\ commands' = commands + 1
  /\ ctx' = EmptyCtx
  /\ i' = 1
  /\ pc' = "create"
  /\ UNCHANGED <<dbgClass, cpus, ret, numProc, kKprcb, live>>

CreateIface ==
  /\ pc = "create"
  /\ ctx' = [ctx EXCEPT !.ifaces = @ \cup {Ifaces[i]}]
  /\ live' = live \cup {Ifaces[i]}
  /\ ret' = "S_OK"
  /\ IF i < Len(Ifaces) THEN i' = i + 1 /\ UNCHANGED pc
                        ELSE i' = 1 /\ pc' = "debuggee"
  /\ UNCHANGED <<dbgClass, cpus, numProc, kKprcb, commands>>

\* DebugCreate fails, or one of the two questions about the debuggee does.
CallFails ==
  /\ pc \in {"create", "debuggee", "version"}
  /\ ReleaseCmdCtx
  /\ Return("fail")
  /\ UNCHANGED <<dbgClass, cpus, i, numProc, kKprcb, commands>>

KernelDebuggee ==
  /\ pc = "debuggee" /\ dbgClass = "kernel"
  /\ pc' = "version"
  /\ UNCHANGED <<dbgClass, cpus, i, ret, ctx, numProc, kKprcb, live, commands>>

\* "This extension is for kernel-mode only": ret is that of GetDebuggeeType.
OtherDebuggee ==
  /\ pc = "debuggee" /\ dbgClass # "kernel"
  /\ ReleaseCmdCtx
  /\ Return(ret)
  /\ UNCHANGED <<dbgClass, cpus, i, numProc, kKprcb, commands>>

\* GetSystemVersionValues, IsPointer64Bit.
VersionKnown ==
  /\ pc = "version"
  /\ pc' = "resolve"
  /\ UNCHANGED <<dbgClass, cpus, i, ret, ctx, numProc, kKprcb, live, commands>>

ResolveStruct ==
  /\ pc = "resolve"
  /\ ctx' = [ctx EXCEPT !.structs = @ \cup {Structs[i]}]
  /\ live' = live \cup {Structs[i]}
  /\ IF i < Len(Structs) THEN i' = i + 1 /\ UNCHANGED <<pc, numProc>>
                         ELSE i' = 1 /\ pc' = "count" /\ numProc' = 0
  /\ UNCHANGED <<dbgClass, cpus, ret, kKprcb, commands>>

\* The clone of a structure cannot be allocated, or a field not be resolved (the
\* clone is then in the context already, and released with it).
ResolveFails ==
  /\ pc = "resolve"
  /\ ReleaseCmdCtx
  /\ Return("fail")
  /\ UNCHANGED <<dbgClass, cpus, i, numProc, kKprcb, commands>>

\* GetAllKprcb, first loop: ask for processor after processor.
CountProcessorOneTooMany ==
  /\ pc = "count" /\ numProc <= cpus
  /\ kKprcb' = numProc
  /\ numProc' = numProc + 1
  /\ UNCHANGED <<dbgClass, cpus, pc, i, ret, ctx, live, commands>>

CountProcessor ==
  /\ pc = "count" /\ numProc < cpus
  /\ kKprcb' = numProc
  /\ numProc' = numProc + 1
  /\ UNCHANGED <<dbgClass, cpus, pc, i, ret, ctx, live, commands>>

NoProcessors ==
  /\ pc = "count" /\ numProc = cpus /\ numProc = 0
  /\ ReleaseCmdCtx
  /\ Return("fail")
  /\ UNCHANGED <<dbgClass, cpus, i, numProc, kKprcb, commands>>

AllocateList ==
  /\ pc = "count" /\ numProc = cpus /\ numProc > 0
  /\ ctx' = [ctx EXCEPT !.pKprcbs = [k \in 1 .. numProc |-> NULL], !.numKprcb = numProc]
  /\ live' = live \cup {"pKprcbs"}
  /\ pc' = "list"
  /\ UNCHANGED <<dbgClass, cpus, i, ret, numProc, kKprcb, commands>>

\* Second loop.  The processor asked for is numProc, which there is none of:
\* the read fails and kKprcb keeps what the first loop left in it.
FillEntryOneLate ==
  /\ pc = "list" /\ i <= numProc
  /\ ctx' = IF i = 1 THEN ctx ELSE [ctx EXCEPT !.pKprcbs[i] = kKprcb]
  /\ i' = i + 1
  /\ UNCHANGED <<dbgClass, cpus, pc, ret, numProc, kKprcb, live, commands>>

FillEntry ==
  /\ pc = "list" /\ i <= numProc
  /\ ctx' = [ctx EXCEPT !.pKprcbs[i] = kKprcb]
  /\ i' = i + 1
  /\ UNCHANGED <<dbgClass, cpus, pc, ret, numProc, kKprcb, live, commands>>

ListFilled ==
  /\ pc = "list" /\ i > numProc
  /\ Return(ret)
  /\ UNCHANGED <<dbgClass, cpus, i, ctx, numProc, kKprcb, live, commands>>

\* The command is done, by whichever way to its cleanup.
EndCommand ==
  /\ pc = "command"
  /\ ReleaseCmdCtx
  /\ pc' = "idle"
  /\ UNCHANGED <<dbgClass, cpus, i, ret, numProc, kKprcb, commands>>

Finished == pc = "idle" /\ commands = MaxCommands /\ UNCHANGED vars

Next ==
  \/ StartCommand
  \/ CreateIface \/ CallFails
  \/ KernelDebuggee \/ OtherDebuggee \/ VersionKnown
  \/ ResolveStruct \/ ResolveFails
  \/ CountProcessor \/ NoProcessors \/ AllocateList \/ FillEntry \/ ListFilled
  \/ EndCommand
  \/ Finished

Spec == Init /\ [][Next]_vars

-----------------------------------------------------------------------------
Objects == Elements(Ifaces) \cup Elements(Structs) \cup {"pKprcbs"}

Contexts == [ifaces   : SUBSET Elements(Ifaces),
             structs  : SUBSET Elements(Structs),
             pKprcbs  : {NULL} \cup Seq((0 .. MaxCpus - 1) \cup {NULL}),
             numKprcb : 0 .. MaxCpus]

TypeOK ==
  /\ dbgClass \in {"kernel", "user"}
  /\ cpus \in 0 .. MaxCpus
  /\ pc \in {"idle", "create", "debuggee", "version", "resolve", "count", "list", "command"}
  /\ i \in Nat \ {0}
  /\ ret \in {"S_OK", "fail"}
  /\ ctx \in Contexts
  /\ numProc \in 0 .. cpus
  /\ kKprcb \in (0 .. MaxCpus - 1) \cup {NULL}
  /\ live \subseteq Objects
  /\ commands \in 0 .. MaxCommands

\* Whatever fails on the way, a command that is over has released every
\* interface and freed every block InitCmdCtx gave it.
NothingLeftBehind == pc = "idle" => live = {}

\* The context never points to something released: a context released by
\* InitCmdCtx and once more by the command that went on with it is not
\* released twice (the reset to NULL in _RELEASE_IFACE and _FREE_PTR).
NoDanglingPointer == pc # "idle" => Held(ctx) \subseteq live

\* A command on a kernel target has everything it dereferences: all
\* interfaces, all structures, and a list of as many KPRCBs as the target has
\* processors, at least one, each entry that of a processor.
KernelCommandIsEquipped ==
  pc = "command" /\ dbgClass = "kernel" =>
    /\ Held(ctx) = Objects
    /\ ctx.numKprcb = cpus /\ cpus > 0
    /\ ctx.pKprcbs \in [1 .. cpus -> 0 .. cpus - 1]

\* "This extension is for kernel-mode only" (context.cpp:99): no command runs
\* on another debuggee.  InitCmdCtx returns S_OK for it.
KernelOnly == pc = "command" => dbgClass = "kernel"

\* "now put them all in a list" (context.cpp:23): the list names every
\* processor's KPRCB.  It is filled with the last one's throughout.
AllKprcbsListed ==
  pc = "command" /\ dbgClass = "kernel" =>
    Elements(ctx.pKprcbs) = 0 .. cpus - 1
=============================================================================
