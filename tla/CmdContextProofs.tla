-------------------------- MODULE CmdContextProofs --------------------------
(***************************************************************************)
(* For every list of interfaces and structures, any number of processors   *)
(* and of commands: what InitCmdCtx acquires is released exactly once, and *)
(* a command on a kernel target has all of it.                             *)
(***************************************************************************)
EXTENDS CmdContext, TLAPS

\* What is allocated is what the context points to, at every moment; between
\* two commands it is nothing.
Accounts ==
  /\ live = Held(ctx)
  /\ pc = "idle" => live = {}

\* What there is of a list whose first elements, before position n, are there.
Before(s, n) == {s[k] : k \in {j \in DOMAIN s : j < n}}

\* How far InitCmdCtx has come.
Stages ==
  /\ pc = "create" =>
       /\ i \in DOMAIN Ifaces
       /\ ctx.ifaces = Before(Ifaces, i) /\ ctx.structs = {}
  /\ pc \in {"debuggee", "version"} =>
       ctx.ifaces = Elements(Ifaces) /\ ctx.structs = {} /\ i = 1
  /\ pc = "resolve" =>
       /\ i \in DOMAIN Structs
       /\ ctx.ifaces = Elements(Ifaces) /\ ctx.structs = Before(Structs, i)
  /\ pc \in {"debuggee", "version", "resolve", "count", "list"} => ret = "S_OK"
  /\ pc \in {"create", "debuggee", "version", "resolve", "count"} => ctx.pKprcbs = NULL
  /\ pc \in {"count", "list"} =>
       ctx.ifaces = Elements(Ifaces) /\ ctx.structs = Elements(Structs)
  /\ pc = "count" => i = 1 /\ (numProc > 0 => kKprcb = numProc - 1)
  /\ pc = "list" =>
       /\ numProc = cpus /\ cpus > 0 /\ kKprcb = cpus - 1
       /\ ctx.numKprcb = cpus
       /\ ctx.pKprcbs \in [1 .. cpus -> (0 .. cpus - 1) \cup {NULL}]
       /\ \A k \in 1 .. cpus : k < i => ctx.pKprcbs[k] = cpus - 1

\* The inductive invariant.
Inv == TypeOK /\ Accounts /\ Stages /\ KernelCommandIsEquipped

-----------------------------------------------------------------------------
LEMMA Lists ==
  /\ Len(Ifaces) \in Nat \ {0} /\ DOMAIN Ifaces = 1 .. Len(Ifaces)
  /\ Len(Structs) \in Nat \ {0} /\ DOMAIN Structs = 1 .. Len(Structs)
  BY CmdContextAssumption

LEMMA ArrayIsSeq ==
  ASSUME NEW S, NEW n \in Nat, NEW f \in [1 .. n -> S]
  PROVE  f \in Seq(S)
  OBVIOUS

LEMMA ArrayIsNotNull ==
  ASSUME NEW n \in Nat, NEW f \in [1 .. n -> Nat \cup {NULL}]
  PROVE  f # NULL
  BY ArrayIsSeq, CmdContextAssumption

\* ReleaseCmdCtx leaves nothing allocated that the context pointed to, and
\* nothing in it to release again.
LEMMA Released ==
  ASSUME ctx \in Contexts, live = Held(ctx), ReleaseCmdCtx
  PROVE  live' = {} /\ Held(ctx') = {} /\ ctx' \in Contexts
  <1>1. ctx' = [ctx EXCEPT !.ifaces = {}, !.structs = {}, !.pKprcbs = NULL]
    BY DEF ReleaseCmdCtx
  <1>2. ctx'.ifaces = {} /\ ctx'.structs = {} /\ ctx'.pKprcbs = NULL /\ ctx' \in Contexts
    BY <1>1 DEF Contexts
  <1> QED
    BY <1>2 DEF ReleaseCmdCtx, Held

LEMMA BeforeNext ==
  ASSUME NEW S, NEW s \in Seq(S), NEW n \in DOMAIN s
  PROVE  /\ Before(s, n) \cup {s[n]} = Before(s, n + 1)
         /\ n = Len(s) => Before(s, n + 1) = Elements(s)
  <1>1. DOMAIN s = 1 .. Len(s) /\ Len(s) \in Nat /\ n \in Nat
    OBVIOUS
  <1>2. \A j \in DOMAIN s : j < n + 1 <=> j < n \/ j = n
    BY <1>1
  <1>3. n = Len(s) => \A j \in DOMAIN s : j < n + 1
    BY <1>1
  <1> QED
    BY <1>2, <1>3 DEF Before, Elements

LEMMA InvInit == Init => Inv
  <1> SUFFICES ASSUME Init PROVE Inv
    OBVIOUS
  <1>1. EmptyCtx \in Contexts /\ Held(EmptyCtx) = {}
    BY CmdContextAssumption DEF EmptyCtx, Contexts, Held
  <1>2. TypeOK
    BY <1>1, CmdContextAssumption DEF Init, TypeOK
  <1>3. Accounts /\ Stages /\ KernelCommandIsEquipped
    BY <1>1 DEF Init, Accounts, Stages, KernelCommandIsEquipped
  <1> QED
    BY <1>2, <1>3 DEF Inv

LEMMA TypeNext == Inv /\ [Next]_vars => TypeOK'
  <1> SUFFICES ASSUME Inv, [Next]_vars PROVE TypeOK'
    OBVIOUS
  <1> USE DEF Inv, TypeOK
  <1>1. MaxCpus \in Nat /\ MaxCommands \in Nat /\ NULL \notin Nat
    BY CmdContextAssumption
  <1>2. CASE StartCommand
    <2>1. EmptyCtx \in Contexts
      BY <1>1 DEF EmptyCtx, Contexts
    <2> QED
      BY <1>1, <1>2, <2>1 DEF StartCommand
  <1>3. CASE CreateIface
    <2>1. Ifaces[i] \in Elements(Ifaces)
      BY <1>3 DEF CreateIface, Stages, Elements
    <2>2. ctx' \in Contexts
      BY <1>3, <2>1 DEF CreateIface, Contexts
    <2> QED
      BY <1>3, <2>1, <2>2 DEF CreateIface, Objects
  <1>4. CASE CallFails \/ OtherDebuggee \/ ResolveFails \/ NoProcessors \/ EndCommand
    <2>1. ReleaseCmdCtx
      BY <1>4 DEF CallFails, OtherDebuggee, ResolveFails, NoProcessors, EndCommand
    <2>2. live' = {} /\ ctx' \in Contexts
      BY <2>1, Released DEF Accounts
    <2> QED
      BY <1>4, <2>2 DEF CallFails, OtherDebuggee, ResolveFails, NoProcessors, EndCommand, Return
  <1>5. CASE KernelDebuggee \/ VersionKnown \/ ListFilled
    BY <1>5 DEF KernelDebuggee, VersionKnown, ListFilled, Return
  <1>6. CASE ResolveStruct
    <2>1. Structs[i] \in Elements(Structs)
      BY <1>6 DEF ResolveStruct, Stages, Elements
    <2>2. ctx' \in Contexts
      BY <1>6, <2>1 DEF ResolveStruct, Contexts
    <2>3. numProc' \in 0 .. cpus
      BY <1>1, <1>6 DEF ResolveStruct
    <2> QED
      BY <1>6, <2>1, <2>2, <2>3 DEF ResolveStruct, Objects
  <1>7. CASE CountProcessor
    BY <1>1, <1>7 DEF CountProcessor
  <1>8. CASE AllocateList
    <2>1. [k \in 1 .. numProc |-> NULL] \in Seq((0 .. MaxCpus - 1) \cup {NULL})
      BY <1>1
    <2>2. ctx' \in Contexts
      BY <1>1, <1>8, <2>1 DEF AllocateList, Contexts
    <2> QED
      BY <1>8, <2>2 DEF AllocateList, Objects
  <1>9. CASE FillEntry
    <2>1. /\ ctx.pKprcbs \in [1 .. cpus -> (0 .. cpus - 1) \cup {NULL}]
          /\ kKprcb = cpus - 1 /\ i \in 1 .. cpus /\ cpus \in 1 .. MaxCpus
      BY <1>9, <1>1 DEF FillEntry, Stages
    <2>2. [ctx.pKprcbs EXCEPT ![i] = kKprcb] \in Seq((0 .. MaxCpus - 1) \cup {NULL})
      <3>1. [ctx.pKprcbs EXCEPT ![i] = kKprcb] \in [1 .. cpus -> (0 .. cpus - 1) \cup {NULL}]
        BY <2>1
      <3>2. [ctx.pKprcbs EXCEPT ![i] = kKprcb] \in [1 .. cpus -> (0 .. MaxCpus - 1) \cup {NULL}]
        BY <1>1, <2>1, <3>1
      <3>3. cpus \in Nat
        BY <2>1
      <3> QED
        BY <3>2, <3>3, ArrayIsSeq
    <2>3. ctx' \in Contexts
      BY <1>9, <2>2 DEF FillEntry, Contexts
    <2> QED
      BY <1>9, <2>3 DEF FillEntry
  <1>10. CASE Finished \/ UNCHANGED vars
    BY <1>10 DEF Finished, vars
  <1> QED
    BY <1>2, <1>3, <1>4, <1>5, <1>6, <1>7, <1>8, <1>9, <1>10 DEF Next

\* Every acquisition is entered in the context as it is made, every release
\* clears it.
LEMMA AccountsNext == Inv /\ [Next]_vars => Accounts'
  <1> SUFFICES ASSUME Inv, [Next]_vars PROVE Accounts'
    OBVIOUS
  <1> USE DEF Accounts
  <1>1. ctx \in Contexts /\ live = Held(ctx)
    BY DEF Inv, TypeOK
  <1>2. CASE StartCommand
    BY <1>2 DEF StartCommand, Inv, EmptyCtx, Held
  <1>3. CASE CreateIface
    <2>1. ctx'.ifaces = ctx.ifaces \cup {Ifaces[i]} /\ ctx'.structs = ctx.structs /\ ctx'.pKprcbs = ctx.pKprcbs
      BY <1>1, <1>3 DEF CreateIface, Contexts
    <2> QED
      BY <1>1, <1>3, <2>1 DEF CreateIface, Held
  <1>4. CASE CallFails \/ OtherDebuggee \/ ResolveFails \/ NoProcessors \/ EndCommand
    <2>1. ReleaseCmdCtx
      BY <1>4 DEF CallFails, OtherDebuggee, ResolveFails, NoProcessors, EndCommand
    <2> QED
      BY <1>1, <2>1, Released
  <1>5. CASE KernelDebuggee \/ VersionKnown
    BY <1>1, <1>5 DEF KernelDebuggee, VersionKnown
  <1>6. CASE ResolveStruct
    <2>1. ctx'.ifaces = ctx.ifaces /\ ctx'.structs = ctx.structs \cup {Structs[i]} /\ ctx'.pKprcbs = ctx.pKprcbs
      BY <1>1, <1>6 DEF ResolveStruct, Contexts
    <2> QED
      BY <1>1, <1>6, <2>1 DEF ResolveStruct, Held
  <1>7. CASE CountProcessor
    BY <1>1, <1>7 DEF CountProcessor
  <1>8. CASE AllocateList
    <2>1. ctx.pKprcbs = NULL
      BY <1>8 DEF AllocateList, Inv, Stages
    <2>2. /\ ctx'.ifaces = ctx.ifaces /\ ctx'.structs = ctx.structs
          /\ ctx'.pKprcbs = [k \in 1 .. numProc |-> NULL]
      BY <1>1, <1>8 DEF AllocateList, Contexts
    <2>3. [k \in 1 .. numProc |-> NULL] \in Seq(Nat \cup {NULL})
      BY DEF Inv, TypeOK
    <2>4. ctx'.pKprcbs # NULL
      BY <2>2, <2>3, CmdContextAssumption
    <2> QED
      BY <1>1, <1>8, <2>1, <2>2, <2>4 DEF AllocateList, Held
  <1>9. CASE FillEntry
    <2>1. /\ ctx'.ifaces = ctx.ifaces /\ ctx'.structs = ctx.structs
          /\ ctx'.pKprcbs = [ctx.pKprcbs EXCEPT ![i] = kKprcb]
      BY <1>1, <1>9 DEF FillEntry, Contexts
    <2>2. ctx.pKprcbs # NULL /\ ctx'.pKprcbs # NULL
      <3>1. /\ ctx.pKprcbs \in [1 .. cpus -> (0 .. cpus - 1) \cup {NULL}]
            /\ kKprcb = cpus - 1 /\ i \in 1 .. cpus /\ cpus \in Nat \ {0}
        BY <1>9, CmdContextAssumption DEF FillEntry, Inv, Stages, TypeOK
      <3>2. ctx.pKprcbs \in [1 .. cpus -> Nat \cup {NULL}]
        BY <3>1
      <3>3. [ctx.pKprcbs EXCEPT ![i] = kKprcb] \in [1 .. cpus -> Nat \cup {NULL}]
        BY <3>1, <3>2
      <3> QED
        BY <2>1, <3>1, <3>2, <3>3, ArrayIsNotNull
    <2> QED
      BY <1>1, <1>9, <2>1, <2>2 DEF FillEntry, Held
  <1>10. CASE ListFilled
    <2>1. pc' = "idle" => FALSE
      BY <1>10 DEF ListFilled, Return, Inv, Stages
    <2> QED
      BY <1>1, <1>10, <2>1 DEF ListFilled
  <1>11. CASE Finished \/ UNCHANGED vars
    BY <1>11 DEF Finished, vars, Inv
  <1> QED
    BY <1>2, <1>3, <1>4, <1>5, <1>6, <1>7, <1>8, <1>9, <1>10, <1>11 DEF Next

-----------------------------------------------------------------------------
LEMMA StagesNext == Inv /\ [Next]_vars => Stages'
  <1> SUFFICES ASSUME Inv, [Next]_vars PROVE Stages'
    OBVIOUS
  <1> USE DEF Stages
  <1>1. ctx \in Contexts /\ cpus \in Nat /\ Stages
    BY CmdContextAssumption DEF Inv, TypeOK
  <1>2. CASE StartCommand
    <2>1. Before(Ifaces, 1) = {} /\ 1 \in DOMAIN Ifaces
      BY Lists DEF Before
    <2>2. ctx'.ifaces = {} /\ ctx'.structs = {} /\ ctx'.pKprcbs = NULL
      BY <1>2 DEF StartCommand, EmptyCtx
    <2> QED
      BY <1>2, <2>1, <2>2 DEF StartCommand
  <1>3. CASE CreateIface
    <2>1. ctx'.ifaces = ctx.ifaces \cup {Ifaces[i]} /\ ctx'.structs = {} /\ ctx'.pKprcbs = NULL
      BY <1>1, <1>3 DEF CreateIface, Contexts
    <2>2. PICK n \in DOMAIN Ifaces : n = i
      BY <1>1, <1>3 DEF CreateIface
    <2>3. ctx'.ifaces = Before(Ifaces, n + 1) /\ (n = Len(Ifaces) => ctx'.ifaces = Elements(Ifaces))
      <3>1. /\ Before(Ifaces, n) \cup {Ifaces[n]} = Before(Ifaces, n + 1)
            /\ n = Len(Ifaces) => Before(Ifaces, n + 1) = Elements(Ifaces)
        BY BeforeNext, CmdContextAssumption
      <3>2. ctx.ifaces = Before(Ifaces, n)
        BY <1>1, <1>3, <2>2 DEF CreateIface
      <3> QED
        BY <2>1, <2>2, <3>1, <3>2
    <2>4. n < Len(Ifaces) => n + 1 \in DOMAIN Ifaces
      BY Lists
    <2>5. ~(n < Len(Ifaces)) => n = Len(Ifaces)
      BY Lists
    <2> QED
      BY <1>3, <2>1, <2>2, <2>3, <2>4, <2>5 DEF CreateIface
  <1>4. CASE CallFails \/ OtherDebuggee \/ ResolveFails \/ NoProcessors \/ EndCommand
    BY <1>4 DEF CallFails, OtherDebuggee, ResolveFails, NoProcessors, EndCommand, Return
  <1>5. CASE KernelDebuggee
    BY <1>1, <1>5 DEF KernelDebuggee
  <1>6. CASE VersionKnown
    <2>1. Before(Structs, 1) = {} /\ 1 \in DOMAIN Structs
      BY Lists DEF Before
    <2> QED
      BY <1>1, <1>6, <2>1 DEF VersionKnown
  <1>7. CASE ResolveStruct
    <2>1. /\ ctx'.ifaces = Elements(Ifaces) /\ ctx'.pKprcbs = NULL
          /\ ctx'.structs = ctx.structs \cup {Structs[i]}
      BY <1>1, <1>7 DEF ResolveStruct, Contexts
    <2>2. PICK n \in DOMAIN Structs : n = i
      BY <1>1, <1>7 DEF ResolveStruct
    <2>3. ctx'.structs = Before(Structs, n + 1) /\ (n = Len(Structs) => ctx'.structs = Elements(Structs))
      <3>1. /\ Before(Structs, n) \cup {Structs[n]} = Before(Structs, n + 1)
            /\ n = Len(Structs) => Before(Structs, n + 1) = Elements(Structs)
        BY BeforeNext, CmdContextAssumption
      <3>2. ctx.structs = Before(Structs, n)
        BY <1>1, <1>7, <2>2 DEF ResolveStruct
      <3> QED
        BY <2>1, <2>2, <3>1, <3>2
    <2>4. n < Len(Structs) => n + 1 \in DOMAIN Structs
      BY Lists
    <2>5. ~(n < Len(Structs)) => n = Len(Structs)
      BY Lists
    <2>6. ret' = "S_OK"
      BY <1>1, <1>7 DEF ResolveStruct
    <2>7. CASE n < Len(Structs)
      <3>1. pc' = "resolve" /\ i' = n + 1
        BY <1>7, <2>2, <2>7 DEF ResolveStruct
      <3> QED
        BY <2>1, <2>3, <2>4, <2>6, <2>7, <3>1
    <2>8. CASE ~(n < Len(Structs))
      <3>1. pc' = "count" /\ i' = 1 /\ numProc' = 0
        BY <1>7, <2>2, <2>8 DEF ResolveStruct
      <3> QED
        BY <2>1, <2>3, <2>5, <2>6, <2>8, <3>1
    <2> QED
      BY <2>7, <2>8
  <1>8. CASE CountProcessor
    <2>1. numProc \in Nat
      BY DEF Inv, TypeOK
    <2> QED
      BY <1>1, <1>8, <2>1 DEF CountProcessor
  <1>9. CASE AllocateList
    <2>1. /\ ctx'.ifaces = ctx.ifaces /\ ctx'.structs = ctx.structs /\ ctx'.numKprcb = numProc
          /\ ctx'.pKprcbs = [k \in 1 .. numProc |-> NULL]
      BY <1>1, <1>9 DEF AllocateList, Contexts
    <2>2. i' = 1 /\ numProc' = cpus' /\ cpus' > 0 /\ kKprcb' = cpus' - 1
      BY <1>1, <1>9 DEF AllocateList
    <2> QED
      BY <1>1, <1>9, <2>1, <2>2 DEF AllocateList
  <1>10. CASE FillEntry
    <2>1. /\ ctx'.ifaces = ctx.ifaces /\ ctx'.structs = ctx.structs /\ ctx'.numKprcb = ctx.numKprcb
          /\ ctx'.pKprcbs = [ctx.pKprcbs EXCEPT ![i] = kKprcb]
      BY <1>1, <1>10 DEF FillEntry, Contexts
    <2>2. PICK n \in 1 .. cpus : n = i
      BY <1>1, <1>10 DEF FillEntry, Inv, TypeOK
    <2>3. ctx'.pKprcbs \in [1 .. cpus -> (0 .. cpus - 1) \cup {NULL}]
      BY <1>1, <1>10, <2>1, <2>2 DEF FillEntry
    <2>4. \A k \in 1 .. cpus : k < n + 1 => ctx'.pKprcbs[k] = cpus - 1
      <3>1. ASSUME NEW k \in 1 .. cpus, k < n + 1 PROVE ctx'.pKprcbs[k] = cpus - 1
        <4>1. k < n \/ k = n
          BY <1>1, <3>1
        <4> QED
          BY <1>1, <1>10, <2>1, <2>2, <4>1 DEF FillEntry
      <3> QED
        BY <3>1
    <2> QED
      BY <1>1, <1>10, <2>1, <2>2, <2>3, <2>4 DEF FillEntry
  <1>11. CASE ListFilled
    BY <1>11 DEF ListFilled, Return
  <1>12. CASE Finished \/ UNCHANGED vars
    BY <1>1, <1>12 DEF Finished, vars, Before
  <1> QED
    BY <1>2, <1>3, <1>4, <1>5, <1>6, <1>7, <1>8, <1>9, <1>10, <1>11, <1>12 DEF Next

\* A command starts on a kernel target only when the list is filled.
LEMMA EquippedNext == Inv /\ [Next]_vars => KernelCommandIsEquipped'
  <1> SUFFICES ASSUME Inv, [Next]_vars PROVE KernelCommandIsEquipped'
    OBVIOUS
  <1> USE DEF KernelCommandIsEquipped
  <1>1. CASE ListFilled
    <2>1. /\ ctx.pKprcbs \in [1 .. cpus -> (0 .. cpus - 1) \cup {NULL}]
          /\ \A k \in 1 .. cpus : k < i => ctx.pKprcbs[k] = cpus - 1
          /\ i > cpus /\ cpus \in Nat \ {0} /\ i \in Nat
          /\ ctx.ifaces = Elements(Ifaces) /\ ctx.structs = Elements(Structs) /\ ctx.numKprcb = cpus
      BY <1>1, CmdContextAssumption DEF ListFilled, Inv, Stages, TypeOK
    <2>2. \A k \in 1 .. cpus : k < i /\ cpus - 1 \in 0 .. cpus - 1
      BY <2>1
    <2>3. ctx.pKprcbs \in [1 .. cpus -> 0 .. cpus - 1]
      BY <2>1, <2>2
    <2>4. ctx.pKprcbs # NULL
      <3>1. ctx.pKprcbs \in [1 .. cpus -> Nat \cup {NULL}]
        BY <2>1
      <3> QED
        BY <2>1, <3>1, ArrayIsNotNull
    <2> QED
      BY <1>1, <2>1, <2>3, <2>4 DEF ListFilled, Held, Objects
  <1>2. CASE OtherDebuggee
    BY <1>2 DEF OtherDebuggee
  <1>3. CASE CallFails \/ ResolveFails \/ NoProcessors
    BY <1>3 DEF CallFails, ResolveFails, NoProcessors, Return
  <1>4. CASE StartCommand \/ CreateIface \/ KernelDebuggee \/ VersionKnown \/ ResolveStruct
    BY <1>4 DEF StartCommand, CreateIface, KernelDebuggee, VersionKnown, ResolveStruct
  <1>5. CASE CountProcessor \/ AllocateList \/ FillEntry \/ EndCommand
    BY <1>5 DEF CountProcessor, AllocateList, FillEntry, EndCommand
  <1>6. CASE Finished \/ UNCHANGED vars
    BY <1>6 DEF Finished, vars, Inv, Held
  <1> QED
    BY <1>1, <1>2, <1>3, <1>4, <1>5, <1>6 DEF Next

LEMMA InvNext == Inv /\ [Next]_vars => Inv'
  BY TypeNext, AccountsNext, StagesNext, EquippedNext DEF Inv

\* In every reachable state the books are right and each stage has what the
\* stages before it made.
THEOREM InvAlways == Spec => []Inv
  BY InvInit, InvNext, PTL DEF Spec

\* Every variable keeps its type: no index of InitCmdCtx or GetAllKprcb leaves
\* its list.
THEOREM TypeCorrect == Spec => []TypeOK
  BY InvAlways, PTL DEF Inv

\* A command that is over, or that InitCmdCtx has refused, has left nothing
\* allocated.
THEOREM ReleasesEverything == Spec => []NothingLeftBehind
  <1>1. Inv => NothingLeftBehind
    BY DEF Inv, Accounts, NothingLeftBehind
  <1> QED
    BY InvAlways, <1>1, PTL

\* The context never points to what has been released, so a second
\* ReleaseCmdCtx releases nothing twice.
THEOREM NeverDangles == Spec => []NoDanglingPointer
  <1>1. Inv => NoDanglingPointer
    BY DEF Inv, Accounts, NoDanglingPointer
  <1> QED
    BY InvAlways, <1>1, PTL

\* A command on a kernel target has every interface, every structure and an
\* entry for each processor.
THEOREM EquippedOnKernel == Spec => []KernelCommandIsEquipped
  BY InvAlways, PTL DEF Inv
=============================================================================
