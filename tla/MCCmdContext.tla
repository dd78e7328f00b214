---------------------------- MODULE MCCmdContext ----------------------------
(***************************************************************************)
(* The four interfaces and the five structures of the code, up to three    *)
(* processors, two commands in succession.                                 *)
(***************************************************************************)
EXTENDS CmdContext

MCIfaces  == <<"pDebugSymbols", "pDebugDataSpaces", "pDebugControl", "pDebugSystemObjects">>
MCStructs == <<"pStructPoolDescriptor", "pStructEprocess", "pStructMmSessionSpace",
                "pStructKPRCB", "pStructGeneralLookasidePool">>
=============================================================================
