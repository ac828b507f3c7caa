------------------------------ MODULE Program ------------------------------
(***************************************************************************)
(* The main functions of the client and of the server                      *)
(* (test/apps/client_main.cpp, test/apps/server_main.cpp) as far as they   *)
(* are sequential: both set up the log (LogSetup); then the client prompts *)
(* for commands (Prompt).                                                  *)
(***************************************************************************)
EXTENDS Prompt

CONSTANTS CommandLines, Depth \* see LogSetup

VARIABLES
  stage, args, log_to_console, argv, arg_it, arg_dest, out_argc,
  g_stderr_verbosity, callbacks, s_max_out_verbosity, left \* see LogSetup

Setup == INSTANCE LogSetup

ASSUME ProgramAssumption ==
  /\ CommandLines \subseteq Seq([flag : BOOLEAN, text : STRING])
  /\ Depth \in Nat

setupVars ==
  <<stage, args, log_to_console, argv, arg_it, arg_dest, out_argc,
    g_stderr_verbosity, callbacks, s_max_out_verbosity, left>>

programVars == <<setupVars, promptVars>>

ProgramInit == Setup!Init /\ PromptInit

(* The server runs only the first part.                                    *)
main ==
  \/ Setup!Next /\ UNCHANGED promptVars
  \/ /\ stage = "ready" /\ ~log_to_console
     /\ PromptNext
     /\ UNCHANGED setupVars

ProgramSpec == ProgramInit /\ [][main]_programVars

-----------------------------------------------------------------------------
(* Every part keeps its types, and the programs their order.               *)
ProgramTypeOK ==
  /\ TypeOK
  /\ WireTypeOK
  /\ Setup!TypeOK
  /\ pc # "prompt" \/ phase # "none" => stage = "ready"

(* CutoffIsExact of LogSetup: LOG_S evaluates a message exactly if a sink  *)
(* takes it, at any time of the set-up and after it.                       *)
CutoffIsExact == Setup!CutoffIsExact

(* OthersStay and FlagIsHonoured of LogSetup: init takes its own arguments *)
(* and no other, and the last level given is set, until loggerInit         *)
(* overwrites it.                                                          *)
CommandLineIsRead == Setup!OthersStay /\ Setup!FlagIsHonoured

=============================================================================
