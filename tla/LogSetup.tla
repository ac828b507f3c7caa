------------------------------ MODULE LogSetup ------------------------------
(***************************************************************************)
(* How a program's log is set up: loggerInit of include/common.hpp, which  *)
(* calls init and add_file of lib/loguru and then sets g_stderr_verbosity, *)
(* and which messages LOG_S passes on at any time.                         *)
(*                                                                         *)
(* A command line argument begins with the flag "-v" that no letter        *)
(* follows, or it does not; "text" is what stands behind the flag, with or *)
(* without "=", or the whole argument.  Each turn of a loop, each call and *)
(* each assignment that matters is an action.                              *)
(***************************************************************************)
EXTENDS Integers, SequencesExt, FiniteSets

CONSTANTS
  CommandLines, \* the arguments behind argv[0]
  Depth         \* the number of directories in the path of the log file

Verbosity_OFF     == -9
Verbosity_FATAL   == -3
Verbosity_ERROR   == -2
Verbosity_WARNING == -1
Verbosity_INFO    == 0
Verbosity_1       == 1
Verbosity_MAX     == 9

(* The levels of messages.                                                 *)
Verbosities == Verbosity_FATAL..Verbosity_MAX

Name == [OFF |-> Verbosity_OFF, INFO |-> Verbosity_INFO,
         WARNING |-> Verbosity_WARNING, ERROR |-> Verbosity_ERROR,
         FATAL |-> Verbosity_FATAL]

Number == [n \in {"0", "3", "9"} |-> IF n = "0" THEN 0 ELSE IF n = "3" THEN 3 ELSE 9]

(* get_verbosity_from_name, and strtol for what is not a name.             *)
Level(text) ==
  IF text \in DOMAIN Name THEN {Name[text]}
  ELSE IF text \in DOMAIN Number THEN {Number[text]}
  ELSE {}

VARIABLES
  stage,
  args,      \* history: the arguments that were given
  log_to_console, \* TRUE in the server, FALSE in the client
  argv,      \* the arguments, argv[1] first
  arg_it,    \* the one that is looked at
  arg_dest,  \* where the next one that stays goes
  out_argc,  \* the number of those that stay so far
  g_stderr_verbosity,
  callbacks, \* the verbosities of s_callbacks
  s_max_out_verbosity,
  left       \* directories that have yet to be made

vars == <<stage, args, log_to_console, argv, arg_it, arg_dest, out_argc,
          g_stderr_verbosity, callbacks, s_max_out_verbosity, left>>

given == <<args, log_to_console>>
argVars == <<given, argv, arg_it, arg_dest, out_argc>>

Init ==
  /\ stage = "parse_args"
  /\ args \in CommandLines
  /\ log_to_console \in BOOLEAN
  /\ argv = args
  /\ arg_it = 1 /\ arg_dest = 1
  /\ out_argc = Len(args)
  /\ g_stderr_verbosity = Verbosity_INFO
  /\ callbacks = << >>
  /\ s_max_out_verbosity = Verbosity_OFF
  /\ left = Depth

Go(from, to) == stage = from /\ stage' = to

-----------------------------------------------------------------------------
(* loguru::init *)

(* A flag takes its level from itself or from the next argument.           *)
Width(i) == IF argv[i].text = "" THEN 2 ELSE 1

LevelAt(i) ==
  IF Width(i) = 1 THEN Level(argv[i].text)
  ELSE IF i < Len(argv) /\ ~argv[i + 1].flag THEN Level(argv[i + 1].text)
  ELSE {}

(* CHECK_F ends the program if there is no level.                          *)
parseFlag ==
  /\ arg_it <= Len(argv) /\ argv[arg_it].flag
  /\ IF LevelAt(arg_it) = {}
     THEN Go("parse_args", "aborted") /\ UNCHANGED g_stderr_verbosity
     ELSE Go("parse_args", "parse_args") /\ g_stderr_verbosity' \in LevelAt(arg_it)
  /\ arg_it' = arg_it + Width(arg_it)
  /\ out_argc' = out_argc - Width(arg_it)
  /\ UNCHANGED <<given, argv, arg_dest, callbacks, s_max_out_verbosity, left>>

(* Seeded bug: arguments are left where they are.                          *)
KeepInPlace ==
  /\ Go("parse_args", "parse_args")
  /\ arg_it <= Len(argv) /\ ~argv[arg_it].flag
  /\ arg_dest' = arg_dest + 1
  /\ arg_it' = arg_it + 1
  /\ UNCHANGED <<given, argv, out_argc, g_stderr_verbosity, callbacks, s_max_out_verbosity, left>>

keepArg ==
  /\ Go("parse_args", "parse_args")
  /\ arg_it <= Len(argv) /\ ~argv[arg_it].flag
  /\ argv' = [argv EXCEPT ![arg_dest] = argv[arg_it]]
  /\ arg_dest' = arg_dest + 1
  /\ arg_it' = arg_it + 1
  /\ UNCHANGED <<given, out_argc, g_stderr_verbosity, callbacks, s_max_out_verbosity, left>>

(* argc is set and the array cut; the rest of init sets no state that the  *)
(* log depends on.                                                         *)
init ==
  /\ Go("parse_args", "create_directories")
  /\ arg_it > Len(argv)
  /\ argv' = SubSeq(argv, 1, out_argc)
  /\ UNCHANGED <<given, arg_it, arg_dest, out_argc, g_stderr_verbosity, callbacks,
                 s_max_out_verbosity, left>>

-----------------------------------------------------------------------------
(* add_file *)

(* A directory is made or exists, or that fails and the others are not     *)
(* tried.                                                                  *)
create_directories ==
  /\ stage = "create_directories" /\ left > 0
  /\ \/ left' = left - 1 /\ UNCHANGED stage
     \/ stage' = "open" /\ UNCHANGED left
  /\ UNCHANGED <<argVars, g_stderr_verbosity, callbacks, s_max_out_verbosity>>

directoriesExist ==
  /\ Go("create_directories", "open")
  /\ left = 0
  /\ UNCHANGED <<argVars, g_stderr_verbosity, callbacks, s_max_out_verbosity, left>>

(* loggerInit does not look at what add_file returns.                      *)
openFails ==
  /\ Go("open", "set_verbosity")
  /\ UNCHANGED <<argVars, g_stderr_verbosity, callbacks, s_max_out_verbosity, left>>

HighestOf(levels) == Max({Verbosity_OFF} \cup ToSet(levels))

(* Seeded bug: on_callback_change is not called.                           *)
AddSilently(verbosity) ==
  callbacks' = Append(callbacks, verbosity) /\ UNCHANGED s_max_out_verbosity

add_callback(verbosity) ==
  /\ callbacks' = Append(callbacks, verbosity)
  /\ s_max_out_verbosity' = HighestOf(callbacks')

(* Without the directories there is no file.                               *)
add_file ==
  /\ Go("open", "set_verbosity")
  /\ left = 0
  /\ add_callback(Verbosity_MAX)
  /\ UNCHANGED <<argVars, g_stderr_verbosity, left>>

loggerInit ==
  /\ Go("set_verbosity", "ready")
  /\ g_stderr_verbosity' = IF log_to_console THEN Verbosity_1 ELSE Verbosity_OFF
  /\ UNCHANGED <<argVars, callbacks, s_max_out_verbosity, left>>

Next ==
  \/ parseFlag
  \/ keepArg
  \/ init
  \/ create_directories
  \/ directoriesExist
  \/ openFails
  \/ add_file
  \/ loggerInit

Spec == Init /\ [][Next]_vars

-----------------------------------------------------------------------------
(* LOG_S evaluates its message only up to this level.                      *)
current_verbosity_cutoff ==
  IF g_stderr_verbosity > s_max_out_verbosity THEN g_stderr_verbosity
  ELSE s_max_out_verbosity

(* What log_message does with a message of a level.                        *)
Sinks(verbosity) ==
  {s \in {"stderr", "file"} :
     \/ s = "stderr" /\ verbosity <= g_stderr_verbosity
     \/ s = "file" /\ \E i \in DOMAIN callbacks : verbosity <= callbacks[i]}

(* Every variable keeps its type, and the arguments that stay never        *)
(* overtake those that are read.                                           *)
TypeOK ==
  /\ stage \in {"parse_args", "create_directories", "open", "set_verbosity", "ready",
             "aborted"}
  /\ arg_dest <= arg_it
  /\ stage # "aborted" => out_argc \in 0..Len(args)
  /\ g_stderr_verbosity \in {Verbosity_OFF} \cup Verbosities
  /\ callbacks \in Seq(Verbosities)
  /\ left \in 0..Depth

(* The cutoff loses nothing and passes nothing in vain: at any time, also  *)
(* while the log is set up, a message is evaluated exactly if a sink       *)
(* takes it.                                                               *)
CutoffIsExact ==
  \A v \in Verbosities : v <= current_verbosity_cutoff <=> Sinks(v) # {}

(* The arguments that a flag takes up.                                     *)
Taken == {i \in DOMAIN args :
            \/ args[i].flag
            \/ i > 1 /\ args[i - 1].flag /\ args[i - 1].text = ""}

(* init removes the arguments that are meant for it, and no other, and     *)
(* keeps the order: whoever parses the rest sees what the user meant.      *)
OthersStay ==
  stage \notin {"parse_args", "aborted"} =>
    \E origin \in [DOMAIN argv -> DOMAIN args \ Taken] :
      /\ \A i, j \in DOMAIN argv : i < j => origin[i] < origin[j]
      /\ \A k \in DOMAIN args \ Taken : \E i \in DOMAIN argv : origin[i] = k
      /\ \A i \in DOMAIN argv : argv[i] = args[origin[i]]

(* The level that the user gave last is that of stderr from init until     *)
(* loggerInit sets one of its own.                                         *)
FlagIsHonoured ==
  stage \in {"create_directories", "open", "set_verbosity"} /\ Taken # {} =>
    LET last == Max(Taken) IN Level(args[last].text) = {g_stderr_verbosity}

=============================================================================
