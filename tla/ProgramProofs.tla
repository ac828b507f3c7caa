--------------------------- MODULE ProgramProofs ---------------------------
(***************************************************************************)
(* The safety properties of Program, for any arguments, lines and          *)
(* messages.  First how the log is set up: what loguru::init keeps and     *)
(* takes of the command line, and which messages have a sink.              *)
(***************************************************************************)
EXTENDS ProgramInvariant, CodecProofs, SequenceLemmas, FiniteSetTheorems, TLAPS

-----------------------------------------------------------------------------
(* loguru::init                                                            *)

USE DEF Setup!Go, Setup!given, Setup!argVars

(* init() takes a flag, and the argument behind a flag without a text of   *)
(* its own.                                                                *)
LEMMA TakenAt ==
  ASSUME args \in Seq(Arg), NEW i \in 1..Len(args)
  PROVE  i \in Setup!Taken <=>
           \/ args[i].flag
           \/ i > 1 /\ args[i - 1].flag /\ args[i - 1].text = ""
<1>1. DOMAIN args = 1..Len(args)
  BY LenProperties
<1> QED
  BY <1>1 DEF Setup!Taken

(* What is taken are arguments.                                            *)
LEMMA TakenIsInside ==
  ASSUME args \in Seq(Arg)
  PROVE  Setup!Taken \subseteq 1..Len(args) /\ Len(args) \in Nat
<1>1. DOMAIN args = 1..Len(args) /\ Len(args) \in Nat
  BY LenProperties
<1> QED
  BY <1>1 DEF Setup!Taken

(* A text is at most one level.                                            *)
LEMMA OneLevel ==
  ASSUME NEW text, NEW level \in Setup!Level(text)
  PROVE  /\ Setup!Level(text) = {level}
         /\ level \in {Setup!Verbosity_OFF} \cup Setup!Verbosities
<1> USE DEF Setup!Verbosity_OFF, Setup!Verbosity_FATAL, Setup!Verbosity_ERROR,
        Setup!Verbosity_WARNING, Setup!Verbosity_INFO, Setup!Verbosity_MAX,
        Setup!Verbosities, Setup!Level
<1>1. CASE text \in DOMAIN Setup!Name
  BY <1>1 DEF Setup!Name
<1>2. CASE text \notin DOMAIN Setup!Name
  BY <1>2 DEF Setup!Number
<1> QED
  BY <1>1, <1>2

(* What init() relies on at the argument that it looks at.                 *)
LEMMA ArgumentRead ==
  ASSUME ArgumentsOK, stage = "parse_args", arg_it <= Len(argv)
  PROVE  /\ arg_it \in 1..Len(args) /\ arg_dest \in 1..arg_it
         /\ Len(argv) = Len(args) /\ Len(args) \in Nat
         /\ argv[arg_it] = args[arg_it]
         /\ arg_it \in Setup!Taken <=> args[arg_it].flag
         /\ arg_it < Len(args) => argv[arg_it + 1] = args[arg_it + 1]
<1>1. Reading(arg_it - 1, arg_dest - 1) /\ arg_it \in Nat /\ arg_dest \in Nat
      /\ Len(args) \in Nat
  BY LenProperties DEF ArgumentsOK
<1> QED
  BY <1>1 DEF Reading

(* The flag and, if it is alone, the argument behind it are taken.         *)
LEMMA FlagIsTaken ==
  ASSUME ArgumentsOK, stage = "parse_args", arg_it <= Len(argv), argv[arg_it].flag,
         Setup!LevelAt(arg_it) # {}
  PROVE  LET w == Setup!Width(arg_it)
             n == arg_it + w - 1
         IN  /\ w \in {1, 2} /\ n \in 1..Len(args)
             /\ \A i \in arg_it..n : i \in Setup!Taken
             /\ n < Len(args) => (n + 1 \in Setup!Taken <=> args[n + 1].flag)
             /\ Setup!LevelAt(arg_it) = Setup!Level(args[n].text)
<1>1. /\ arg_it \in 1..Len(args) /\ Len(argv) = Len(args) /\ Len(args) \in Nat
      /\ argv[arg_it] = args[arg_it] /\ arg_it \in Setup!Taken
      /\ arg_it < Len(args) => argv[arg_it + 1] = args[arg_it + 1]
      /\ args \in Seq(Arg)
  BY ArgumentRead DEF ArgumentsOK
<1>2. CASE args[arg_it].text = ""
  <2>1. Setup!Width(arg_it) = 2
    BY <1>1, <1>2 DEF Setup!Width
  <2>2. arg_it < Len(args) /\ ~args[arg_it + 1].flag
    BY <1>1, <2>1 DEF Setup!LevelAt
  <2>3. Setup!LevelAt(arg_it) = Setup!Level(args[arg_it + 1].text)
    BY <1>1, <2>1, <2>2 DEF Setup!LevelAt
  <2>4. arg_it + 1 \in Setup!Taken
    <3>1. arg_it + 1 \in 1..Len(args) /\ arg_it + 1 > 1 /\ (arg_it + 1) - 1 = arg_it
      BY <1>1, <2>2
    <3> QED
      BY <1>1, <1>2, <3>1, TakenAt
  <2>5. ASSUME arg_it + 1 < Len(args)
        PROVE  arg_it + 2 \in Setup!Taken <=> args[arg_it + 2].flag
    <3>1. arg_it + 2 \in 1..Len(args) /\ arg_it + 2 > 1 /\ (arg_it + 2) - 1 = arg_it + 1
      BY <1>1, <2>5
    <3> QED
      BY <1>1, <2>2, <3>1, TakenAt
  <2> QED
    BY <1>1, <2>1, <2>2, <2>3, <2>4, <2>5
<1>3. CASE args[arg_it].text # ""
  <2>1. Setup!Width(arg_it) = 1
    BY <1>1, <1>3 DEF Setup!Width
  <2>2. Setup!LevelAt(arg_it) = Setup!Level(args[arg_it].text)
    BY <1>1, <2>1 DEF Setup!LevelAt
  <2>3. ASSUME arg_it < Len(args)
        PROVE  arg_it + 1 \in Setup!Taken <=> args[arg_it + 1].flag
    <3>1. arg_it + 1 \in 1..Len(args) /\ arg_it + 1 > 1 /\ (arg_it + 1) - 1 = arg_it
      BY <1>1, <2>3
    <3> QED
      BY <1>1, <1>3, <3>1, TakenAt
  <2> QED
    BY <1>1, <2>1, <2>2, <2>3
<1> QED
  BY <1>2, <1>3

(* A flag is taken with its level: the arguments in front stay as they     *)
(* are.                                                                    *)
LEMMA parseFlagKeeps ==
  ASSUME ArgumentsOK, Setup!parseFlag
  PROVE  ArgumentsOK'
<1>0. PICK w, n, m : w = Setup!Width(arg_it) /\ n = arg_it + w - 1 /\ m = arg_dest - 1
  OBVIOUS
<1>1. /\ stage = "parse_args" /\ arg_it <= Len(argv) /\ argv[arg_it].flag
      /\ arg_it' = arg_it + w /\ out_argc' = out_argc - w
      /\ args' = args /\ argv' = argv /\ arg_dest' = arg_dest
  BY <1>0 DEF Setup!parseFlag
<1>2. /\ args \in Seq(Arg) /\ argv \in Seq(Arg) /\ arg_it \in Nat /\ arg_dest \in Nat
      /\ arg_dest <= arg_it /\ out_argc \in Int
      /\ Reading(arg_it - 1, m) /\ n = arg_it + w - 1 /\ m = arg_dest - 1
  BY <1>0, <1>1 DEF ArgumentsOK
<1>3. w \in {1, 2}
  BY <1>0 DEF Setup!Width
<1>4. Setup!Taken' = Setup!Taken
  BY <1>1 DEF Setup!Taken
<1>5. CASE Setup!LevelAt(arg_it) = {}
  <2>1. stage' = "aborted"
    BY <1>5 DEF Setup!parseFlag
  <2> QED
    BY <1>1, <1>2, <1>3, <2>1 DEF ArgumentsOK
<1>6. CASE Setup!LevelAt(arg_it) # {}
  <2>1. stage' = "parse_args" /\ g_stderr_verbosity' \in Setup!LevelAt(arg_it)
    BY <1>6 DEF Setup!parseFlag
  <2>2. /\ n \in 1..Len(args) /\ \A i \in arg_it..n : i \in Setup!Taken
        /\ n < Len(args) => (n + 1 \in Setup!Taken <=> args[n + 1].flag)
        /\ Setup!LevelAt(arg_it) = Setup!Level(args[n].text)
    BY <1>0, <1>1, <1>6, FlagIsTaken
  <2>3. Setup!Level(args[n].text) = {g_stderr_verbosity'}
    BY <2>1, <2>2, OneLevel
  <2>4. /\ arg_it' - 1 = n /\ arg_dest' - 1 = m
        /\ (1..n) \ Setup!Taken = (1..(arg_it - 1)) \ Setup!Taken
        /\ n \in Setup!Taken
    BY <1>1, <1>2, <1>3, <2>2
  <2>5. KeptInOrder(n, m)'
    <3>1. Kept(arg_it - 1, m, Setup!Taken, args, argv)
      BY <1>2 DEF Reading, KeptInOrder
    <3> DEFINE A == (1..(arg_it - 1)) \ Setup!Taken
               C == (1..n) \ Setup!Taken
    <3>2. A = C
      BY <2>4
    <3>3. \E origin \in [1..m -> A] :
             /\ \A i, j \in 1..m : i < j => origin[i] < origin[j]
             /\ \A k \in A : \E i \in 1..m : origin[i] = k
             /\ \A i \in 1..m : argv[i] = args[origin[i]]
      BY ONLY <3>1 DEF Kept
    <3> HIDE DEF A, C
    <3>4. \E origin \in [1..m -> C] :
             /\ \A i, j \in 1..m : i < j => origin[i] < origin[j]
             /\ \A k \in C : \E i \in 1..m : origin[i] = k
             /\ \A i \in 1..m : argv[i] = args[origin[i]]
      BY ONLY <3>2, <3>3
    <3>5. Kept(n, m, Setup!Taken, args, argv)
      BY ONLY <3>4 DEF C, Kept
    <3> QED
      BY <1>1, <1>4, <3>5 DEF KeptInOrder
  <2>6. LevelIsSet(n)'
    <3> SUFFICES ASSUME NEW k \in Setup!Taken, k <= n,
                        \A j \in Setup!Taken : j <= n => j <= k
                 PROVE  Setup!Level(args[k].text) = {g_stderr_verbosity'}
      BY <1>1, <1>4 DEF LevelIsSet
    <3>1. k \in Nat
      BY <1>2, TakenIsInside
    <3>2. n <= k
      BY <2>2, <2>4
    <3>3. k = n
      BY <2>2, <3>1, <3>2
    <3> QED
      BY <2>3, <3>3
  <2>7. Reading(n, m)'
    <3>1. /\ m \in 0..(arg_it - 1) /\ Len(argv) = Len(args) /\ Len(args) \in Nat
          /\ out_argc = m + Len(args) - (arg_it - 1)
          /\ \A i \in arg_it..Len(args) : argv[i] = args[i]
      BY <1>2, LenProperties DEF Reading
    <3>2. out_argc' = m + Len(args) - n
      <4>1. /\ out_argc' = out_argc - w /\ n = arg_it + w - 1 /\ w \in Int
            /\ out_argc \in Int /\ arg_it \in Int /\ m \in Int /\ Len(args) \in Int
            /\ out_argc = m + Len(args) - (arg_it - 1)
        BY <1>1, <1>2, <1>3, <3>1
      <4> QED
        BY ONLY <4>1
    <3>3. m \in 0..n /\ n \in 0..Len(args) /\ (n + 1)..Len(args) \subseteq arg_it..Len(args)
      BY <1>2, <1>3, <2>2, <3>1
    <3> QED
      BY <1>1, <1>4, <2>2, <2>5, <2>6, <3>1, <3>2, <3>3 DEF Reading
  <2>8. /\ arg_it' \in Nat /\ arg_dest' \in Nat /\ arg_dest' <= arg_it' /\ out_argc' \in Int
    BY <1>1, <1>2, <1>3
  <2> QED
    BY <1>1, <1>2, <2>1, <2>4, <2>7, <2>8 DEF ArgumentsOK
<1> QED
  BY <1>5, <1>6

(* An argument that stays is moved behind those that stayed before it.     *)
LEMMA keepArgKeeps ==
  ASSUME ArgumentsOK, Setup!keepArg
  PROVE  ArgumentsOK'
<1>0. PICK n, m : n = arg_it - 1 /\ m = arg_dest - 1
  OBVIOUS
<1>1. /\ stage = "parse_args" /\ stage' = "parse_args"
      /\ arg_it <= Len(argv) /\ ~argv[arg_it].flag
      /\ argv' = [argv EXCEPT ![arg_dest] = argv[arg_it]]
      /\ arg_it' = arg_it + 1 /\ arg_dest' = arg_dest + 1 /\ out_argc' = out_argc
      /\ args' = args /\ g_stderr_verbosity' = g_stderr_verbosity
  BY DEF Setup!keepArg
<1>2. /\ args \in Seq(Arg) /\ argv \in Seq(Arg) /\ arg_it \in Nat /\ arg_dest \in Nat
      /\ arg_dest <= arg_it /\ out_argc \in Int
      /\ Reading(n, m)
  BY <1>0, <1>1 DEF ArgumentsOK
<1>3. /\ arg_it \in 1..Len(args) /\ arg_dest \in 1..arg_it
      /\ Len(argv) = Len(args) /\ Len(args) \in Nat
      /\ argv[arg_it] = args[arg_it] /\ arg_it \notin Setup!Taken
  BY <1>1, ArgumentRead
<1>4. Setup!Taken' = Setup!Taken
  BY <1>1 DEF Setup!Taken
<1>5. /\ argv' \in Seq(Arg) /\ Len(argv') = Len(argv)
      /\ argv'[arg_dest] = args[arg_it]
      /\ \A i \in 1..Len(args) : i # arg_dest => argv'[i] = argv[i]
  <2>1. argv[arg_it] \in Arg
    BY <1>2, <1>3, ElementOfSeq
  <2> QED
    BY <1>1, <1>2, <1>3, <2>1, ExceptSeq
<1>6. /\ arg_it' - 1 = n + 1 /\ arg_dest' - 1 = m + 1 /\ n + 1 = arg_it /\ m + 1 = arg_dest
      /\ n \in Nat /\ m \in Nat /\ m <= n
  <2>1. /\ arg_it \in 1..Len(args) /\ arg_dest \in 1..arg_it /\ Len(args) \in Nat
        /\ arg_it' = arg_it + 1 /\ arg_dest' = arg_dest + 1
        /\ n = arg_it - 1 /\ m = arg_dest - 1
    BY <1>0, <1>1, <1>3
  <2> QED
    BY ONLY <2>1
<1>7. KeptInOrder(n + 1, m + 1)'
  <2>1. PICK origin \in [1..m -> (1..n) \ Setup!Taken] :
          /\ \A i, j \in 1..m : i < j => origin[i] < origin[j]
          /\ \A k \in (1..n) \ Setup!Taken : \E i \in 1..m : origin[i] = k
          /\ \A i \in 1..m : argv[i] = args[origin[i]]
    BY <1>2 DEF Reading, KeptInOrder, Kept
  <2> DEFINE next_ == [i \in 1..(m + 1) |-> IF i = m + 1 THEN n + 1 ELSE origin[i]]
  <2>2. \A i \in 1..(m + 1) : i # m + 1 => i \in 1..m /\ origin[i] \in (1..n) \ Setup!Taken
    BY <1>6
  <2>3. next_ \in [1..(m + 1) -> (1..(n + 1)) \ Setup!Taken]
    BY <1>3, <1>6, <2>2
  <2>4. \A i, j \in 1..(m + 1) : i < j => next_[i] < next_[j]
    BY <1>6, <2>1, <2>2
  <2>5. \A k \in (1..(n + 1)) \ Setup!Taken : \E i \in 1..(m + 1) : next_[i] = k
    <3> SUFFICES ASSUME NEW k \in (1..(n + 1)) \ Setup!Taken
                 PROVE  \E i \in 1..(m + 1) : next_[i] = k
      OBVIOUS
    <3>1. CASE k = n + 1
      BY <1>6, <3>1
    <3>2. CASE k # n + 1
      <4>1. k \in (1..n) \ Setup!Taken
        BY <1>6, <3>2
      <4>2. PICK i \in 1..m : origin[i] = k
        BY <2>1, <4>1
      <4> QED
        BY <1>6, <4>2
    <3> QED
      BY <3>1, <3>2
  <2>6. \A i \in 1..(m + 1) : argv'[i] = args[next_[i]]
    BY <1>3, <1>5, <1>6, <2>1, <2>2
  <2> HIDE DEF next_
  <2>7. Kept(n + 1, m + 1, Setup!Taken, args, argv')
    BY <2>3, <2>4, <2>5, <2>6 DEF Kept
  <2> QED
    BY <1>1, <1>4, <2>7 DEF KeptInOrder
<1>8. LevelIsSet(n + 1)'
  <2> SUFFICES ASSUME NEW k \in Setup!Taken, k <= n + 1,
                      \A j \in Setup!Taken : j <= n + 1 => j <= k
               PROVE  Setup!Level(args[k].text) = {g_stderr_verbosity}
    BY <1>1, <1>4 DEF LevelIsSet
  <2>1. k \in Nat /\ \A j \in Setup!Taken : j \in Nat
    BY <1>2, TakenIsInside
  <2>2. k <= n /\ \A j \in Setup!Taken : j <= n => j <= k
    BY <1>3, <1>6, <2>1
  <2> QED
    BY <1>2, <2>2 DEF Reading, LevelIsSet
<1>9. Reading(n + 1, m + 1)'
  <2>1. /\ out_argc = m + Len(args) - n
        /\ \A i \in (n + 1)..Len(args) : argv[i] = args[i]
    BY <1>2 DEF Reading
  <2>2. \A i \in (n + 2)..Len(args) : argv'[i] = args[i]
    BY <1>3, <1>5, <1>6, <2>1
  <2>3. ASSUME n + 1 < Len(args)
        PROVE  n + 2 \in Setup!Taken <=> args[n + 2].flag
    <3>1. n + 2 \in 1..Len(args) /\ n + 2 > 1 /\ (n + 2) - 1 = arg_it
      BY <1>3, <1>6, <2>3
    <3> QED
      BY <1>1, <1>2, <1>3, <3>1, TakenAt
  <2>4. n + 1 \in 0..Len(args) /\ m + 1 \in 0..(n + 1) /\ (n + 1) + 1 = n + 2
        /\ out_argc' = (m + 1) + Len(args) - (n + 1)
    <3>1. /\ n \in Nat /\ m \in Nat /\ m <= n /\ n + 1 = arg_it /\ Len(args) \in Nat
          /\ arg_it \in 1..Len(args) /\ out_argc' = m + Len(args) - n
      BY <1>1, <1>3, <1>6, <2>1
    <3> QED
      BY ONLY <3>1
  <2>5. /\ n + 1 \in 0..Len(args') /\ m + 1 \in 0..(n + 1)
        /\ Len(argv') = Len(args')
        /\ out_argc' = (m + 1) + Len(args') - (n + 1)
    BY <1>1, <1>3, <1>5, <2>4
  <2>6. \A i \in ((n + 1) + 1)..Len(args') : argv'[i] = args'[i]
    BY <1>1, <2>2, <2>4
  <2>7. n + 1 < Len(args') => ((n + 1) + 1 \in Setup!Taken' <=> args'[(n + 1) + 1].flag)
    BY <1>1, <1>4, <2>3, <2>4
  <2> QED
    BY ONLY <1>7, <1>8, <2>5, <2>6, <2>7 DEF Reading
<1>10. arg_it' \in Nat /\ arg_dest' \in Nat /\ arg_dest' <= arg_it' /\ out_argc' \in Int
  BY <1>1, <1>2
<1>11. Reading(arg_it - 1, arg_dest - 1)'
  BY ONLY <1>6, <1>9
<1> QED
  BY <1>1, <1>2, <1>5, <1>10, <1>11 DEF ArgumentsOK

(* When all arguments are read, those that stayed are the first ones of    *)
(* argv.                                                                   *)
LEMMA initKeeps ==
  ASSUME ArgumentsOK, Setup!init
  PROVE  ArgumentsOK'
<1>1. /\ stage = "parse_args" /\ stage' = "create_directories" /\ arg_it > Len(argv)
      /\ argv' = SubSeq(argv, 1, out_argc)
      /\ args' = args /\ arg_it' = arg_it /\ arg_dest' = arg_dest /\ out_argc' = out_argc
      /\ g_stderr_verbosity' = g_stderr_verbosity
  BY DEF Setup!init
<1>2. /\ args \in Seq(Arg) /\ argv \in Seq(Arg) /\ arg_it \in Nat /\ arg_dest \in Nat
      /\ arg_dest <= arg_it /\ Len(args) \in Nat
      /\ Reading(arg_it - 1, arg_dest - 1)
  BY <1>1, LenProperties DEF ArgumentsOK
<1>3. /\ arg_it - 1 = Len(args) /\ out_argc = arg_dest - 1 /\ Len(argv) = Len(args)
      /\ out_argc \in 0..Len(args)
      /\ KeptInOrder(Len(args), out_argc) /\ LevelIsSet(Len(args))
  <2>1. /\ arg_it - 1 \in 0..Len(args) /\ arg_dest - 1 \in 0..(arg_it - 1)
        /\ Len(argv) = Len(args)
        /\ out_argc = (arg_dest - 1) + Len(args) - (arg_it - 1)
        /\ KeptInOrder(arg_it - 1, arg_dest - 1) /\ LevelIsSet(arg_it - 1)
    BY <1>2 DEF Reading
  <2>2. arg_it - 1 = Len(args)
    <3>1. arg_it > Len(args) /\ arg_it \in Nat /\ Len(args) \in Nat
      BY <1>1, <1>2, <2>1
    <3> QED
      BY ONLY <2>1, <3>1
  <2>3. out_argc = arg_dest - 1 /\ out_argc \in 0..Len(args)
    BY ONLY <1>2, <2>1, <2>2
  <2> QED
    BY <2>1, <2>2, <2>3
<1>4. /\ argv' \in Seq(Arg) /\ Len(argv') = out_argc
      /\ \A i \in 1..out_argc : argv'[i] = argv[i]
  <2>1. \A i \in 1..out_argc : argv[i] \in Arg
    BY <1>2, <1>3, ElementOfSeq
  <2>2. /\ SubSeq(argv, 1, out_argc) \in Seq(Arg)
        /\ Len(SubSeq(argv, 1, out_argc)) = IF 1 <= out_argc THEN out_argc - 1 + 1 ELSE 0
        /\ \A i \in 1..(out_argc - 1 + 1) :
             SubSeq(argv, 1, out_argc)[i] = argv[1 + i - 1]
    BY <1>2, <1>3, <2>1, SubSeqProperties
  <2> QED
    BY <1>1, <1>3, <2>2
<1>5. Setup!Taken' = Setup!Taken
  BY <1>1 DEF Setup!Taken
<1>6. KeptInOrder(Len(args), Len(argv))'
  <2>1. PICK origin \in [1..out_argc -> (1..Len(args)) \ Setup!Taken] :
          /\ \A i, j \in 1..out_argc : i < j => origin[i] < origin[j]
          /\ \A k \in (1..Len(args)) \ Setup!Taken : \E i \in 1..out_argc : origin[i] = k
          /\ \A i \in 1..out_argc : argv[i] = args[origin[i]]
    BY <1>3 DEF KeptInOrder, Kept
  <2>2. \A i \in 1..out_argc : argv'[i] = args[origin[i]]
    BY <1>4, <2>1
  <2>3. Kept(Len(args), out_argc, Setup!Taken, args, argv')
    BY <2>1, <2>2 DEF Kept
  <2> QED
    BY <1>1, <1>4, <1>5, <2>3 DEF KeptInOrder
<1>7. LevelIsSet(Len(args))'
  BY <1>1, <1>3, <1>5 DEF LevelIsSet
<1> QED
  BY <1>1, <1>2, <1>3, <1>4, <1>6, <1>7 DEF ArgumentsOK

(* Whatever leaves the arguments and the level alone keeps what is known.  *)
LEMMA OthersKeep ==
  ASSUME ArgumentsOK, UNCHANGED <<args, argv, arg_it, arg_dest, out_argc>>,
         \/ stage' = stage /\ UNCHANGED g_stderr_verbosity
         \/ /\ stage \in {"create_directories", "open"}
            /\ stage' \in {"open", "set_verbosity"} /\ UNCHANGED g_stderr_verbosity
         \/ stage = "set_verbosity" /\ stage' = "ready"
  PROVE  ArgumentsOK'
<1>1. Setup!Taken' = Setup!Taken
  BY DEF Setup!Taken
<1>2. ASSUME stage \notin {"parse_args", "aborted"}
      PROVE  /\ out_argc' \in 0..Len(args')
             /\ KeptInOrder(Len(args), Len(argv))'
  BY <1>1, <1>2 DEF ArgumentsOK, KeptInOrder
<1>3. ASSUME stage \in {"create_directories", "open", "set_verbosity"},
             UNCHANGED g_stderr_verbosity
      PROVE  LevelIsSet(Len(args))'
  BY <1>1, <1>3 DEF ArgumentsOK, LevelIsSet
<1>4. ASSUME stage = "parse_args", UNCHANGED g_stderr_verbosity
      PROVE  Reading(arg_it - 1, arg_dest - 1)'
  <2>1. Reading(arg_it - 1, arg_dest - 1)
    BY <1>4 DEF ArgumentsOK
  <2>2. KeptInOrder(arg_it - 1, arg_dest - 1)' /\ LevelIsSet(arg_it - 1)'
    BY <1>1, <1>4, <2>1 DEF Reading, KeptInOrder, LevelIsSet
  <2> QED
    BY <1>1, <2>1, <2>2 DEF Reading
<1>5. /\ args' \in Seq(Arg) /\ argv' \in Seq(Arg)
      /\ arg_it' \in Nat /\ arg_dest' \in Nat /\ arg_dest' <= arg_it'
      /\ out_argc' \in Int
  BY DEF ArgumentsOK
<1> QED
  BY <1>2, <1>3, <1>4, <1>5 DEF ArgumentsOK

LEMMA ArgumentsFirst == Setup!Init => ArgumentsOK
<1> SUFFICES ASSUME Setup!Init
             PROVE  ArgumentsOK
  OBVIOUS
<1>1. /\ args \in Seq(Arg) /\ argv = args /\ arg_it = 1 /\ arg_dest = 1
      /\ out_argc = Len(args) /\ stage = "parse_args" /\ Len(args) \in Nat
  BY ProgramAssumption, LenProperties DEF Setup!Init, Arg
<1>2. Setup!Taken \subseteq 1..Len(args)
  BY <1>1, TakenIsInside
<1>3. Kept(0, 0, Setup!Taken, args, argv)
  <2> DEFINE nothing == [i \in 1..0 |-> i]
  <2>1. nothing \in [1..0 -> (1..0) \ Setup!Taken]
    OBVIOUS
  <2>2. 1..0 = {}
    OBVIOUS
  <2> HIDE DEF nothing
  <2> QED
    BY <2>1, <2>2 DEF Kept
<1>4. LevelIsSet(0)
  BY <1>2 DEF LevelIsSet
<1>5. 1 <= Len(args) => (1 \in Setup!Taken <=> args[1].flag)
  <2> SUFFICES ASSUME 1 <= Len(args)
               PROVE  1 \in Setup!Taken <=> args[1].flag
    OBVIOUS
  <2>1. 1 \in 1..Len(args) /\ ~(1 > 1)
    BY <1>1
  <2> QED
    BY <1>1, <2>1, TakenAt
<1>6. Reading(0, 0)
  BY <1>1, <1>3, <1>4, <1>5 DEF Reading, KeptInOrder
<1>7. arg_it - 1 = 0 /\ arg_dest - 1 = 0
  BY <1>1
<1> QED
  BY <1>1, <1>6, <1>7 DEF ArgumentsOK

-----------------------------------------------------------------------------
(* add_file and loggerInit                                                 *)

USE DEF Setup!Verbosity_OFF, Setup!Verbosity_FATAL, Setup!Verbosity_INFO,
        Setup!Verbosity_1, Setup!Verbosity_MAX, Setup!Verbosities

LEMMA HighestOfOne == Setup!HighestOf(<<9>>) = 9
<1>1. ToSet(<<9>>) = {9}
  BY DEF ToSet
<1>2. {-9} \cup ToSet(<<9>>) = {-9, 9}
  BY <1>1
<1>3. Max({-9, 9}) = 9
  BY DEF Max
<1>4. Setup!HighestOf(<<9>>) = Setup!Max({-9} \cup Setup!ToSet(<<9>>))
  BY DEF Setup!HighestOf
<1>5. Setup!ToSet(<<9>>) = ToSet(<<9>>) /\ Setup!Max({-9, 9}) = Max({-9, 9})
  BY DEF Setup!ToSet, ToSet, Setup!Max, Max
<1> QED
  BY <1>2, <1>3, <1>4, <1>5

LEMMA SinksFirst == Setup!Init => SinksOK
  BY ProgramAssumption DEF Setup!Init, SinksOK

(* What a step of the set-up does to the stage, the level and the sinks.   *)
LEMMA SetupStep ==
  ASSUME SetupInv, Setup!Next
  PROVE  SetupInv'
<1> USE DEF SetupInv
<1>1. CASE Setup!parseFlag
  <2>1. g_stderr_verbosity' \in {-9} \cup Setup!Verbosities
    <3>1. CASE Setup!LevelAt(arg_it) = {}
      BY <1>1, <3>1 DEF Setup!parseFlag, SinksOK
    <3>2. CASE Setup!LevelAt(arg_it) # {}
      <4>1. PICK text : Setup!LevelAt(arg_it) = Setup!Level(text)
        BY <3>2 DEF Setup!LevelAt
      <4>2. g_stderr_verbosity' \in Setup!Level(text)
        BY <1>1, <3>2, <4>1 DEF Setup!parseFlag
      <4> QED
        BY <4>2, OneLevel
    <3> QED
      BY <3>1, <3>2
  <2>2. stage = "parse_args" /\ stage' \in {"parse_args", "aborted"}
        /\ UNCHANGED <<log_to_console, callbacks, s_max_out_verbosity, left>>
    BY <1>1 DEF Setup!parseFlag
  <2>3. SinksOK'
    BY <2>1, <2>2 DEF SinksOK
  <2> QED
    BY <1>1, <2>3, parseFlagKeeps
<1>2. CASE Setup!keepArg
  <2>1. SinksOK'
    BY <1>2 DEF Setup!keepArg, SinksOK
  <2> QED
    BY <1>2, <2>1, keepArgKeeps
<1>3. CASE Setup!init
  <2>1. SinksOK'
    BY <1>3 DEF Setup!init, SinksOK
  <2> QED
    BY <1>3, <2>1, initKeeps
<1>4. CASE Setup!create_directories
  <2>1. SinksOK'
    BY <1>4, ProgramAssumption DEF Setup!create_directories, SinksOK
  <2>2. ArgumentsOK'
    BY <1>4, OthersKeep DEF Setup!create_directories
  <2> QED
    BY <2>1, <2>2
<1>5. CASE Setup!directoriesExist
  <2>1. SinksOK'
    BY <1>5 DEF Setup!directoriesExist, SinksOK
  <2>2. ArgumentsOK'
    BY <1>5, OthersKeep DEF Setup!directoriesExist
  <2> QED
    BY <2>1, <2>2
<1>6. CASE Setup!openFails
  <2>1. SinksOK'
    BY <1>6 DEF Setup!openFails, SinksOK
  <2>2. ArgumentsOK'
    BY <1>6, OthersKeep DEF Setup!openFails
  <2> QED
    BY <2>1, <2>2
<1>7. CASE Setup!add_file
  <2>1. /\ stage = "open" /\ stage' = "set_verbosity"
        /\ callbacks' = Append(callbacks, 9) /\ s_max_out_verbosity' = Setup!HighestOf(callbacks')
        /\ UNCHANGED <<args, log_to_console, argv, arg_it, arg_dest, out_argc,
                       g_stderr_verbosity, left>>
    BY <1>7 DEF Setup!add_file, Setup!add_callback
  <2>2. callbacks' = <<9>>
    BY <2>1 DEF SinksOK
  <2>3. s_max_out_verbosity' = 9
    BY <2>1, <2>2, HighestOfOne
  <2>4. SinksOK'
    BY <2>1, <2>2, <2>3 DEF SinksOK
  <2>5. ArgumentsOK'
    BY <2>1, OthersKeep
  <2> QED
    BY <2>4, <2>5
<1>8. CASE Setup!loggerInit
  <2>1. SinksOK'
    BY <1>8 DEF Setup!loggerInit, SinksOK
  <2>2. ArgumentsOK'
    BY <1>8, OthersKeep DEF Setup!loggerInit
  <2> QED
    BY <2>1, <2>2
<1> QED
  BY <1>1, <1>2, <1>3, <1>4, <1>5, <1>6, <1>7, <1>8 DEF Setup!Next

(* How the log is set up is an invariant of both programs: the prompt that *)
(* follows touches none of it.                                             *)
THEOREM SetupIsCorrect == ProgramSpec => []SetupInv
<1>1. ProgramInit => SetupInv
  BY ArgumentsFirst, SinksFirst DEF ProgramInit, SetupInv
<1>2. SetupInv /\ [main]_programVars => SetupInv'
  <2> SUFFICES ASSUME SetupInv, [main]_programVars
               PROVE  SetupInv'
    OBVIOUS
  <2>1. CASE Setup!Next
    BY <2>1, SetupStep
  <2>2. CASE UNCHANGED setupVars
    <3>1. ArgumentsOK'
      BY <2>2, OthersKeep DEF setupVars, SetupInv
    <3>2. SinksOK'
      BY <2>2 DEF setupVars, SetupInv, SinksOK
    <3> QED
      BY <3>1, <3>2 DEF SetupInv
  <2> QED
    BY <2>1, <2>2 DEF main, programVars
<1> QED
  BY <1>1, <1>2, PTL DEF ProgramSpec

(* CutoffIsExact: at any time LOG_S evaluates a message exactly if a sink  *)
(* takes it, whatever the command line was.                                *)
THEOREM CutoffIsAlwaysExact == ProgramSpec => []CutoffIsExact
<1>1. SinksOK => CutoffIsExact
  <2> SUFFICES ASSUME SinksOK, NEW v \in Setup!Verbosities
               PROVE  v <= Setup!current_verbosity_cutoff <=> Setup!Sinks(v) # {}
    BY DEF CutoffIsExact, Setup!CutoffIsExact
  <2>1. CASE callbacks = << >>
    <3>1. Setup!Sinks(v) # {} <=> v <= g_stderr_verbosity
      BY <2>1 DEF Setup!Sinks
    <3>2. s_max_out_verbosity = -9 /\ g_stderr_verbosity \in {-9} \cup Setup!Verbosities
      BY <2>1 DEF SinksOK
    <3> QED
      BY <3>1, <3>2 DEF Setup!current_verbosity_cutoff
  <2>2. CASE callbacks = <<9>>
    <3>1. "file" \in Setup!Sinks(v)
      BY <2>2 DEF Setup!Sinks
    <3>2. s_max_out_verbosity = 9 /\ g_stderr_verbosity \in {-9} \cup Setup!Verbosities
      BY <2>2 DEF SinksOK
    <3>3. v <= Setup!current_verbosity_cutoff
      BY <3>2 DEF Setup!current_verbosity_cutoff
    <3> QED
      BY <3>1, <3>3
  <2> QED
    BY <2>1, <2>2 DEF SinksOK
<1> QED
  BY <1>1, SetupIsCorrect, PTL DEF SetupInv

(* CommandLineIsRead: init() takes the arguments that are meant for it,    *)
(* leaves all others in their order, and sets the last level that is       *)
(* given, for a command line of any length.                                *)
THEOREM CommandLineIsAlwaysRead == ProgramSpec => []CommandLineIsRead
<1>1. ArgumentsOK => Setup!OthersStay
  <2> SUFFICES ASSUME ArgumentsOK, stage \notin {"parse_args", "aborted"}
               PROVE  \E origin \in [DOMAIN argv -> DOMAIN args \ Setup!Taken] :
                        /\ \A i, j \in DOMAIN argv : i < j => origin[i] < origin[j]
                        /\ \A k \in DOMAIN args \ Setup!Taken :
                             \E i \in DOMAIN argv : origin[i] = k
                        /\ \A i \in DOMAIN argv : argv[i] = args[origin[i]]
    BY DEF Setup!OthersStay
  <2>1. DOMAIN argv = 1..Len(argv) /\ DOMAIN args = 1..Len(args)
    BY LenProperties DEF ArgumentsOK
  <2>2. Kept(Len(args), Len(argv), Setup!Taken, args, argv)
    BY DEF ArgumentsOK, KeptInOrder
  <2> DEFINE A == 1..Len(argv)
             C == (1..Len(args)) \ Setup!Taken
  <2>3. \E origin \in [A -> C] :
          /\ \A i, j \in A : i < j => origin[i] < origin[j]
          /\ \A k \in C : \E i \in A : origin[i] = k
          /\ \A i \in A : argv[i] = args[origin[i]]
    BY ONLY <2>2 DEF Kept
  <2>4. DOMAIN argv = A /\ DOMAIN args \ Setup!Taken = C
    BY <2>1
  <2> HIDE DEF A, C
  <2> QED
    BY ONLY <2>3, <2>4
<1>2. ArgumentsOK => Setup!FlagIsHonoured
  <2> SUFFICES ASSUME ArgumentsOK, stage \in {"create_directories", "open", "set_verbosity"},
                      Setup!Taken # {}
               PROVE  Setup!Level(args[Max(Setup!Taken)].text) = {g_stderr_verbosity}
    BY DEF Setup!FlagIsHonoured, Setup!Max, Max
  <2>1. Setup!Taken \subseteq 1..Len(args) /\ Len(args) \in Nat
    BY TakenIsInside DEF ArgumentsOK
  <2>2. Setup!Taken \in SUBSET (0..Len(args))
    BY <2>1
  <2>3. /\ Max(Setup!Taken) \in Setup!Taken
        /\ \A j \in Setup!Taken : j <= Max(Setup!Taken)
    BY <2>1, <2>2, MaxInSet
  <2>4. LevelIsSet(Len(args))
    BY DEF ArgumentsOK
  <2> QED
    <3>1. PICK k \in Setup!Taken : k = Max(Setup!Taken)
      BY <2>3
    <3>2. k <= Len(args) /\ \A j \in Setup!Taken : j <= Len(args) => j <= k
      BY <2>1, <2>3, <3>1
    <3> QED
      BY <2>4, <3>1, <3>2 DEF LevelIsSet
<1> QED
  BY <1>1, <1>2, SetupIsCorrect, PTL DEF SetupInv, CommandLineIsRead

-----------------------------------------------------------------------------
(* What show() writes                                                      *)

(* Whatever the number, its text is made of digits.                        *)
LEMMA DecimalDigits ==
  ASSUME NEW n \in Nat
  PROVE  Decimal(n) \in Seq(Digits)
<1> DEFINE S == {k \in 1..9 : n < 10^k} \cup {10}
           length == Min(S)
           text == [i \in 1..length |-> 48 + ((n \div 10^(length - i)) % 10)]
<1>1. Decimal(n) = text
  BY DEF Decimal
<1>2. S \in SUBSET (1..10) /\ S \in SUBSET Nat /\ S # {}
  OBVIOUS
<1>3. length \in S
  BY <1>2, MinInSet
<1>4. length \in 1..10
  BY <1>2, <1>3
<1> HIDE DEF S, length
<1>5. \A i \in 1..length : length - i \in 0..9
  BY <1>4
<1>6. \A i \in 1..length : 48 + ((n \div 10^(length - i)) % 10) \in Digits
  <2> SUFFICES ASSUME NEW i \in 1..length
               PROVE  48 + ((n \div 10^(length - i)) % 10) \in Digits
    OBVIOUS
  <2>1. (n \div 10^(length - i)) % 10 \in 0..9
    BY <1>5, OneMoreDigit
  <2> QED
    BY <2>1 DEF Digits
<1>7. text \in [1..length -> Digits] /\ length \in Nat
  BY <1>4, <1>6
<1> HIDE DEF text
<1> QED
  BY <1>1, <1>7, FunctionIsSeq

(* Texts are concatenated to a text.                                       *)
LEMMA TextConcat ==
  ASSUME NEW S, NEW a \in Seq(S), NEW b \in Seq(S)
  PROVE  a \o b \in Seq(S) /\ Len(a \o b) = Len(a) + Len(b)
BY ConcatProperties

(* The values of a tuple are texts of character codes.                     *)
LEMMA ValueTextIsText ==
  ASSUME NEW n \in Nat
  PROVE  IntText(n) \in Seq(Nat) /\ DoubleText(n) \in Seq(Nat)
<1> DEFINE hi == ((Abs(n) + 5) \div 10) \div 10^6
           lo == ((Abs(n) + 5) \div 10) % 10^6
           f == Decimal(lo)
           P == Padding(6 - Len(f))
           A == Decimal(hi)
<1>1. Abs(n) = n /\ Sign(n) = << >>
  BY DEF Abs, Sign
<1>2. hi \in Nat /\ lo \in Nat /\ lo < 10^6
  BY <1>1, PowersOfTen, SMT
<1> HIDE DEF hi, lo
<1>3. \A s \in Seq(Digits) : s \in Seq(Nat)
  <2>1. Digits \subseteq Nat
    BY DEF Digits
  <2> QED
    BY <2>1, SeqMonotonic
<1>4. f \in Seq(Nat) /\ P \in Seq(Nat) /\ A \in Seq(Nat)
  <2>1. f \in Seq(Digits) /\ P \in Seq(Digits)
    <3>1. f \in Seq(Digits) /\ 6 - Len(f) \in Nat
      BY <1>2, SixDecimals
    <3> QED
      BY <3>1, LeadingZeros
  <2>2. A \in Seq(Digits)
    BY <1>2, DecimalDigits
  <2> QED
    BY <1>3, <2>1, <2>2
<1>5. DoubleText(n) = << >> \o A \o <<Dot>> \o P \o f
  BY <1>1, Zenon DEF DoubleText, hi, lo, f, P, A
<1> HIDE DEF A, P, f
<1> DEFINE empty == << >>
           dot == <<Dot>>
<1>6. empty \in Seq(Nat) /\ dot \in Seq(Nat)
  BY DEF Dot
<1> HIDE DEF empty, dot
<1>7. empty \o A \o dot \o P \o f \in Seq(Nat)
  <2>1. empty \o A \in Seq(Nat)
    BY <1>4, <1>6, TextConcat
  <2>2. empty \o A \o dot \in Seq(Nat)
    BY <1>6, <2>1, TextConcat
  <2>3. empty \o A \o dot \o P \in Seq(Nat)
    BY <1>4, <2>2, TextConcat
  <2> QED
    BY <1>4, <2>3, TextConcat
<1>8. IntText(n) \in Seq(Nat)
  <2>1. IntText(n) = empty \o Decimal(n)
    BY <1>1 DEF IntText, empty
  <2>2. Decimal(n) \in Seq(Nat)
    BY <1>3, DecimalDigits
  <2> QED
    BY <1>6, <2>1, <2>2, TextConcat
<1> QED
  BY <1>5, <1>7, <1>8 DEF empty, dot

(* The recursion of FlattenSeq has a solution.                             *)
LEMMA FlattenExists ==
  ASSUME NEW seqs, NEW n \in Nat
  PROVE  \E flatten : flatten = [i \in 1..n |-> IF i = 1 THEN seqs[i]
                                                ELSE flatten[i - 1] \o seqs[i]]
<1> DEFINE Solves(m, g) == g = [i \in 1..m |-> IF i = 1 THEN seqs[i]
                                             ELSE g[i - 1] \o seqs[i]]
           Missing == {m \in Nat : ~\E g : Solves(m, g)}
<1>1. SUFFICES ASSUME Missing # {}
               PROVE  FALSE
  OBVIOUS
<1>2. PICK m \in Missing : \A x \in Missing : m <= x
  BY <1>1, LeastElement
<1>3. m # 0
  <2>1. Solves(0, [i \in 1..0 |-> 0])
    OBVIOUS
  <2> QED
    BY <2>1
<1>4. m - 1 \in Nat /\ m - 1 \notin Missing
  <2>1. m \in Nat
    OBVIOUS
  <2>2. m - 1 \in Nat /\ ~(m <= m - 1)
    BY <1>3, <2>1
  <2> HIDE DEF Missing
  <2> QED
    BY <1>2, <2>2
<1>5. PICK g : Solves(m - 1, g)
  BY <1>4
<1> DEFINE last == IF m = 1 THEN seqs[m] ELSE g[m - 1] \o seqs[m]
           h == [i \in 1..m |-> IF i = m THEN last ELSE g[i]]
<1>6. Solves(m, h)
  <2>1. ASSUME NEW i \in 1..m
        PROVE  h[i] = IF i = 1 THEN seqs[i] ELSE h[i - 1] \o seqs[i]
    <3>1. CASE i = m
      <4>1. i # 1 => i - 1 \in 1..m /\ i - 1 # m
        BY <1>3, <3>1
      <4> QED
        BY <3>1, <4>1
    <3>2. CASE i # m
      <4>1. i \in 1..(m - 1) /\ h[i] = g[i]
        BY <3>2
      <4>2. i # 1 => i - 1 \in 1..m /\ i - 1 # m
        BY <4>1
      <4>3. g[i] = IF i = 1 THEN seqs[i] ELSE g[i - 1] \o seqs[i]
        BY <1>5, <4>1
      <4> QED
        BY <4>1, <4>2, <4>3
    <3> QED
      BY <3>1, <3>2
  <2>2. h = [i \in 1..m |-> h[i]]
    OBVIOUS
  <2> HIDE DEF h
  <2> QED
    BY <2>1, <2>2
<1> QED
  BY <1>2, <1>6

(* So are any number of texts.                                             *)
LEMMA FlattenIsText ==
  ASSUME NEW seqs \in Seq(Seq(Nat))
  PROVE  FlattenSeq(seqs) \in Seq(Nat)
<1> DEFINE L == Len(seqs)
           flatten == CHOOSE g : g = [i \in 1..L |-> IF i = 1 THEN seqs[i]
                                                    ELSE g[i - 1] \o seqs[i]]
<1>1. L \in Nat /\ \A i \in 1..L : seqs[i] \in Seq(Nat)
  BY LenProperties, ElementOfSeq
<1>2. CASE L = 0
  <2>1. FlattenSeq(seqs) = seqs /\ seqs = << >>
    BY <1>2, EmptySeq DEF FlattenSeq
  <2> QED
    BY <2>1, EmptySeq
<1>3. CASE L # 0
  <2>1. FlattenSeq(seqs) = flatten[L]
    BY <1>3 DEF FlattenSeq
  <2> HIDE DEF L
  <2>2. flatten = [i \in 1..L |-> IF i = 1 THEN seqs[i] ELSE flatten[i - 1] \o seqs[i]]
    BY <1>1, FlattenExists
  <2> HIDE DEF flatten
  <2>3. \A i \in 1..L : flatten[i] = IF i = 1 THEN seqs[i] ELSE flatten[i - 1] \o seqs[i]
    BY <2>2
  <2> DEFINE Wrong == {i \in 1..L : flatten[i] \notin Seq(Nat)}
  <2>4. Wrong = {}
    <3>1. SUFFICES ASSUME Wrong # {}
                   PROVE  FALSE
      OBVIOUS
    <3>2. PICK k \in Wrong : \A x \in Wrong : k <= x
      <4>1. Wrong \in SUBSET Nat
        BY <1>1
      <4> HIDE DEF Wrong
      <4> QED
        BY <3>1, <4>1, LeastElement
    <3>3. k \in 1..L /\ seqs[k] \in Seq(Nat) /\ flatten[k] \notin Seq(Nat)
      BY <1>1
    <3>4. k # 1
      BY <2>3, <3>3
    <3>5. k - 1 \in 1..L /\ ~(k <= k - 1)
      BY <1>1, <3>3, <3>4
    <3>6. flatten[k - 1] \in Seq(Nat)
      BY <3>2, <3>5
    <3>7. flatten[k] = flatten[k - 1] \o seqs[k]
      BY <2>3, <3>3, <3>4
    <3>8. flatten[k - 1] \o seqs[k] \in Seq(Nat)
      BY <3>3, <3>6, TextConcat
    <3> QED
      BY <3>3, <3>7, <3>8
  <2>5. L \in 1..L
    BY <1>1, <1>3
  <2> QED
    BY <2>1, <2>4, <2>5
<1> QED
  BY <1>2, <1>3

(* A tuple is shown as a line that can be typed.                           *)
LEMMA ShownIsText ==
  ASSUME NEW tuple \in Seq(TupleValue)
  PROVE  show(tuple) \in Seq(Nat)
<1>1. \A e \in TupleValue : ElemText(e) \in Seq(Nat)
  <2> SUFFICES ASSUME NEW e \in TupleValue
               PROVE  ElemText(e) \in Seq(Nat)
    OBVIOUS
  <2>1. CASE e \in [elem_type : {ELEM_STRING}, value : Seq(Nat)]
    <3> DEFINE v == e.value
               quote == <<Quote>>
    <3>1. ElemText(e) = quote \o v \o quote
      BY <2>1 DEF ElemText
    <3>2. v \in Seq(Nat) /\ quote \in Seq(Nat)
      BY <2>1 DEF Quote
    <3> HIDE DEF v, quote
    <3>3. quote \o v \in Seq(Nat)
      BY <3>2, TextConcat
    <3>4. quote \o v \o quote \in Seq(Nat)
      BY <3>2, <3>3, TextConcat
    <3> QED
      BY <3>1, <3>4
  <2>2. CASE e \in [elem_type : {ELEM_INT}, value : 0..INT_MAX]
    <3>1. ElemText(e) = ValueText(ELEM_INT, e.value)
      BY <2>2 DEF ElemText, ELEM_INT, ELEM_STRING
    <3>2. ValueText(ELEM_INT, e.value) = IntText(e.value)
      BY DEF ValueText, ELEM_INT, ELEM_FLOAT, ELEM_STRING
    <3>3. e.value \in Nat
      BY <2>2, IntAssumption
    <3> QED
      BY <3>1, <3>2, <3>3, ValueTextIsText
  <2>3. CASE e \in [elem_type : {ELEM_FLOAT}, value : Nat]
    <3>1. ElemText(e) = ValueText(ELEM_FLOAT, e.value)
      BY <2>3 DEF ElemText, ELEM_FLOAT, ELEM_STRING
    <3>2. ValueText(ELEM_FLOAT, e.value) = DoubleText(e.value)
      BY DEF ValueText, ELEM_INT, ELEM_FLOAT, ELEM_STRING
    <3>3. e.value \in Nat
      BY <2>3
    <3> QED
      BY <3>1, <3>2, <3>3, ValueTextIsText
  <2> QED
    BY <2>1, <2>2, <2>3 DEF TupleValue
<1> DEFINE sep == <<Blank, Comma, Blank>>
           texts == [i \in DOMAIN tuple |-> ElemText(tuple[i]) \o sep]
           start == <<Open, Blank>>
           shown == start \o FlattenSeq(texts)
           close == <<Close>>
<1>2. sep \in Seq(Nat) /\ start \in Seq(Nat) /\ close \in Seq(Nat) /\ Len(start) = 2
  BY DEF Blank, Comma, Open, Close
<1>3. show(tuple) = SubSeq(shown, 1, Len(shown) - 2) \o close
  BY DEF show
<1> HIDE DEF sep, start, close
<1>4. texts \in Seq(Seq(Nat))
  <2>1. Len(tuple) \in Nat /\ DOMAIN tuple = 1..Len(tuple)
    BY LenProperties
  <2>2. ASSUME NEW i \in 1..Len(tuple)
        PROVE  ElemText(tuple[i]) \o sep \in Seq(Nat)
    <3>1. tuple[i] \in TupleValue
      BY <2>2, ElementOfSeq
    <3>2. ElemText(tuple[i]) \in Seq(Nat)
      BY <1>1, <3>1
    <3> QED
      BY <1>2, <3>2, TextConcat
  <2>3. texts \in [1..Len(tuple) -> Seq(Nat)]
    BY <2>1, <2>2
  <2> HIDE DEF texts
  <2> QED
    BY <2>1, <2>3, FunctionIsSeq
<1> HIDE DEF texts
<1> DEFINE flat == FlattenSeq(texts)
<1>5. flat \in Seq(Nat) /\ Len(flat) \in Nat
  <2>1. flat \in Seq(Nat)
    BY <1>4, FlattenIsText
  <2> QED
    BY <2>1, LenProperties
<1> HIDE DEF flat
<1>6. start \o flat \in Seq(Nat) /\ Len(start \o flat) = Len(start) + Len(flat)
  BY <1>2, <1>5, TextConcat
<1>7. shown \in Seq(Nat) /\ Len(shown) - 2 \in Nat
  BY <1>2, <1>5, <1>6 DEF flat
<1> HIDE DEF shown
<1>8. SubSeq(shown, 1, Len(shown) - 2) \in Seq(Nat)
  BY <1>7, LengthOfSubSeq
<1> QED
  BY <1>2, <1>3, <1>8, TextConcat

-----------------------------------------------------------------------------
(* The parser                                                              *)

(* Where the parser goes on reading is in the line, or is npos.            *)
LEMMA Positions ==
  ASSUME NEW text \in Seq(Nat), NEW chars, NEW from \in Nat \ {0}
  PROVE  /\ find(text, chars, from) \in (from..Len(text)) \cup {npos}
         /\ find_first_not_of(text, chars, from) \in (from..Len(text)) \cup {npos}
         /\ find(text, chars, from) \in 0..Len(text)
         /\ find_first_not_of(text, chars, from) \in 0..Len(text)
<1>1. Len(text) \in Nat
  BY LenProperties
<1>2. /\ find(text, chars, from) \in (from..Len(text)) \cup {npos}
      /\ find_first_not_of(text, chars, from) \in (from..Len(text)) \cup {npos}
  BY <1>1, findProperties, findNotProperties
<1>3. \A i \in (from..Len(text)) \cup {npos} : i \in 0..Len(text)
  BY <1>1 DEF npos
<1> QED
  BY <1>2, <1>3

(* A character that is not '\0' is in the line.                            *)
LEMMA CharInLine ==
  ASSUME line \in Seq(Nat), NEW i \in Nat, CharAt(i) # 0
  PROVE  i \in 1..Len(line) /\ CharAt(i) = line[i] /\ line # << >>
<1>1. Len(line) \in Nat
  BY LenProperties
<1>2. i \in 1..Len(line) /\ CharAt(i) = line[i]
  BY <1>1 DEF CharAt, npos
<1>3. Len(line) # 0
  BY <1>1, <1>2
<1> QED
  BY <1>2, <1>3, EmptySeq

(* An element of a tuple is a value, however it is typed.                  *)
LEMMA TupleElemIs ==
  ASSUME line \in Seq(Nat), NEW at \in 0..Len(line), NEW e \in TupleElemAt(at)
  PROVE  e.elem \in TupleValue /\ e.next \in Nat \ {0}
<1>1. Len(line) \in Nat
  BY LenProperties
<1>2. at \in Nat /\ at + 1 \in Nat \ {0}
  BY <1>1
<1>3. ASSUME NEW type, NEW v, NEW next_ \in 0..Len(line),
             e = Elem(type, v, next_) \/ e = Elem(type, v, next_ + 1),
             e = Elem(type, v, next_) => next_ # 0,
             [elem_type |-> type, value |-> v] \in TupleValue
      PROVE  e.elem \in TupleValue /\ e.next \in Nat \ {0}
  <2>1. e.elem = [elem_type |-> type, value |-> v]
    BY <1>3 DEF Elem
  <2>2. e.next = next_ \/ e.next = next_ + 1
    BY <1>3 DEF Elem
  <2>3. e.next = next_ + 1 \/ next_ # 0
    BY <1>3 DEF Elem
  <2> QED
    BY <1>1, <1>3, <2>1, <2>2, <2>3
<1>4. CASE CharAt(at) = Quote
  <2> DEFINE end == find(line, {Quote}, at + 1)
             text == Text(at + 1, end - 1)
  <2>1. TupleElemAt(at) = StringElem(at)
    BY <1>4 DEF TupleElemAt
  <2>2. e \in IF end = npos THEN {} ELSE {Elem(ELEM_STRING, text, end + 1)}
    BY <2>1 DEF StringElem
  <2>3. end # npos /\ e = Elem(ELEM_STRING, text, end + 1)
    BY <2>2
  <2>4. end \in (at + 1..Len(line)) \cup {npos} /\ end \in 0..Len(line)
    BY <1>2, Positions
  <2> HIDE DEF end
  <2>5. text \in Seq(Nat)
    <3>1. at + 1 \in Int /\ end - 1 \in Int /\ 1 <= at + 1 /\ end - 1 <= Len(line)
      BY <1>1, <1>2, <2>4
    <3> QED
      BY <3>1, LengthOfSubSeq DEF Text
  <2> HIDE DEF text
  <2>6. [elem_type |-> ELEM_STRING, value |-> text] \in TupleValue
    BY <2>5 DEF TupleValue
  <2>7. e.elem = [elem_type |-> ELEM_STRING, value |-> text] /\ e.next = end + 1
    BY ONLY <2>3 DEF Elem
  <2>8. end + 1 \in Nat \ {0}
    BY ONLY <1>1, <2>4
  <2> DEFINE v == [elem_type |-> ELEM_STRING, value |-> text]
             k == end + 1
  <2>9. v \in TupleValue /\ e.elem = v /\ e.next = k /\ k \in Nat \ {0}
    BY <2>6, <2>7, <2>8
  <2> HIDE DEF v, k
  <2> QED
    BY ONLY <2>9
<1>5. CASE CharAt(at) \in Digits
  <2> DEFINE end == find_first_not_of(line, Digits, at + 1)
             end2 == find_first_not_of(line, Digits, end + 1)
  <2>a. \A x \in Digits : x # Quote /\ x # 0
    BY ONLY DEF Quote, Digits
  <2>1. CharAt(at) # Quote /\ CharAt(at) # 0
    BY ONLY <1>5, <2>a
  <2>2. TupleElemAt(at) = NumberElem(at)
    BY <1>5, <2>1 DEF TupleElemAt
  <2>3. at \in 1..Len(line) /\ line[at] \in Digits
    BY <1>2, <1>5, <2>1, CharInLine
  <2>4. e \in IF end = npos THEN {}
              ELSE IF line[end] # Dot
              THEN {Elem(ELEM_INT, v, end) : v \in stoi(Text(at, end - 1))}
              ELSE IF end2 = npos THEN {}
              ELSE {Elem(ELEM_FLOAT, v, end2) : v \in stod(Text(at, end2 - 1))}
    BY <2>2, Zenon DEF NumberElem
  <2>5. end \in (at + 1..Len(line)) \cup {npos} /\ end \in 0..Len(line)
    BY <1>2, Positions
  <2>6. end + 1 \in Nat \ {0}
    BY <1>1, <2>5
  <2>7. end2 \in (end + 1..Len(line)) \cup {npos} /\ end2 \in 0..Len(line)
    BY <2>6, Positions
  <2> HIDE DEF end2
  <2> HIDE DEF end
  <2>8. ASSUME NEW n \in at + 1..Len(line)
        PROVE  /\ Text(at, n - 1) \in Seq(Nat) /\ Text(at, n - 1) # << >>
               /\ Text(at, n - 1)[1] \in Digits
    <3>1. at \in Int /\ n - 1 \in Int /\ 1 <= at /\ n - 1 <= Len(line) /\ at <= n - 1
      BY <1>1, <2>3
    <3>2. line \in Seq(Nat)
      OBVIOUS
    <3>3. /\ SubSeq(line, at, n - 1) \in Seq(Nat) /\ SubSeq(line, at, n - 1) # << >>
          /\ SubSeq(line, at, n - 1)[1] = line[at]
      BY ONLY <3>1, <3>2, LengthOfSubSeq
    <3> QED
      BY ONLY <2>3, <3>3 DEF Text
  <2>9. CASE end # npos /\ line[end] # Dot
    <3>1. end \in at + 1..Len(line)
      BY <2>5, <2>9
    <3>2. PICK v \in stoi(Text(at, end - 1)) : e = Elem(ELEM_INT, v, end)
      BY <2>4, <2>9
    <3>3. v \in 0..INT_MAX
      BY <2>8, <3>1, stoiResults
    <3>4. [elem_type |-> ELEM_INT, value |-> v] \in TupleValue
      BY <3>3 DEF TupleValue
    <3> QED
      BY <1>3, <2>5, <2>9, <3>2, <3>4 DEF npos
  <2>10. CASE end # npos /\ line[end] = Dot /\ end2 # npos
    <3>1. end2 \in at + 1..Len(line)
      BY <1>1, <1>2, <2>5, <2>7, <2>10
    <3>2. PICK v \in stod(Text(at, end2 - 1)) : e = Elem(ELEM_FLOAT, v, end2)
      BY <2>4, <2>10
    <3>3. v \in Nat
      BY <2>8, <3>1, stodResults
    <3>4. [elem_type |-> ELEM_FLOAT, value |-> v] \in TupleValue
      BY <3>3 DEF TupleValue
    <3> QED
      BY <1>3, <2>7, <2>10, <3>2, <3>4 DEF npos
  <2> QED
    BY <2>4, <2>9, <2>10
<1> QED
  BY <1>4, <1>5 DEF TupleElemAt

(* An element of a pattern is one that a constructor made.                 *)
LEMMA PatternElemIs ==
  ASSUME line \in Seq(Nat), NEW at \in 0..Len(line), NEW e \in PatternAt(at)
  PROVE  e.elem \in PatternElem /\ e.next \in Nat \ {0}
<1> DEFINE open  == SkipTo(at + 1)
           quote == SkipTo(open + 1)
           end   == find(line, {Quote}, quote + 1)
           close == SkipTo(end + 1)
<1>1. Len(line) \in Nat
  BY LenProperties
<1>2. \A i \in 0..Len(line) : i + 1 \in Nat \ {0} /\ SkipTo(i + 1) \in 0..Len(line)
  BY <1>1, Positions DEF SkipTo
<1>3. open \in 0..Len(line)
  BY <1>2
<1>4. PICK t \in ElemType :
        /\ end # npos
        /\ \E p \in Construct(t, Text(quote + 1, end - 1)) :
             e = [elem |-> p, next |-> close + 1]
  BY DEF PatternAt
<1> HIDE DEF open
<1>5. quote \in 0..Len(line) /\ quote + 1 \in Nat \ {0}
  BY <1>2, <1>3
<1> HIDE DEF quote
<1>6. end \in 0..Len(line)
  BY <1>5, Positions
<1> HIDE DEF end
<1>7. close + 1 \in Nat \ {0}
  BY <1>2, <1>6
<1> HIDE DEF close
<1>8. Text(quote + 1, end - 1) \in Seq(Nat)
  <2>1. /\ quote + 1 \in Int /\ end - 1 \in Int
        /\ 1 <= quote + 1 /\ end - 1 <= Len(line)
    BY <1>1, <1>5, <1>6
  <2> QED
    BY <2>1, LengthOfSubSeq DEF Text
<1>9. Construct(t, Text(quote + 1, end - 1)) \subseteq PatternElem
  BY <1>8, ConstructResults
<1> QED
  BY <1>4, <1>7, <1>9

LEMMA ParserFirst == Init => ParserInv
<1> SUFFICES ASSUME Init
             PROVE  ParserInv
  OBVIOUS
<1>1. /\ line = << >> /\ pc = "prompt" /\ found = 0 /\ result = << >> /\ astray = FALSE
      /\ npos = 0
  BY DEF Init, npos
<1>2. line \in Seq(Nat) /\ Len(line) = 0 /\ result \in Seq(PatternElem)
  BY <1>1, EmptySeq
<1>3. found \in 0..Len(line)
  BY <1>1, <1>2
<1> QED
  BY <1>1, <1>2, <1>3 DEF ParserInv

(* A line is read in a state in which nothing is known of it.              *)
LEMMA LineRead ==
  ASSUME line' \in Seq(Nat), pc' = "parse", found' = 0, result' = << >>, astray' \in BOOLEAN
  PROVE  ParserInv'
<1>1. Len(line') \in Nat
  BY LenProperties
<1>2. found' \in 0..Len(line')
  BY <1>1
<1>3. result' \in Seq(PatternElem)
  BY EmptySeq
<1> QED
  BY <1>2, <1>3 DEF ParserInv, npos

(* What the parser does with the line that it was given.                   *)
LEMMA ParserKeeps ==
  ASSUME ParserInv, pc \in {"parse", "loop"}, UNCHANGED line,
         pc' \in {"loop", "done", "failed"},
         found' \in 0..Len(line), astray' \in BOOLEAN,
         pc' # "failed" => line # << >> /\ line[1] \in Word,
         \/ UNCHANGED result
         \/ /\ line # << >> 
            /\ IF IsTuple THEN result' \in Seq(TupleValue) ELSE result' \in Seq(PatternElem)
  PROVE  ParserInv'
<1>1. line' = line /\ (IsTuple' <=> IsTuple)
  BY DEF IsTuple
<1>2. line \in Seq(Nat)
  BY DEF ParserInv
<1>3. \/ line # << >> /\ IsTuple /\ result' \in Seq(TupleValue)
      \/ result' \in Seq(PatternElem) /\ (pc' \in {"loop", "done"} => ~IsTuple)
  <2>1. CASE UNCHANGED result
    <3>1. CASE line # << >> /\ IsTuple /\ result \in Seq(TupleValue)
      BY <2>1, <3>1
    <3>2. CASE ~(line # << >> /\ IsTuple /\ result \in Seq(TupleValue))
      <4>1. result \in Seq(PatternElem) /\ (pc \in {"loop", "done"} => ~IsTuple)
        BY <3>2 DEF ParserInv
      <4>2. CASE pc \in {"loop", "done"}
        BY <2>1, <4>1, <4>2
      <4>3. CASE pc = "parse"
        <5>1. result = << >> /\ result \in Seq(TupleValue)
          BY <4>3, EmptySeq DEF ParserInv
        <5> QED
          BY <2>1, <3>2, <4>1, <5>1
      <4> QED
        BY <4>2, <4>3
    <3> QED
      BY <3>1, <3>2
  <2>2. CASE /\ line # << >>
             /\ IF IsTuple THEN result' \in Seq(TupleValue) ELSE result' \in Seq(PatternElem)
    BY <2>2
  <2> QED
    BY <2>1, <2>2
<1> QED
  BY <1>1, <1>2, <1>3 DEF ParserInv

(* Every step of the parser keeps it in the line, and what it yields in    *)
(* its type.                                                               *)
LEMMA ParserStep ==
  ASSUME ParserInv, Next
  PROVE  ParserInv'
<1>1. /\ line \in Seq(Nat) /\ found \in 0..Len(line) /\ astray \in BOOLEAN
      /\ pc \in {"prompt", "parse"} => result = << >>
      /\ pc \in {"loop", "done"} => line # << >> /\ line[1] \in Word
  BY DEF ParserInv
<1>2. Len(line) \in Nat
  BY <1>1, LenProperties
<1>3. CASE getline
  <2>1. line' \in Seq(Nat)
    BY <1>3, LinesAssumption DEF getline
  <2>2. pc = "prompt" /\ UNCHANGED <<found, result, astray>> /\ pc' = "parse"
    BY <1>3 DEF getline
  <2>3. found = 0
    BY <2>2 DEF ParserInv, npos
  <2> QED
    BY <1>1, <2>1, <2>2, <2>3, LineRead
<1>4. ASSUME Fail, pc \in {"parse", "loop"}
      PROVE  ParserInv'
  BY <1>1, <1>4, ParserKeeps DEF Fail
<1>5. CASE parse /\ ~Fail
  <2> DEFINE open  == SkipTo(2)
             first == SkipTo(open + 1)
  <2>1. /\ pc = "parse" /\ CharAt(1) \in Word /\ pc' = "loop" /\ found' = first
        /\ UNCHANGED <<line, result, astray>>
    BY <1>5 DEF parse, Word
  <2>2. CharAt(1) # 0
    BY <2>1 DEF Word, ReadWord, InputWord, OutputWord
  <2>3. line # << >> /\ line[1] \in Word
    BY <1>1, <2>1, <2>2, CharInLine
  <2>4. open \in 0..Len(line)
    BY <1>1, Positions DEF SkipTo
  <2> HIDE DEF open
  <2>5. open + 1 \in Nat \ {0}
    BY <1>2, <2>4
  <2>6. first \in 0..Len(line)
    BY <1>1, <2>5, Positions DEF SkipTo
  <2> HIDE DEF first
  <2> QED
    BY <1>1, <2>1, <2>3, <2>6, ParserKeeps
<1>6. CASE element /\ ~Fail
  <2>1. pc = "loop" /\ line # << >> /\ line[1] \in Word
    BY <1>1, <1>6 DEF element
  <2>2. PICK e \in ElemsAt(found) :
          LET sep == SkipTo(e.next)
          IN  /\ result' = Append(result, e.elem)
              /\ found' = IF CharAt(sep) = Comma THEN SkipTo(sep + 1) ELSE sep
              /\ astray' = (astray \/ found' = npos)
              /\ UNCHANGED <<line, pc, typed>>
    BY <1>6 DEF element
  <2> DEFINE sep == SkipTo(e.next)
  <2>3. /\ e.next \in Nat \ {0}
        /\ IF IsTuple THEN e.elem \in TupleValue ELSE e.elem \in PatternElem
    BY <1>1, <2>2, TupleElemIs, PatternElemIs DEF ElemsAt
  <2>4. sep \in 0..Len(line)
    BY <1>1, <2>3, Positions DEF SkipTo
  <2>5. found' = IF CharAt(sep) = Comma THEN SkipTo(sep + 1) ELSE sep
    BY <2>2
  <2> HIDE DEF sep
  <2>6. sep + 1 \in Nat \ {0}
    BY <1>2, <2>4
  <2>7. SkipTo(sep + 1) \in 0..Len(line)
    BY <1>1, <2>6, Positions DEF SkipTo
  <2>8. found' \in 0..Len(line)
    BY <2>4, <2>5, <2>7
  <2>9. IF IsTuple THEN result' \in Seq(TupleValue) ELSE result' \in Seq(PatternElem)
    <3>1. result' = Append(result, e.elem)
      BY <2>2
    <3>2. CASE IsTuple
      <4>1. result \in Seq(TupleValue)
        BY <2>1, <3>2 DEF ParserInv
      <4> QED
        BY <2>3, <3>1, <3>2, <4>1, AppendProperties
    <3>3. CASE ~IsTuple
      <4>1. result \in Seq(PatternElem)
        BY <2>1, <3>3 DEF ParserInv
      <4> QED
        BY <2>3, <3>1, <3>3, <4>1, AppendProperties
    <3> QED
      BY <3>2, <3>3
  <2>10. astray' \in BOOLEAN
    BY <2>2
  <2>11. UNCHANGED <<line, pc>>
    BY <2>2
  <2> QED
    BY <2>1, <2>8, <2>9, <2>10, <2>11, ParserKeeps
<1>7. CASE finish /\ ~Fail
  <2>1. /\ pc = "loop" /\ pc' = "done" /\ UNCHANGED <<line, found, result, astray>>
    BY <1>7 DEF finish
  <2> QED
    BY <1>1, <2>1, ParserKeeps
<1>8. CASE retype
  <2>1. /\ pc = "done" /\ IsTuple /\ pc' = "parse" /\ found' = 0 /\ result' = << >>
        /\ line' = <<OutputWord>> \o show(result) /\ UNCHANGED astray
    BY <1>8 DEF retype, npos
  <2>2. result \in Seq(TupleValue)
    BY <2>1 DEF ParserInv
  <2>3. show(result) \in Seq(Nat)
    BY <2>2, ShownIsText
  <2>4. <<OutputWord>> \in Seq(Nat)
    BY DEF OutputWord
  <2>5. line' \in Seq(Nat)
    BY <2>1, <2>3, <2>4, TextConcat
  <2> QED
    BY <1>1, <2>1, <2>5, LineRead
<1>9. Fail => \/ getline \/ retype \/ pc \in {"parse", "loop"}
  BY DEF Next, Parses, parse, element, finish
<1> QED
  BY <1>3, <1>4, <1>5, <1>6, <1>7, <1>8, <1>9 DEF Next, Parses

-----------------------------------------------------------------------------
(* Texts without the blanks around them                                    *)

(* A subsequence from m to n, which lie in the sequence.                   *)
LEMMA InSubSeq ==
  ASSUME NEW S, NEW s \in Seq(S), NEW m \in Nat \ {0}, NEW n \in Nat,
         m <= n + 1, n <= Len(s)
  PROVE  /\ SubSeq(s, m, n) \in Seq(S)
         /\ Len(SubSeq(s, m, n)) = n + 1 - m
         /\ \A i \in 1..(n + 1 - m) : SubSeq(s, m, n)[i] = s[m + i - 1]
         /\ \A i \in m..n : /\ i + 1 - m \in 1..(n + 1 - m)
                            /\ SubSeq(s, m, n)[i + 1 - m] = s[i]
<1>1. Len(s) \in Nat
  BY LenProperties
<1>2. \A i \in m..n : s[i] \in S
  <2>1. \A i \in m..n : i \in 1..Len(s)
    BY <1>1
  <2> QED
    BY <2>1, ElementOfSeq
<1>3. /\ SubSeq(s, m, n) \in Seq(S)
      /\ Len(SubSeq(s, m, n)) = IF m <= n THEN n - m + 1 ELSE 0
      /\ \A i \in 1..n - m + 1 : SubSeq(s, m, n)[i] = s[m + i - 1]
  BY <1>2, SubSeqProperties
<1> DEFINE u == SubSeq(s, m, n)
<1> HIDE DEF u
<1>4. Len(u) = n + 1 - m
  BY <1>3 DEF u
<1>5. \A i \in 1..(n + 1 - m) : u[i] = s[m + i - 1]
  <2>1. n + 1 - m = n - m + 1
    OBVIOUS
  <2> QED
    BY <1>3, <2>1 DEF u
<1>6. ASSUME NEW i \in m..n
      PROVE  i + 1 - m \in 1..(n + 1 - m) /\ u[i + 1 - m] = s[i]
  <2>1. i + 1 - m \in 1..(n + 1 - m) /\ m + (i + 1 - m) - 1 = i
    OBVIOUS
  <2> QED
    BY <1>5, <2>1
<1> QED
  BY <1>3, <1>4, <1>5, <1>6 DEF u

(* Two texts are equal if they have the same characters.                   *)
LEMMA SameText ==
  ASSUME NEW S, NEW s \in Seq(S), NEW t \in Seq(S), NEW n, Len(s) = n, Len(t) = n,
         \A i \in 1..n : s[i] = t[i]
  PROVE  s = t
BY SeqEqual

(* A part of a part is a part.                                             *)
LEMMA PartOfPart ==
  ASSUME NEW S, NEW s \in Seq(S), NEW m \in Nat \ {0}, NEW n \in Nat,
         n <= Len(s), NEW a \in m..(n + 1), NEW b \in Nat, a <= b + 1, b <= n
  PROVE  SubSeq(SubSeq(s, m, n), a + 1 - m, b + 1 - m) = SubSeq(s, a, b)
<1> DEFINE u == SubSeq(s, m, n)
           v == SubSeq(u, a + 1 - m, b + 1 - m)
           w == SubSeq(s, a, b)
<1>0. Len(s) \in Nat
  BY LenProperties
<1>1. /\ u \in Seq(S) /\ Len(u) = n + 1 - m
      /\ \A i \in m..n : u[i + 1 - m] = s[i]
  BY InSubSeq
<1>2. /\ w \in Seq(S) /\ Len(w) = b + 1 - a
      /\ \A i \in 1..(b + 1 - a) : w[i] = s[a + i - 1]
  BY <1>0, InSubSeq
<1>3. /\ a + 1 - m \in Nat \ {0} /\ b + 1 - m \in Nat
      /\ a + 1 - m <= (b + 1 - m) + 1 /\ b + 1 - m <= n + 1 - m
      /\ (b + 1 - m) + 1 - (a + 1 - m) = b + 1 - a
  OBVIOUS
<1> HIDE DEF u
<1>4. /\ v \in Seq(S) /\ Len(v) = b + 1 - a
      /\ \A i \in 1..(b + 1 - a) : v[i] = u[(a + 1 - m) + i - 1]
  BY <1>1, <1>3, InSubSeq
<1> HIDE DEF v, w
<1>5. ASSUME NEW i \in 1..(b + 1 - a)
      PROVE  v[i] = w[i]
  <2>1. a + i - 1 \in m..n /\ (a + i - 1) + 1 - m = (a + 1 - m) + i - 1
    OBVIOUS
  <2>2. u[(a + i - 1) + 1 - m] = s[a + i - 1]
    BY <1>1, <2>1
  <2> QED
    BY <1>2, <1>4, <2>1, <2>2
<1>6. v = w
  BY <1>2, <1>4, <1>5, SameText
<1> QED
  BY <1>6 DEF u, v, w

(* Where a search stops.                                                   *)
LEMMA FoundNotAt ==
  ASSUME NEW text, Len(text) \in Nat, NEW chars, NEW from \in Nat \ {0},
         NEW a \in from..Len(text), text[a] \notin chars,
         \A j \in from..(a - 1) : text[j] \in chars
  PROVE  find_first_not_of(text, chars, from) = a
<1> DEFINE i == find_first_not_of(text, chars, from)
<1>1. /\ i \in (from..Len(text)) \cup {npos}
      /\ i # npos => text[i] \notin chars
      /\ i # npos /\ i <= a
  BY findNotProperties
<1> HIDE DEF i
<1>2. i \in from..Len(text) /\ text[i] \notin chars /\ i <= a
  BY <1>1
<1>3. ~(i < a)
  BY <1>2
<1> QED
  BY <1>2, <1>3 DEF i

(* Where a search stops that looks for the characters.                     *)
LEMMA FoundAt ==
  ASSUME NEW text, Len(text) \in Nat, NEW chars, NEW from \in Nat \ {0},
         NEW a \in from..Len(text), text[a] \in chars,
         \A j \in from..(a - 1) : text[j] \notin chars
  PROVE  find(text, chars, from) = a
<1> DEFINE i == find(text, chars, from)
<1>1. /\ i \in (from..Len(text)) \cup {npos}
      /\ i # npos => text[i] \in chars
      /\ i # npos /\ i <= a
  BY findProperties
<1> HIDE DEF i
<1>2. i \in from..Len(text) /\ text[i] \in chars /\ i <= a
  BY <1>1
<1>3. ~(i < a)
  BY <1>2
<1> QED
  BY <1>2, <1>3 DEF i

(* The blanks in front are left out ...                                    *)
LEMMA TrimmedIs ==
  ASSUME NEW S, NEW t \in Seq(S)
  PROVE  /\ \A a \in 1..Len(t) :
              t[a] # Blank /\ (\A j \in 1..(a - 1) : t[j] = Blank) =>
                Trimmed(t) = SubSeq(t, a, Len(t))
         /\ (\A j \in 1..Len(t) : t[j] = Blank) => Trimmed(t) = << >>
<1>1. Len(t) \in Nat
  BY LenProperties
<1>2. ASSUME NEW a \in 1..Len(t), t[a] # Blank, \A j \in 1..(a - 1) : t[j] = Blank
      PROVE  Trimmed(t) = SubSeq(t, a, Len(t))
  <2>1. find_first_not_of(t, {Blank}, 1) = a
    <3>1. t[a] \notin {Blank} /\ \A j \in 1..(a - 1) : t[j] \in {Blank}
      BY <1>2
    <3> QED
      BY <1>1, <3>1, FoundNotAt
  <2>2. a # npos
    BY DEF npos
  <2> QED
    BY <2>1, <2>2 DEF Trimmed, substr
<1>3. ASSUME \A j \in 1..Len(t) : t[j] = Blank
      PROVE  Trimmed(t) = << >>
  <2> DEFINE i == find_first_not_of(t, {Blank}, 1)
  <2>1. /\ i \in (1..Len(t)) \cup {npos}
        /\ i # npos => t[i] \notin {Blank}
    BY <1>1, findNotProperties
  <2> HIDE DEF i
  <2>2. i = npos
    BY <1>3, <2>1
  <2> QED
    BY <2>2 DEF Trimmed, i
<1> QED
  BY <1>2, <1>3

(* A text read from its end.                                               *)
LEMMA ReverseIs ==
  ASSUME NEW S, NEW t \in Seq(S)
  PROVE  /\ Reverse(t) \in Seq(S) /\ Len(Reverse(t)) = Len(t)
         /\ \A i \in 1..Len(t) : Reverse(t)[i] = t[Len(t) + 1 - i]
<1>1. Len(t) \in Nat /\ \A j \in 1..Len(t) : t[j] \in S
  BY LenProperties, ElementOfSeq
<1> DEFINE r == Reverse(t)
<1>2. \A i \in 1..Len(t) : /\ Len(t) + 1 - i \in 1..Len(t)
                           /\ (Len(t) - i) + 1 = Len(t) + 1 - i
  BY <1>1
<1>3. r = [i \in 1..Len(t) |-> t[(Len(t) - i) + 1]]
  BY DEF Reverse
<1>4. r \in [1..Len(t) -> S] /\ \A i \in 1..Len(t) : r[i] = t[Len(t) + 1 - i]
  BY <1>1, <1>2, <1>3
<1> HIDE DEF r
<1>5. r \in Seq(S) /\ Len(r) = Len(t)
  BY <1>1, <1>4, FunctionIsSeq
<1> QED
  BY <1>4, <1>5 DEF r

(* ... and those behind.                                                   *)
LEMMA StrippedIs ==
  ASSUME NEW S, NEW t \in Seq(S), NEW a \in 1..Len(t), NEW b \in a..Len(t),
         t[a] # Blank, t[b] # Blank,
         \A j \in 1..(a - 1) : t[j] = Blank,
         \A j \in (b + 1)..Len(t) : t[j] = Blank
  PROVE  Stripped(t) = SubSeq(t, a, b)
<1>0. Len(t) \in Nat /\ a \in Nat \ {0} /\ b \in Nat
  BY LenProperties
<1> DEFINE n == Len(t)
           u == SubSeq(t, a, n)
           v == Reverse(u)
           c == n + 1 - b
           w == SubSeq(v, c, Len(v))
           x == Reverse(w)
           y == SubSeq(t, a, b)
<1>1. Trimmed(t) = u
  BY TrimmedIs
<1>2. /\ u \in Seq(S) /\ Len(u) = n + 1 - a
      /\ \A i \in 1..(n + 1 - a) : u[i] = t[a + i - 1]
  BY <1>0, InSubSeq
<1>3. /\ y \in Seq(S) /\ Len(y) = b + 1 - a
      /\ \A i \in 1..(b + 1 - a) : y[i] = t[a + i - 1]
  BY <1>0, InSubSeq
<1> HIDE DEF u, y
<1>4. /\ v \in Seq(S) /\ Len(v) = n + 1 - a
      /\ \A i \in 1..(n + 1 - a) : v[i] = u[(n + 1 - a) + 1 - i]
  <2>1. /\ v \in Seq(S) /\ Len(v) = Len(u)
        /\ \A i \in 1..Len(u) : v[i] = u[Len(u) + 1 - i]
    BY <1>2, ReverseIs
  <2> HIDE DEF v
  <2> QED
    BY <1>2, <2>1
<1> HIDE DEF v
<1>5. \A i \in 1..(n + 1 - a) : v[i] = t[n + 1 - i]
  <2> SUFFICES ASSUME NEW i \in 1..(n + 1 - a)
               PROVE  v[i] = t[n + 1 - i]
    OBVIOUS
  <2>1. (n + 1 - a) + 1 - i \in 1..(n + 1 - a) /\ a + ((n + 1 - a) + 1 - i) - 1 = n + 1 - i
    BY <1>0
  <2> QED
    BY <1>2, <1>4, <2>1
<1>6. c \in 1..Len(v) /\ v[c] # Blank
  <2>1. c \in 1..(n + 1 - a) /\ n + 1 - c = b
    BY <1>0
  <2> QED
    BY <1>4, <1>5, <2>1
<1>7. \A j \in 1..(c - 1) : v[j] = Blank
  <2> SUFFICES ASSUME NEW j \in 1..(c - 1)
               PROVE  v[j] = Blank
    OBVIOUS
  <2>1. j \in 1..(n + 1 - a) /\ n + 1 - j \in (b + 1)..n
    BY <1>0
  <2> QED
    BY <1>5, <2>1
<1>8. Trimmed(v) = w
  BY <1>4, <1>6, <1>7, TrimmedIs
<1>9. /\ w \in Seq(S) /\ Len(w) = b + 1 - a
      /\ \A i \in 1..(b + 1 - a) : w[i] = v[c + i - 1]
  <2>1. /\ c \in Nat \ {0} /\ Len(v) \in Nat /\ c <= Len(v) + 1
        /\ Len(v) + 1 - c = b + 1 - a
    BY <1>0, <1>4
  <2> HIDE DEF c
  <2>2. /\ w \in Seq(S) /\ Len(w) = Len(v) + 1 - c
        /\ \A i \in 1..(Len(v) + 1 - c) : w[i] = v[c + i - 1]
    BY <1>4, <2>1, InSubSeq
  <2> HIDE DEF w
  <2> QED
    BY <2>1, <2>2
<1> HIDE DEF w
<1>10. /\ x \in Seq(S) /\ Len(x) = b + 1 - a
       /\ \A i \in 1..(b + 1 - a) : x[i] = w[(b + 1 - a) + 1 - i]
  <2>1. /\ x \in Seq(S) /\ Len(x) = Len(w)
        /\ \A i \in 1..Len(w) : x[i] = w[Len(w) + 1 - i]
    BY <1>9, ReverseIs
  <2> HIDE DEF x
  <2> QED
    BY <1>9, <2>1
<1> HIDE DEF x
<1>11. ASSUME NEW i \in 1..(b + 1 - a)
       PROVE  x[i] = y[i]
  <2>1. /\ (b + 1 - a) + 1 - i \in 1..(b + 1 - a)
        /\ c + ((b + 1 - a) + 1 - i) - 1 = n + 1 - (a + i - 1)
        /\ n + 1 - (a + i - 1) \in 1..(n + 1 - a)
        /\ n + 1 - (n + 1 - (a + i - 1)) = a + i - 1
    BY <1>0
  <2>2. x[i] = v[n + 1 - (a + i - 1)]
    BY <1>9, <1>10, <2>1
  <2>3. x[i] = t[a + i - 1]
    BY <1>5, <2>1, <2>2
  <2> QED
    BY <1>3, <2>3
<1>12. x = y
  BY <1>3, <1>10, <1>11, SameText
<1> QED
  BY <1>1, <1>8, <1>12 DEF Stripped, v, w, x, y

(* Of a blank text nothing is left.                                        *)
LEMMA StrippedBlank ==
  ASSUME NEW S, NEW t \in Seq(S), \A j \in 1..Len(t) : t[j] = Blank
  PROVE  Stripped(t) = << >>
<1>1. Trimmed(t) = << >>
  BY TrimmedIs
<1>2. << >> \in Seq(S) /\ Len(<< >>) = 0
  BY EmptySeq
<1>3. Reverse(<< >>) \in Seq(S) /\ Len(Reverse(<< >>)) = 0
  BY <1>2, ReverseIs
<1>4. Reverse(<< >>) = << >>
  BY <1>3, EmptySeq
<1>5. Trimmed(<< >>) = << >>
  <2>1. \A j \in 1..Len(<< >>) : (<< >>)[j] = Blank
    BY <1>2
  <2> QED
    BY <1>2, <2>1, TrimmedIs
<1> QED
  BY <1>1, <1>4, <1>5 DEF Stripped

-----------------------------------------------------------------------------
(* Pieces of a line                                                        *)

(* Without blanks around it, the piece from lo to hi is that from a to b.  *)
Bare(l, lo, hi, a, b) ==
  /\ a \in lo..hi /\ b \in a..hi
  /\ l[a] # Blank /\ l[b] # Blank
  /\ \A j \in lo..(a - 1) : l[j] = Blank
  /\ \A j \in (b + 1)..hi : l[j] = Blank

(* That is what Stripped makes of it.                                      *)
LEMMA PieceIs ==
  ASSUME NEW l \in Seq(Nat), NEW lo \in Nat \ {0}, NEW hi \in Nat, lo <= hi + 1,
         hi <= Len(l)
  PROVE  /\ \A a, b : Bare(l, lo, hi, a, b) =>
                        Stripped(SubSeq(l, lo, hi)) = SubSeq(l, a, b)
         /\ (\A j \in lo..hi : l[j] = Blank) => Stripped(SubSeq(l, lo, hi)) = << >>
<1> DEFINE t == SubSeq(l, lo, hi)
<1>1. /\ t \in Seq(Nat) /\ Len(t) = hi + 1 - lo
      /\ \A i \in 1..(hi + 1 - lo) : t[i] = l[lo + i - 1]
      /\ \A i \in lo..hi : i + 1 - lo \in 1..(hi + 1 - lo) /\ t[i + 1 - lo] = l[i]
  BY InSubSeq
<1>2. ASSUME NEW a, NEW b, Bare(l, lo, hi, a, b)
      PROVE  Stripped(t) = SubSeq(l, a, b)
  <2>1. a \in lo..hi /\ b \in a..hi /\ a \in Nat /\ b \in Nat
    BY <1>2 DEF Bare
  <2> DEFINE c == a + 1 - lo
             d == b + 1 - lo
  <2>2. c \in 1..Len(t) /\ d \in c..Len(t) /\ t[c] # Blank /\ t[d] # Blank
    <3>1. c \in 1..(hi + 1 - lo) /\ d \in c..(hi + 1 - lo)
      BY <2>1
    <3>2. t[c] = l[a] /\ t[d] = l[b]
      <4>1. \A i \in lo..hi : t[i + 1 - lo] = l[i]
        BY <1>1
      <4>2. a \in lo..hi /\ b \in lo..hi
        BY <2>1
      <4> HIDE DEF t
      <4> QED
        BY ONLY <4>1, <4>2 DEF c, d
    <3> QED
      BY <1>1, <1>2, <3>1, <3>2 DEF Bare
  <2>3. \A j \in 1..(c - 1) : t[j] = Blank
    <3> SUFFICES ASSUME NEW j \in 1..(c - 1)
                 PROVE  t[j] = Blank
      OBVIOUS
    <3>1. j \in 1..(hi + 1 - lo) /\ lo + j - 1 \in lo..(a - 1)
      BY <2>1
    <3> QED
      BY <1>1, <1>2, <3>1 DEF Bare
  <2>4. \A j \in (d + 1)..Len(t) : t[j] = Blank
    <3> SUFFICES ASSUME NEW j \in (d + 1)..(hi + 1 - lo)
                 PROVE  t[j] = Blank
      BY <1>1
    <3>1. j \in 1..(hi + 1 - lo) /\ lo + j - 1 \in (b + 1)..hi
      BY <2>1
    <3> QED
      BY <1>1, <1>2, <3>1 DEF Bare
  <2> HIDE DEF t, c, d
  <2>5. Stripped(t) = SubSeq(t, c, d)
    BY <1>1, <2>2, <2>3, <2>4, StrippedIs
  <2>6. SubSeq(t, c, d) = SubSeq(l, a, b)
    BY <2>1, PartOfPart DEF t, c, d
  <2> QED
    BY <2>5, <2>6
<1>3. ASSUME \A j \in lo..hi : l[j] = Blank
      PROVE  Stripped(t) = << >>
  <2>1. \A j \in 1..Len(t) : t[j] = Blank
    <3> SUFFICES ASSUME NEW j \in 1..(hi + 1 - lo)
                 PROVE  t[j] = Blank
      BY <1>1
    <3>1. lo + j - 1 \in lo..hi
      OBVIOUS
    <3> QED
      BY <1>1, <1>3, <3>1
  <2> HIDE DEF t
  <2> QED
    BY <1>1, <2>1, StrippedBlank
<1> QED
  BY <1>2, <1>3

(* There are such ends unless it is blank.                                 *)
LEMMA PieceEnds ==
  ASSUME NEW l \in Seq(Nat), NEW lo \in Nat \ {0}, NEW hi \in Nat, lo <= hi + 1,
         hi <= Len(l)
  PROVE  \/ \A j \in lo..hi : l[j] = Blank
         \/ \E a, b \in lo..hi : Bare(l, lo, hi, a, b)
<1> DEFINE I == {j \in lo..hi : l[j] # Blank}
<1>1. SUFFICES ASSUME I # {}
               PROVE  \E a, b \in lo..hi : Bare(l, lo, hi, a, b)
  OBVIOUS
<1>2. I \in SUBSET Nat /\ I \in SUBSET (0..hi)
  OBVIOUS
<1>3. PICK a \in I : \A y \in I : a <= y
  BY <1>1, <1>2, LeastElement
<1>4. PICK b \in I : \A y \in I : y <= b
  <2> HIDE DEF I
  <2>1. Max(I) \in I /\ \A y \in I : y <= Max(I)
    BY <1>1, <1>2, MaxInSet
  <2> QED
    BY <2>1
<1>5. a \in lo..hi /\ b \in lo..hi /\ a <= b /\ l[a] # Blank /\ l[b] # Blank
  BY <1>3, <1>4
<1>6. \A j \in lo..(a - 1) : l[j] = Blank
  <2> SUFFICES ASSUME NEW j \in lo..(a - 1), l[j] # Blank
               PROVE  FALSE
    OBVIOUS
  <2>1. j \in I /\ ~(a <= j)
    BY <1>5
  <2> QED
    BY <1>3, <2>1
<1>7. \A j \in (b + 1)..hi : l[j] = Blank
  <2> SUFFICES ASSUME NEW j \in (b + 1)..hi, l[j] # Blank
               PROVE  FALSE
    OBVIOUS
  <2>1. j \in I /\ ~(j <= b)
    BY <1>5
  <2> QED
    BY <1>4, <2>1
<1>8. b \in a..hi
  BY <1>5
<1> QED
  BY <1>5, <1>6, <1>7, <1>8 DEF Bare

(* What an element of a tuple looks like from a to b: a text in quotes.    *)
QuotedAt(l, a, b) ==
  /\ a < b /\ l[a] = Quote /\ l[b] = Quote
  /\ \A j \in (a + 1)..(b - 1) : l[j] # Quote

(* An integer.                                                             *)
DigitsAt(l, a, b) == a <= b /\ \A j \in a..b : l[j] \in Digits

(* A decimal fraction with its point at d.                                 *)
DecimalAt(l, a, d, b) ==
  /\ d \in (a + 1)..b /\ l[d] = Dot
  /\ \A j \in a..b : j # d => l[j] \in Digits

(* A text is a value if it looks like one of these, and then this value.   *)
LEMMA LiteralOfText ==
  ASSUME NEW t \in Seq(Nat), t # << >>
  PROVE  LET n == Len(t)
         IN  /\ QuotedAt(t, 1, n) =>
                  Literal(t) = {[elem_type |-> ELEM_STRING, value |-> SubSeq(t, 2, n - 1)]}
             /\ DigitsAt(t, 1, n) =>
                  Literal(t) = {[elem_type |-> ELEM_INT, value |-> v] : v \in stoi(t)}
             /\ \A d : DecimalAt(t, 1, d, n) =>
                  Literal(t) = {[elem_type |-> ELEM_FLOAT, value |-> v] : v \in stod(t)}
             /\ Literal(t) # {} =>
                  \/ QuotedAt(t, 1, n) \/ DigitsAt(t, 1, n)
                  \/ \E d \in 1..n : DecimalAt(t, 1, d, n)
<1> DEFINE n == Len(t)
           dots == {i \in DOMAIN t : t[i] = Dot}
           Q == n > 1 /\ t[1] = Quote /\ t[n] = Quote /\ \A i \in 2..n - 1 : t[i] # Quote
           D == ToSet(t) \subseteq Digits
           F == /\ ToSet(t) \subseteq Digits \cup {Dot} /\ Cardinality(dots) = 1
                /\ t[1] # Dot
           LQ == {[elem_type |-> ELEM_STRING, value |-> SubSeq(t, 2, n - 1)]}
           LD == {[elem_type |-> ELEM_INT, value |-> v] : v \in stoi(t)}
           LF == {[elem_type |-> ELEM_FLOAT, value |-> v] : v \in stod(t)}
<1>1. n \in Nat \ {0} /\ DOMAIN t = 1..n /\ ToSet(t) = {t[i] : i \in 1..n}
  BY LenProperties, EmptySeq DEF ToSet
<1>2. Literal(t) = IF Q THEN LQ ELSE IF D THEN LD ELSE IF F THEN LF ELSE {}
  BY DEF Literal
<1>3. Quote \notin Digits /\ Quote # Dot /\ Dot \notin Digits
  BY DEF Quote, Digits, Dot
<1>4. Q <=> QuotedAt(t, 1, n)
  <2>1. n > 1 <=> 1 < n
    BY <1>1
  <2> QED
    BY <2>1 DEF QuotedAt
<1>5. D <=> DigitsAt(t, 1, n)
  BY <1>1 DEF DigitsAt
<1>6. F <=> \E d \in 1..n : DecimalAt(t, 1, d, n)
  <2>1. IsFiniteSet(dots)
    <3>1. dots \in SUBSET Nat /\ \A i \in dots : i <= n
      BY <1>1
    <3> HIDE DEF dots
    <3> QED
      BY <1>1, <3>1, FS_BoundedSetOfNaturals
  <2>2. Cardinality(dots) = 1 <=> \E d : dots = {d}
    <3> HIDE DEF dots
    <3> QED
      BY <2>1, FS_Singleton
  <2>3. ASSUME F
        PROVE  \E d \in 1..n : DecimalAt(t, 1, d, n)
    <3>1. PICK d : dots = {d}
      BY <2>2, <2>3
    <3>2. d \in 1..n /\ t[d] = Dot /\ d # 1
      BY <1>1, <2>3, <3>1
    <3>3. \A j \in 1..n : j # d => t[j] \in Digits
      <4> SUFFICES ASSUME NEW j \in 1..n, j # d
                   PROVE  t[j] \in Digits
        OBVIOUS
      <4>1. t[j] # Dot
        BY <1>1, <3>1
      <4>2. t[j] \in ToSet(t)
        BY <1>1
      <4> QED
        BY <2>3, <4>1, <4>2
    <3>4. d \in (1 + 1)..n
      BY <1>1, <3>2
    <3> QED
      BY <3>2, <3>3, <3>4 DEF DecimalAt
  <2>4. ASSUME NEW d \in 1..n, DecimalAt(t, 1, d, n)
        PROVE  F
    <3>1. d \in (1 + 1)..n /\ t[d] = Dot /\ \A j \in 1..n : j # d => t[j] \in Digits
      BY <2>4 DEF DecimalAt
    <3>2. dots = {d}
      BY <1>1, <1>3, <3>1
    <3>3. t[1] \in Digits
      BY <1>1, <3>1
    <3>4. ToSet(t) \subseteq Digits \cup {Dot}
      BY <1>1, <3>1
    <3>5. Cardinality(dots) = 1
      BY <2>2, <3>2
    <3>6. t[1] # Dot
      BY <1>3, <3>3
    <3> HIDE DEF dots
    <3> QED
      BY <3>4, <3>5, <3>6
  <2> HIDE DEF F
  <2> QED
    BY <2>3, <2>4
<1>7. D => ~Q
  <2>1. D => t[1] \in Digits
    BY <1>1
  <2> QED
    BY <1>3, <2>1
<1>8. F => ~Q /\ ~D
  <2>1. F => \E d \in 1..n : d # 1 /\ t[d] = Dot /\ t[1] \in Digits
    <3>1. \A d : DecimalAt(t, 1, d, n) => d \in (1 + 1)..n /\ t[d] = Dot /\ t[1] \in Digits
      BY <1>1 DEF DecimalAt
    <3>2. \A d \in (1 + 1)..n : d # 1
      BY <1>1
    <3> HIDE DEF F
    <3> QED
      BY <1>6, <3>1, <3>2
  <2> HIDE DEF F
  <2> QED
    BY <1>1, <1>3, <2>1
<1>9. \A d : DecimalAt(t, 1, d, n) => d \in 1..n
  BY <1>1 DEF DecimalAt
<1> HIDE DEF Q, D, F, LQ, LD, LF
<1>10. /\ QuotedAt(t, 1, n) => Literal(t) = LQ
       /\ DigitsAt(t, 1, n) => Literal(t) = LD
       /\ \A d : DecimalAt(t, 1, d, n) => Literal(t) = LF
       /\ Literal(t) # {} => Q \/ D \/ F
  BY <1>2, <1>4, <1>5, <1>6, <1>7, <1>8, <1>9
<1> QED
  BY <1>4, <1>5, <1>6, <1>10, Zenon DEF LQ, LD, LF

(* The same of the part of a line from a to b.                             *)
LEMMA LiteralIs ==
  ASSUME NEW l \in Seq(Nat), NEW a \in 1..Len(l), NEW b \in a..Len(l)
  PROVE  LET t == SubSeq(l, a, b)
         IN  /\ QuotedAt(l, a, b) =>
                  Literal(t) =
                    {[elem_type |-> ELEM_STRING, value |-> SubSeq(l, a + 1, b - 1)]}
             /\ DigitsAt(l, a, b) =>
                  Literal(t) = {[elem_type |-> ELEM_INT, value |-> v] : v \in stoi(t)}
             /\ \A d : DecimalAt(l, a, d, b) =>
                  Literal(t) = {[elem_type |-> ELEM_FLOAT, value |-> v] : v \in stod(t)}
             /\ Literal(t) # {} =>
                  \/ QuotedAt(l, a, b) \/ DigitsAt(l, a, b)
                  \/ \E d \in a..b : DecimalAt(l, a, d, b)
<1> DEFINE t == SubSeq(l, a, b)
           n == b + 1 - a
<1>0. /\ Len(l) \in Nat /\ a \in Nat \ {0} /\ b \in Nat /\ a <= b /\ b <= Len(l)
      /\ n \in Nat \ {0} /\ a <= b + 1
  BY LenProperties
<1>1. /\ t \in Seq(Nat) /\ Len(t) = n
      /\ \A i \in 1..n : t[i] = l[a + i - 1]
      /\ \A i \in a..b : i + 1 - a \in 1..n /\ t[i + 1 - a] = l[i]
  <2> HIDE DEF t, n
  <2>1. /\ l \in Seq(Nat) /\ a \in Nat \ {0} /\ b \in Nat /\ a <= b + 1 /\ b <= Len(l)
        /\ t = SubSeq(l, a, b) /\ n = b + 1 - a
    BY <1>0 DEF t, n
  <2>2. t \in Seq(Nat) /\ Len(t) = n
    BY ONLY <2>1, InSubSeq
  <2>3. \A i \in 1..n : t[i] = l[a + i - 1]
    BY ONLY <2>1, InSubSeq
  <2>4. ASSUME NEW i \in a..b
        PROVE  i + 1 - a \in 1..n /\ t[i + 1 - a] = l[i]
    <3>1. i + 1 - a \in 1..n /\ a + (i + 1 - a) - 1 = i
      BY <2>1
    <3> QED
      BY <2>3, <3>1
  <2> QED
    BY <2>2, <2>3, <2>4
<1>2. t # << >> /\ t[1] = l[a] /\ t[n] = l[b]
  <2>1. a + 1 - 1 = a /\ a + n - 1 = b /\ 1 \in 1..n /\ n \in 1..n
    BY <1>0
  <2> HIDE DEF t, n
  <2>2. t[1] = l[a + 1 - 1] /\ t[n] = l[a + n - 1]
    BY ONLY <1>1, <2>1
  <2>3. t # << >>
    BY <1>0, <1>1, EmptySeq
  <2> QED
    BY ONLY <2>1, <2>2, <2>3
<1>3. SubSeq(t, 2, n - 1) = SubSeq(l, a + 1, b - 1)
  <2>1. CASE a = b
    <3>1. n - 1 < 2 /\ b - 1 < a + 1
      BY <1>0, <2>1
    <3> HIDE DEF t
    <3> QED
      BY <1>0, <3>1, SubSeqEmpty
  <2>2. CASE a # b
    <3>1. /\ a + 1 \in a..(b + 1) /\ b - 1 \in Nat /\ a + 1 <= (b - 1) + 1 /\ b - 1 <= b
          /\ (a + 1) + 1 - a = 2 /\ (b - 1) + 1 - a = n - 1
      BY <1>0, <2>2
    <3>2. SubSeq(SubSeq(l, a, b), (a + 1) + 1 - a, (b - 1) + 1 - a)
            = SubSeq(l, a + 1, b - 1)
      BY ONLY <1>0, <3>1, PartOfPart, l \in Seq(Nat)
    <3> QED
      BY <3>1, <3>2
  <2> QED
    BY <2>1, <2>2
<1> HIDE DEF t
<1>4. QuotedAt(t, 1, n) <=> QuotedAt(l, a, b)
  <2>1. 1 < n <=> a < b
    BY <1>0
  <2>2. ASSUME \A j \in (1 + 1)..(n - 1) : t[j] # Quote
        PROVE  \A j \in (a + 1)..(b - 1) : l[j] # Quote
    <3> SUFFICES ASSUME NEW j \in (a + 1)..(b - 1)
                 PROVE  l[j] # Quote
      OBVIOUS
    <3>1. j \in a..b /\ j + 1 - a \in (1 + 1)..(n - 1)
      BY <1>0
    <3> QED
      BY <1>1, <2>2, <3>1
  <2>3. ASSUME \A j \in (a + 1)..(b - 1) : l[j] # Quote
        PROVE  \A j \in (1 + 1)..(n - 1) : t[j] # Quote
    <3> SUFFICES ASSUME NEW j \in (1 + 1)..(n - 1)
                 PROVE  t[j] # Quote
      OBVIOUS
    <3>1. j \in 1..n /\ a + j - 1 \in (a + 1)..(b - 1)
      BY <1>0
    <3> QED
      BY <1>1, <2>3, <3>1
  <2> HIDE DEF n
  <2> QED
    BY <1>2, <2>1, <2>2, <2>3 DEF QuotedAt
<1>5. DigitsAt(t, 1, n) <=> DigitsAt(l, a, b)
  <2>1. 1 <= n /\ a <= b
    BY <1>0
  <2>2. ASSUME \A j \in 1..n : t[j] \in Digits
        PROVE  \A j \in a..b : l[j] \in Digits
    BY <1>1, <2>2
  <2>3. ASSUME \A j \in a..b : l[j] \in Digits
        PROVE  \A j \in 1..n : t[j] \in Digits
    <3> SUFFICES ASSUME NEW j \in 1..n
                 PROVE  t[j] \in Digits
      OBVIOUS
    <3>1. a + j - 1 \in a..b
      BY <1>0
    <3> QED
      BY <1>1, <2>3, <3>1
  <2> HIDE DEF n
  <2> QED
    BY <2>1, <2>2, <2>3 DEF DigitsAt
<1>6. ASSUME NEW d, DecimalAt(l, a, d, b)
      PROVE  DecimalAt(t, 1, d + 1 - a, n)
  <2>1. d \in (a + 1)..b /\ l[d] = Dot /\ \A j \in a..b : j # d => l[j] \in Digits
    BY <1>6 DEF DecimalAt
  <2>2. d + 1 - a \in (1 + 1)..n /\ d \in a..b
    BY <1>0, <2>1
  <2>3. t[d + 1 - a] = Dot
    BY <1>1, <2>1, <2>2
  <2>4. ASSUME NEW j \in 1..n, j # d + 1 - a
        PROVE  t[j] \in Digits
    <3>1. a + j - 1 \in a..b /\ a + j - 1 # d
      BY <1>0, <2>1, <2>4
    <3> QED
      BY <1>1, <2>1, <3>1
  <2> QED
    BY <2>2, <2>3, <2>4 DEF DecimalAt
<1>7. ASSUME NEW e \in 1..n, DecimalAt(t, 1, e, n)
      PROVE  \E d \in a..b : DecimalAt(l, a, d, b)
  <2> DEFINE d == a + e - 1
  <2>1. e \in (1 + 1)..n /\ t[e] = Dot /\ \A j \in 1..n : j # e => t[j] \in Digits
    BY <1>7 DEF DecimalAt
  <2>2. d \in (a + 1)..b /\ d \in a..b /\ l[d] = Dot
    <3>1. d \in (a + 1)..b /\ d \in a..b
      BY <1>0, <2>1
    <3> HIDE DEF n
    <3>2. t[e] = l[a + e - 1]
      BY <1>1, <1>7
    <3> QED
      BY <2>1, <3>1, <3>2
  <2>3. ASSUME NEW j \in a..b, j # d
        PROVE  l[j] \in Digits
    <3>1. j + 1 - a # e
      BY <1>0, <2>3
    <3>2. t[j + 1 - a] \in Digits
      BY <1>1, <2>1, <3>1
    <3> QED
      BY <1>1, <3>2
  <2> HIDE DEF d
  <2>4. DecimalAt(l, a, d, b)
    BY <2>2, <2>3 DEF DecimalAt
  <2> QED
    BY <2>2, <2>4
<1>8. /\ QuotedAt(t, 1, n) =>
           Literal(t) = {[elem_type |-> ELEM_STRING, value |-> SubSeq(t, 2, n - 1)]}
      /\ DigitsAt(t, 1, n) =>
           Literal(t) = {[elem_type |-> ELEM_INT, value |-> v] : v \in stoi(t)}
      /\ \A d : DecimalAt(t, 1, d, n) =>
           Literal(t) = {[elem_type |-> ELEM_FLOAT, value |-> v] : v \in stod(t)}
      /\ Literal(t) # {} =>
           \/ QuotedAt(t, 1, n) \/ DigitsAt(t, 1, n)
           \/ \E d \in 1..n : DecimalAt(t, 1, d, n)
  <2> HIDE DEF n
  <2>1. n = Len(t)
    BY <1>1
  <2>2. t \in Seq(Nat) /\ t # << >>
    BY <1>1, <1>2
  <2> QED
    BY ONLY <2>1, <2>2, LiteralOfText
<1> HIDE DEF n
<1>9. QuotedAt(l, a, b) =>
        Literal(t) = {[elem_type |-> ELEM_STRING, value |-> SubSeq(l, a + 1, b - 1)]}
  BY ONLY <1>3, <1>4, <1>8
<1>10. DigitsAt(l, a, b) =>
         Literal(t) = {[elem_type |-> ELEM_INT, value |-> v] : v \in stoi(t)}
  BY ONLY <1>5, <1>8
<1>11. \A d : DecimalAt(l, a, d, b) =>
         Literal(t) = {[elem_type |-> ELEM_FLOAT, value |-> v] : v \in stod(t)}
  BY ONLY <1>6, <1>8
<1>12. Literal(t) # {} =>
         \/ QuotedAt(l, a, b) \/ DigitsAt(l, a, b)
         \/ \E d \in a..b : DecimalAt(l, a, d, b)
  BY ONLY <1>4, <1>5, <1>7, <1>8
<1> QED
  BY ONLY <1>9, <1>10, <1>11, <1>12 DEF t

(* What an element of a pattern looks like: a type, "(" at o, a text in    *)
(* quotes from q to r, and ")".                                            *)
PatternShape(l, a, o, q, r, b) ==
  /\ o \in (a + 1)..b /\ q \in (o + 1)..b /\ r \in (q + 1)..(b - 1)
  /\ l[o] = Open /\ QuotedAt(l, q, r) /\ l[b] = Close
  /\ \A j \in (a + 1)..(o - 1) : l[j] = Blank
  /\ \A j \in (o + 1)..(q - 1) : l[j] = Blank
  /\ \A j \in (r + 1)..(b - 1) : l[j] = Blank

(* The patterns of that type and text: one at most.                        *)
Patterns(l, a, q, r) ==
  UNION {Construct(t, SubSeq(l, q + 1, r - 1)) :
           t \in {u \in ElemType : l[a] = TypeWord[u]}}

(* Stripped finds the parentheses and the quotes where they are.           *)
LEMMA PatternLiteralOf ==
  ASSUME NEW l \in Seq(Nat), NEW a \in 1..Len(l), NEW b \in (a + 1)..Len(l),
         NEW o, Bare(l, a + 1, b, o, b), o + 2 <= b,
         NEW q, NEW r, Bare(l, o + 1, b - 1, q, r)
  PROVE  PatternLiteral(SubSeq(l, a, b))
           = IF l[o] = Open /\ l[b] = Close /\ QuotedAt(l, q, r)
             THEN Patterns(l, a, q, r) ELSE {}
<1> DEFINE text == SubSeq(l, a, b)
           body == Stripped(Tail(text))
           arg  == Stripped(SubSeq(body, 2, Len(body) - 1))
           in   == SubSeq(arg, 2, Len(arg) - 1)
<1>0. /\ Len(l) \in Nat /\ a \in Nat \ {0} /\ b \in Nat /\ a < b /\ b <= Len(l)
      /\ o \in (a + 1)..b /\ o \in Nat /\ q \in (o + 1)..(b - 1) /\ r \in q..(b - 1)
      /\ q \in Nat \ {0} /\ r \in Nat /\ r <= Len(l) /\ a <= b + 1 /\ o <= b + 1
      /\ a + 1 \in Nat \ {0} /\ a + 1 <= b + 1 /\ q <= r + 1 /\ o \in Nat \ {0}
      /\ b \in a..Len(l)
  BY LenProperties DEF Bare
<1>1. Len(text) = b + 1 - a /\ text[1] = l[a]
  <2>1. /\ Len(text) = b + 1 - a
        /\ \A i \in a..b : text[i + 1 - a] = l[i]
    BY <1>0, InSubSeq
  <2>2. a \in a..b /\ a + 1 - a = 1
    BY <1>0
  <2> QED
    BY ONLY <2>1, <2>2
<1>2. Tail(text) = SubSeq(l, a + 1, b)
  BY <1>0, HeadTailOfSubSeq
<1>3. body = SubSeq(l, o, b)
  <2> DEFINE x == a + 1
  <2> HIDE DEF x
  <2>1. /\ l \in Seq(Nat) /\ x \in Nat \ {0} /\ b \in Nat /\ x <= b + 1 /\ b <= Len(l)
        /\ Bare(l, x, b, o, b)
    BY <1>0 DEF x
  <2>2. Stripped(SubSeq(l, x, b)) = SubSeq(l, o, b)
    BY ONLY <2>1, PieceIs
  <2> QED
    BY <1>2, <2>2 DEF x
<1> HIDE DEF body
<1>4. /\ Len(body) = b + 1 - o /\ body[1] = l[o] /\ body[b + 1 - o] = l[b]
  <2>1. /\ Len(body) = b + 1 - o
        /\ \A i \in o..b : body[i + 1 - o] = l[i]
    BY <1>0, <1>3, InSubSeq
  <2>2. o \in o..b /\ b \in o..b /\ o + 1 - o = 1
    BY <1>0
  <2> QED
    BY <2>1, <2>2
<1>5. SubSeq(body, 2, Len(body) - 1) = SubSeq(l, o + 1, b - 1)
  <2>1. /\ o + 1 \in o..(b + 1) /\ b - 1 \in Nat /\ o + 1 <= (b - 1) + 1 /\ b - 1 <= b
        /\ (o + 1) + 1 - o = 2 /\ (b - 1) + 1 - o = (b + 1 - o) - 1
        /\ o \in Nat \ {0}
    BY <1>0
  <2>2. SubSeq(SubSeq(l, o, b), (o + 1) + 1 - o, (b - 1) + 1 - o) = SubSeq(l, o + 1, b - 1)
    BY ONLY <1>0, <2>1, PartOfPart, l \in Seq(Nat)
  <2> QED
    BY ONLY <1>3, <1>4, <2>1, <2>2
<1>6. arg = SubSeq(l, q, r)
  <2> DEFINE x == o + 1
             y == b - 1
  <2>a. x \in Nat \ {0} /\ y \in Nat /\ x <= y + 1 /\ y <= Len(l)
    BY ONLY <1>0
  <2>b. l \in Seq(Nat) /\ Bare(l, x, y, q, r)
    OBVIOUS
  <2> HIDE DEF x, y
  <2>1. /\ l \in Seq(Nat) /\ x \in Nat \ {0} /\ y \in Nat /\ x <= y + 1 /\ y <= Len(l)
        /\ Bare(l, x, y, q, r)
    BY ONLY <2>a, <2>b
  <2>2. Stripped(SubSeq(l, x, y)) = SubSeq(l, q, r)
    BY ONLY <2>1, PieceIs
  <2> QED
    BY <1>5, <2>2 DEF x, y
<1> HIDE DEF arg
<1>7. /\ Len(arg) = r + 1 - q /\ arg[1] = l[q] /\ arg[r + 1 - q] = l[r]
  <2>1. /\ Len(arg) = r + 1 - q
        /\ \A i \in q..r : arg[i + 1 - q] = l[i]
    BY <1>0, <1>6, InSubSeq
  <2>2. q \in q..r /\ r \in q..r /\ q + 1 - q = 1
    BY <1>0
  <2> QED
    BY <2>1, <2>2
<1>8. ASSUME q < r
      PROVE  /\ in = SubSeq(l, q + 1, r - 1)
             /\ Quote \in ToSet(in) <=> \E j \in (q + 1)..(r - 1) : l[j] = Quote
  <2>1. /\ q + 1 \in q..(r + 1) /\ r - 1 \in Nat /\ q + 1 <= (r - 1) + 1 /\ r - 1 <= r
        /\ (q + 1) + 1 - q = 2 /\ (r - 1) + 1 - q = (r + 1 - q) - 1
        /\ q \in Nat \ {0}
    BY <1>0, <1>8
  <2>2. SubSeq(SubSeq(l, q, r), (q + 1) + 1 - q, (r - 1) + 1 - q) = SubSeq(l, q + 1, r - 1)
    BY ONLY <1>0, <2>1, PartOfPart, l \in Seq(Nat)
  <2>3. in = SubSeq(l, q + 1, r - 1)
    BY ONLY <1>6, <1>7, <2>1, <2>2
  <2> HIDE DEF in
  <2>4. /\ in \in Seq(Nat) /\ Len(in) = (r - 1) + 1 - (q + 1)
        /\ \A i \in 1..((r - 1) + 1 - (q + 1)) : in[i] = l[(q + 1) + i - 1]
        /\ \A i \in (q + 1)..(r - 1) : /\ i + 1 - (q + 1) \in 1..((r - 1) + 1 - (q + 1))
                                       /\ in[i + 1 - (q + 1)] = l[i]
    <3>1. q + 1 \in Nat \ {0} /\ r - 1 \in Nat /\ q + 1 <= (r - 1) + 1 /\ r - 1 <= Len(l)
      BY ONLY <1>0, <1>8
    <3> DEFINE x == q + 1
               y == r - 1
    <3> HIDE DEF x, y
    <3>2. /\ in = SubSeq(l, x, y) /\ x \in Nat \ {0} /\ y \in Nat /\ x <= y + 1
          /\ y <= Len(l)
      BY <2>3, <3>1 DEF x, y
    <3>a. l \in Seq(Nat)
      OBVIOUS
    <3>3. in \in Seq(Nat) /\ Len(in) = y + 1 - x
      BY ONLY <3>a, <3>2, InSubSeq
    <3>4. \A i \in 1..(y + 1 - x) : in[i] = l[x + i - 1]
      BY ONLY <3>a, <3>2, InSubSeq
    <3>5. \A i \in x..y : i + 1 - x \in 1..(y + 1 - x) /\ in[i + 1 - x] = l[i]
      BY ONLY <3>a, <3>2, InSubSeq
    <3> QED
      BY <3>3, <3>4, <3>5 DEF x, y
  <2>5. DOMAIN in = 1..Len(in)
    BY <2>4, LenProperties
  <2>6. ToSet(in) = {in[i] : i \in 1..Len(in)}
    BY <2>5 DEF ToSet
  <2>7. ASSUME NEW i \in 1..Len(in), in[i] = Quote
        PROVE  \E j \in (q + 1)..(r - 1) : l[j] = Quote
    <3>1. (q + 1) + i - 1 \in (q + 1)..(r - 1) /\ i \in 1..((r - 1) + 1 - (q + 1))
      BY <1>0, <2>4
    <3>2. l[(q + 1) + i - 1] = Quote
      BY <2>4, <2>7, <3>1
    <3> QED
      BY <3>1, <3>2
  <2>8. ASSUME NEW j \in (q + 1)..(r - 1), l[j] = Quote
        PROVE  \E i \in 1..Len(in) : in[i] = Quote
    BY <2>4, <2>8
  <2> QED
    BY <2>3, <2>6, <2>7, <2>8
<1>9. /\ ~(Len(text) < 4 \/ Len(body) < 3)
      /\ Len(arg) < 2 <=> ~(q < r)
  <2>1. b + 1 - a >= 4 /\ b + 1 - o >= 3 /\ (r + 1 - q < 2 <=> ~(q < r))
    <3>1. o + 2 <= b
      OBVIOUS
    <3> QED
      BY ONLY <1>0, <3>1
  <2> HIDE DEF text
  <2> QED
    BY <1>1, <1>4, <1>7, <2>1
<1>10. PatternLiteral(text) =
         IF \/ body[1] # Open \/ body[Len(body)] # Close
            \/ Len(arg) < 2 \/ arg[1] # Quote \/ arg[Len(arg)] # Quote
            \/ Quote \in ToSet(in)
         THEN {}
         ELSE UNION {Construct(t, in) : t \in {u \in ElemType : text[1] = TypeWord[u]}}
  BY <1>9, Zenon DEF PatternLiteral, body, arg
<1> HIDE DEF text, in
<1>11. CASE q < r
  <2>1. PatternLiteral(text) =
         IF \/ l[o] # Open \/ l[b] # Close
            \/ l[q] # Quote \/ l[r] # Quote
            \/ \E j \in (q + 1)..(r - 1) : l[j] = Quote
         THEN {}
         ELSE UNION {Construct(t, in) : t \in {u \in ElemType : text[1] = TypeWord[u]}}
    BY <1>4, <1>7, <1>8, <1>9, <1>10, <1>11
  <2>2. QuotedAt(l, q, r) <=> /\ l[q] = Quote /\ l[r] = Quote
                              /\ ~\E j \in (q + 1)..(r - 1) : l[j] = Quote
    BY <1>11 DEF QuotedAt
  <2>3. UNION {Construct(t, in) : t \in {u \in ElemType : text[1] = TypeWord[u]}}
          = Patterns(l, a, q, r)
    BY <1>1, <1>8, <1>11 DEF Patterns
  <2> QED
    BY <2>1, <2>2, <2>3 DEF text
<1>12. CASE ~(q < r)
  BY <1>9, <1>10, <1>12 DEF QuotedAt, text
<1> QED
  BY <1>11, <1>12

(* So a part of a line means a pattern if it looks like one.               *)
LEMMA PatternLiteralIs ==
  ASSUME NEW l \in Seq(Nat), NEW a \in 1..Len(l), NEW b \in a..Len(l), l[b] # Blank
  PROVE  /\ \A o, q, r : PatternShape(l, a, o, q, r, b) =>
                           PatternLiteral(SubSeq(l, a, b)) = Patterns(l, a, q, r)
         /\ PatternLiteral(SubSeq(l, a, b)) # {} =>
              \E o, q, r : PatternShape(l, a, o, q, r, b)
<1> DEFINE text == SubSeq(l, a, b)
           body == Stripped(Tail(text))
           arg  == Stripped(SubSeq(body, 2, Len(body) - 1))
<1>0. /\ Len(l) \in Nat /\ a \in Nat \ {0} /\ b \in Nat
      /\ a <= b /\ b <= Len(l) /\ b \in a..Len(l)
  BY LenProperties
<1>1. ASSUME NEW o, NEW q, NEW r, PatternShape(l, a, o, q, r, b)
      PROVE  PatternLiteral(text) = Patterns(l, a, q, r)
  <2>1. /\ o \in (a + 1)..b /\ q \in (o + 1)..b /\ r \in (q + 1)..(b - 1)
        /\ l[o] = Open /\ QuotedAt(l, q, r) /\ l[b] = Close
        /\ \A j \in (a + 1)..(o - 1) : l[j] = Blank
        /\ \A j \in (o + 1)..(q - 1) : l[j] = Blank
        /\ \A j \in (r + 1)..(b - 1) : l[j] = Blank
    BY <1>1 DEF PatternShape
  <2>2. l[o] # Blank /\ l[q] # Blank /\ l[r] # Blank
    BY <2>1 DEF QuotedAt, Open, Quote, Blank
  <2>3. Bare(l, a + 1, b, o, b)
    <3>1. b \in o..b /\ \A j \in (b + 1)..b : l[j] = Blank
      BY <1>0, <2>1
    <3> QED
      BY <2>1, <2>2, <3>1 DEF Bare
  <2>4. Bare(l, o + 1, b - 1, q, r)
    <3>1. q \in (o + 1)..(b - 1) /\ r \in q..(b - 1)
      BY <1>0, <2>1
    <3> QED
      BY <2>1, <2>2, <3>1 DEF Bare
  <2>5. b \in (a + 1)..Len(l) /\ o + 2 <= b
    BY <1>0, <2>1
  <2>6. PatternLiteral(text)
          = IF l[o] = Open /\ l[b] = Close /\ QuotedAt(l, q, r)
            THEN Patterns(l, a, q, r) ELSE {}
    BY <2>3, <2>4, <2>5, PatternLiteralOf
  <2> QED
    BY ONLY <2>1, <2>6
<1>2. ASSUME PatternLiteral(text) # {}
      PROVE  \E o, q, r : PatternShape(l, a, o, q, r, b)
  <2>1. ~(Len(text) < 4) /\ ~(Len(body) < 3) /\ ~(Len(arg) < 2)
    BY <1>2, Zenon DEF PatternLiteral, body, arg
  <2>2. Len(text) = b + 1 - a
    <3>1. a <= b + 1
      BY <1>0
    <3> QED
      BY <1>0, <3>1, InSubSeq
  <2>3. a < b
    <3> HIDE DEF text
    <3> QED
      BY <1>0, <2>1, <2>2
  <2> DEFINE x == a + 1
  <2>4. x \in Nat \ {0} /\ x <= b + 1 /\ x <= b
    BY <1>0, <2>3
  <2>5. Tail(text) = SubSeq(l, x, b)
    BY <1>0, HeadTailOfSubSeq
  <2> HIDE DEF x, text, arg
  <2>6. PICK o : Bare(l, x, b, o, b)
    <3>1. /\ \A o, c : Bare(l, x, b, o, c) => Stripped(SubSeq(l, x, b)) = SubSeq(l, o, c)
          /\ (\A j \in x..b : l[j] = Blank) => Stripped(SubSeq(l, x, b)) = << >>
      BY <1>0, <2>4, PieceIs
    <3>2. \/ \A j \in x..b : l[j] = Blank
          \/ \E o, c \in x..b : Bare(l, x, b, o, c)
      BY <1>0, <2>4, PieceEnds
    <3>3. ~\A j \in x..b : l[j] = Blank
      BY <1>0, <2>4
    <3>4. PICK o, c \in x..b : Bare(l, x, b, o, c)
      BY <3>2, <3>3
    <3>5. c = b
      <4>1. \A j \in (c + 1)..b : l[j] = Blank
        BY <3>4 DEF Bare
      <4>2. b \notin (c + 1)..b
        BY <4>1
      <4> QED
        BY <1>0, <2>4, <4>2
    <3> QED
      BY <3>4, <3>5
  <2>7. o \in x..b /\ o \in Nat \ {0} /\ l[o] # Blank
    BY <1>0, <2>4, <2>6 DEF Bare
  <2>8. body = SubSeq(l, o, b)
    <3>1. l \in Seq(Nat)
      OBVIOUS
    <3>2. Stripped(SubSeq(l, x, b)) = SubSeq(l, o, b)
      BY ONLY <1>0, <2>4, <2>6, <3>1, PieceIs
    <3> QED
      BY <2>5, <3>2
  <2> HIDE DEF body
  <2>9. Len(body) = b + 1 - o
    <3>1. o <= b + 1
      BY <1>0, <2>7
    <3> QED
      BY <1>0, <2>7, <2>8, <3>1, InSubSeq
  <2>10. o + 2 <= b
    BY <1>0, <2>1, <2>7, <2>9
  <2>11. SubSeq(body, 2, Len(body) - 1) = SubSeq(l, o + 1, b - 1)
    <3>1. /\ o + 1 \in o..(b + 1) /\ b - 1 \in Nat /\ o + 1 <= (b - 1) + 1 /\ b - 1 <= b
          /\ (o + 1) + 1 - o = 2 /\ (b - 1) + 1 - o = (b + 1 - o) - 1
      BY <1>0, <2>7, <2>10
    <3>2. SubSeq(SubSeq(l, o, b), (o + 1) + 1 - o, (b - 1) + 1 - o)
            = SubSeq(l, o + 1, b - 1)
      BY ONLY <1>0, <2>7, <3>1, PartOfPart, l \in Seq(Nat)
    <3> QED
      BY ONLY <2>8, <2>9, <3>1, <3>2
  <2> DEFINE y == o + 1
             z == b - 1
  <2>12. y \in Nat \ {0} /\ z \in Nat /\ y <= z + 1 /\ z <= Len(l)
    BY <1>0, <2>7, <2>10
  <2> HIDE DEF y, z
  <2>13. PICK q, r : Bare(l, y, z, q, r)
    <3>1. (\A j \in y..z : l[j] = Blank) => Stripped(SubSeq(l, y, z)) = << >>
      BY <2>12, PieceIs
    <3>2. \/ \A j \in y..z : l[j] = Blank
          \/ \E q, r \in y..z : Bare(l, y, z, q, r)
      BY <2>12, PieceEnds
    <3>3. arg = Stripped(SubSeq(l, y, z))
      BY <2>11 DEF arg, y, z
    <3>4. arg # << >>
      <4>1. Len(<< >>) = 0
        OBVIOUS
      <4> QED
        BY <2>1, <4>1
    <3> QED
      BY <3>1, <3>2, <3>3, <3>4
  <2>14. PatternLiteral(text)
          = IF l[o] = Open /\ l[b] = Close /\ QuotedAt(l, q, r)
            THEN Patterns(l, a, q, r) ELSE {}
    <3>1. b \in (a + 1)..Len(l)
      BY <1>0, <2>3
    <3>2. Bare(l, a + 1, b, o, b) /\ Bare(l, o + 1, b - 1, q, r)
      BY <2>6, <2>13 DEF x, y, z
    <3> QED
      BY <2>10, <3>1, <3>2, PatternLiteralOf DEF text
  <2>15. l[o] = Open /\ l[b] = Close /\ QuotedAt(l, q, r)
    BY <1>2, <2>14 DEF text
  <2>16. PatternShape(l, a, o, q, r, b)
    <3>1. /\ q \in y..z /\ r \in q..z
          /\ \A j \in y..(q - 1) : l[j] = Blank
          /\ \A j \in (r + 1)..z : l[j] = Blank
      BY <2>13 DEF Bare
    <3>2. \A j \in x..(o - 1) : l[j] = Blank
      BY <2>6 DEF Bare
    <3>3. q < r
      BY <2>15 DEF QuotedAt
    <3>4. o \in (a + 1)..b /\ q \in (o + 1)..b /\ r \in (q + 1)..(b - 1)
      <4>1. o \in (a + 1)..b /\ q \in (o + 1)..(b - 1) /\ r \in q..(b - 1)
        BY <2>7, <3>1 DEF x, y, z
      <4> QED
        BY ONLY <1>0, <3>3, <4>1
    <3> QED
      BY <2>15, <3>1, <3>2, <3>4 DEF PatternShape, x, y, z
  <2> QED
    BY <2>16
<1> QED
  BY <1>1, <1>2

-----------------------------------------------------------------------------
(* What the parser reads at a position                                     *)

(* A character of the line.                                                *)
LEMMA CharIs ==
  ASSUME line \in Seq(Nat), NEW i \in 1..Len(line)
  PROVE  CharAt(i) = line[i] /\ Len(line) \in Nat /\ i # npos
<1>1. Len(line) \in Nat
  BY LenProperties
<1> QED
  BY <1>1 DEF CharAt, npos

(* What ends behind an integer.                                            *)
IntegerAt(a, b) ==
  DigitsAt(line, a, b) /\ b < Len(line) /\ line[b + 1] \notin Digits \cup {Dot}

(* What ends behind a decimal fraction.                                    *)
FractionAt(a, d, b) ==
  DecimalAt(line, a, d, b) /\ b < Len(line) /\ line[b + 1] \notin Digits

(* Behind a quote the parser reads up to the next one.                     *)
LEMMA QuotedIsRead ==
  ASSUME line \in Seq(Nat), NEW a \in 1..Len(line), line[a] = Quote
  PROVE  /\ \A b \in a..Len(line) : QuotedAt(line, a, b) =>
              TupleElemAt(a) = {Elem(ELEM_STRING, SubSeq(line, a + 1, b - 1), b + 1)}
         /\ TupleElemAt(a) # {} => \E b \in a..Len(line) : QuotedAt(line, a, b)
<1> DEFINE end == find(line, {Quote}, a + 1)
<1>0. CharAt(a) = Quote /\ Len(line) \in Nat /\ a + 1 \in Nat \ {0}
  BY CharIs
<1>1. TupleElemAt(a) = IF end = npos THEN {}
                       ELSE {Elem(ELEM_STRING, SubSeq(line, a + 1, end - 1), end + 1)}
  BY <1>0 DEF TupleElemAt, StringElem, Text
<1>2. /\ end \in ((a + 1)..Len(line)) \cup {npos}
      /\ end # npos => line[end] \in {Quote}
      /\ \A j \in (a + 1)..Len(line) : line[j] \in {Quote} => end # npos /\ end <= j
  BY <1>0, findProperties
<1>3. ASSUME NEW b \in a..Len(line), QuotedAt(line, a, b)
      PROVE  end = b /\ end # npos
  <2>1. b \in (a + 1)..Len(line) /\ line[b] \in {Quote}
    BY <1>0, <1>3 DEF QuotedAt
  <2>2. \A j \in (a + 1)..(b - 1) : line[j] \notin {Quote}
    BY <1>3 DEF QuotedAt
  <2>3. end = b
    BY <1>0, <2>1, <2>2, FoundAt
  <2>4. b # npos
    BY <2>1 DEF npos
  <2> QED
    BY ONLY <2>3, <2>4
<1>4. ASSUME end # npos
      PROVE  \E b \in a..Len(line) : QuotedAt(line, a, b)
  <2> HIDE DEF end
  <2>1. end \in (a + 1)..Len(line) /\ line[end] = Quote
    BY <1>2, <1>4
  <2>2. \A j \in (a + 1)..(end - 1) : line[j] # Quote
    <3> SUFFICES ASSUME NEW j \in (a + 1)..(end - 1), line[j] = Quote
                 PROVE  FALSE
      OBVIOUS
    <3>1. j \in (a + 1)..Len(line) /\ ~(end <= j)
      BY <1>0, <2>1
    <3> QED
      BY <1>2, <3>1
  <2>3. end \in a..Len(line) /\ a < end
    BY <1>0, <2>1
  <2> QED
    BY <2>1, <2>2, <2>3 DEF QuotedAt
<1> HIDE DEF end
<1> QED
  BY <1>1, <1>3, <1>4

(* At a digit it reads as many as follow, and a point with its digits.     *)
LEMMA NumberIsRead ==
  ASSUME line \in Seq(Nat), NEW a \in 1..Len(line), line[a] \in Digits
  PROVE  /\ \A b \in a..Len(line) : IntegerAt(a, b) =>
              TupleElemAt(a) = {Elem(ELEM_INT, v, b + 1) : v \in stoi(SubSeq(line, a, b))}
         /\ \A b \in a..Len(line) : \A d : FractionAt(a, d, b) =>
              TupleElemAt(a) = {Elem(ELEM_FLOAT, v, b + 1) : v \in stod(SubSeq(line, a, b))}
         /\ TupleElemAt(a) # {} =>
              \E b \in a..Len(line) : IntegerAt(a, b) \/ \E d \in a..b : FractionAt(a, d, b)
<1> DEFINE end  == find_first_not_of(line, Digits, a + 1)
           end2 == find_first_not_of(line, Digits, end + 1)
<1>0. CharAt(a) = line[a] /\ Len(line) \in Nat /\ a + 1 \in Nat \ {0}
  BY CharIs
<1>a. Quote \notin Digits /\ Dot \notin Digits
  BY DEF Quote, Dot, Digits
<1>1. TupleElemAt(a) =
        IF end = npos THEN {}
        ELSE IF line[end] # Dot
        THEN {Elem(ELEM_INT, v, end) : v \in stoi(SubSeq(line, a, end - 1))}
        ELSE IF end2 = npos THEN {}
        ELSE {Elem(ELEM_FLOAT, v, end2) : v \in stod(SubSeq(line, a, end2 - 1))}
  BY <1>0, <1>a DEF TupleElemAt, NumberElem, Text
<1>2. /\ end \in ((a + 1)..Len(line)) \cup {npos}
      /\ end # npos => line[end] \notin Digits
      /\ \A j \in (a + 1)..Len(line) : line[j] \notin Digits => end # npos /\ end <= j
  BY <1>0, findNotProperties
<1>3. ASSUME end # npos
      PROVE  /\ end2 \in ((end + 1)..Len(line)) \cup {npos}
             /\ end2 # npos => line[end2] \notin Digits
             /\ \A j \in (end + 1)..Len(line) : line[j] \notin Digits => end2 <= j
  <2> HIDE DEF end
  <2>1. end + 1 \in Nat \ {0}
    BY <1>0, <1>2, <1>3
  <2> QED
    BY <1>0, <2>1, findNotProperties
<1>4. ASSUME NEW b \in a..Len(line), IntegerAt(a, b)
      PROVE  end = b + 1 /\ end # npos /\ line[end] # Dot
  <2>1. b + 1 \in (a + 1)..Len(line) /\ line[b + 1] \notin Digits /\ line[b + 1] # Dot
    BY <1>0, <1>4 DEF IntegerAt
  <2>2. \A j \in (a + 1)..((b + 1) - 1) : line[j] \in Digits
    <3>1. \A j \in a..b : line[j] \in Digits
      BY <1>4 DEF IntegerAt, DigitsAt
    <3>2. \A j \in (a + 1)..((b + 1) - 1) : j \in a..b
      BY <1>0
    <3> QED
      BY <3>1, <3>2
  <2>3. end = b + 1
    BY <1>0, <2>1, <2>2, FoundNotAt
  <2>4. b + 1 # npos
    BY <2>1 DEF npos
  <2> QED
    BY ONLY <2>1, <2>3, <2>4
<1>5. ASSUME NEW b \in a..Len(line), NEW d, FractionAt(a, d, b)
      PROVE  end = d /\ end # npos /\ line[end] = Dot /\ end2 = b + 1 /\ end2 # npos
  <2>1. /\ d \in (a + 1)..b /\ line[d] = Dot
        /\ \A j \in a..b : j # d => line[j] \in Digits
        /\ b < Len(line) /\ line[b + 1] \notin Digits
    BY <1>5 DEF FractionAt, DecimalAt
  <2>2. d \in (a + 1)..Len(line) /\ line[d] \notin Digits
    BY <1>0, <1>a, <2>1
  <2>3. \A j \in (a + 1)..(d - 1) : line[j] \in Digits
    <3>1. \A j \in (a + 1)..(d - 1) : j \in a..b /\ j # d
      BY <1>0, <2>1
    <3> QED
      BY <2>1, <3>1
  <2>4. end = d
    BY <1>0, <2>2, <2>3, FoundNotAt
  <2>5. d + 1 \in Nat \ {0} /\ b + 1 \in (d + 1)..Len(line)
    BY <1>0, <2>1
  <2>6. \A j \in (d + 1)..((b + 1) - 1) : line[j] \in Digits
    <3>1. \A j \in (d + 1)..((b + 1) - 1) : j \in a..b /\ j # d
      BY <1>0, <2>1
    <3> QED
      BY <2>1, <3>1
  <2>7. find_first_not_of(line, Digits, d + 1) = b + 1
    BY <1>0, <2>1, <2>5, <2>6, FoundNotAt
  <2>8. b + 1 # npos /\ d # npos
    BY <2>2, <2>5 DEF npos
  <2> QED
    BY ONLY <2>1, <2>4, <2>7, <2>8
<1>6. ASSUME end # npos, line[end] # Dot
      PROVE  \E b \in a..Len(line) : IntegerAt(a, b)
  <2> DEFINE b == end - 1
  <2> HIDE DEF end
  <2>1. end \in (a + 1)..Len(line) /\ line[end] \notin Digits
    BY <1>2, <1>6
  <2>2. b \in a..Len(line) /\ b < Len(line) /\ b + 1 = end /\ a <= b
    BY <1>0, <2>1
  <2>3. ASSUME NEW j \in a..b
        PROVE  line[j] \in Digits
    <3>1. j = a \/ (j \in (a + 1)..Len(line) /\ ~(end <= j))
      BY <1>0, <2>1
    <3> QED
      BY <1>2, <3>1
  <2> HIDE DEF b
  <2>4. IntegerAt(a, b)
    BY <1>6, <2>1, <2>2, <2>3 DEF IntegerAt, DigitsAt
  <2> QED
    BY <2>2, <2>4
<1>7. ASSUME end # npos, line[end] = Dot, end2 # npos
      PROVE  \E b \in a..Len(line) : \E d \in a..b : FractionAt(a, d, b)
  <2> DEFINE b == end2 - 1
  <2> HIDE DEF end, end2
  <2>1. /\ end \in (a + 1)..Len(line) /\ end2 \in (end + 1)..Len(line)
        /\ line[end2] \notin Digits
    BY <1>2, <1>3, <1>7
  <2>2. /\ b \in a..Len(line) /\ b < Len(line) /\ b + 1 = end2
        /\ end \in (a + 1)..b /\ end \in a..b
    BY <1>0, <2>1
  <2>3. ASSUME NEW j \in a..b, j # end
        PROVE  line[j] \in Digits
    <3>1. \/ j = a
          \/ j \in (a + 1)..Len(line) /\ ~(end <= j)
          \/ j \in (end + 1)..Len(line) /\ ~(end2 <= j)
      BY <1>0, <2>1, <2>3
    <3> QED
      BY <1>2, <1>3, <1>7, <3>1
  <2> HIDE DEF b
  <2>4. FractionAt(a, end, b)
    BY <1>7, <2>1, <2>2, <2>3 DEF FractionAt, DecimalAt
  <2> QED
    BY <2>2, <2>4
<1> HIDE DEF end, end2
<1>8. TupleElemAt(a) # {} => end # npos /\ (line[end] = Dot => end2 # npos)
  BY <1>1
<1>9. ASSUME NEW b \in a..Len(line), IntegerAt(a, b)
      PROVE  TupleElemAt(a) = {Elem(ELEM_INT, v, b + 1) : v \in stoi(SubSeq(line, a, b))}
  <2>1. (b + 1) - 1 = b
    BY <1>0
  <2> QED
    BY <1>1, <1>4, <1>9, <2>1
<1>10. ASSUME NEW b \in a..Len(line), NEW d, FractionAt(a, d, b)
       PROVE  TupleElemAt(a) = {Elem(ELEM_FLOAT, v, b + 1) : v \in stod(SubSeq(line, a, b))}
  <2>1. (b + 1) - 1 = b
    BY <1>0
  <2> QED
    BY <1>1, <1>5, <1>10, <2>1
<1> QED
  BY <1>6, <1>7, <1>8, <1>9, <1>10

(* Of a pattern it reads what looks like one, and nothing else.            *)
LEMMA PatternIsRead ==
  ASSUME line \in Seq(Nat), NEW a \in 1..Len(line)
  PROVE  /\ \A b \in a..Len(line) : \A o, q, r : PatternShape(line, a, o, q, r, b) =>
              PatternAt(a) = {[elem |-> p, next |-> b + 1] : p \in Patterns(line, a, q, r)}
         /\ PatternAt(a) # {} =>
              \E b \in a..Len(line) : \E o, q, r : PatternShape(line, a, o, q, r, b)
<1> DEFINE open  == SkipTo(a + 1)
           quote == SkipTo(open + 1)
           end   == find(line, {Quote}, quote + 1)
           close == SkipTo(end + 1)
           types == {u \in ElemType : /\ CharAt(a) = TypeWord[u]
                                      /\ CharAt(open) = Open
                                      /\ CharAt(quote) = Quote
                                      /\ end # npos
                                      /\ CharAt(close) = Close}
<1>0. CharAt(a) = line[a] /\ Len(line) \in Nat /\ a + 1 \in Nat \ {0}
  BY CharIs
<1>a. Open # Blank /\ Close # Blank /\ Quote # Blank /\ Open # 0 /\ Close # 0 /\ Quote # 0
  BY DEF Open, Close, Quote, Blank
<1>1. PatternAt(a) = {[elem |-> p, next |-> close + 1] :
                        p \in UNION {Construct(t, SubSeq(line, quote + 1, end - 1)) :
                                       t \in types}}
  BY DEF PatternAt, Text
<1>2. /\ \A x \in Nat \ {0} :
           /\ SkipTo(x) \in (x..Len(line)) \cup {npos}
           /\ SkipTo(x) # npos => line[SkipTo(x)] # Blank
           /\ \A j \in x..Len(line) : line[j] # Blank => SkipTo(x) <= j
      /\ \A x \in Nat \ {0} : \A y \in x..Len(line) :
           line[y] # Blank /\ (\A j \in x..(y - 1) : line[j] = Blank) => SkipTo(x) = y
  <2>1. ASSUME NEW x \in Nat \ {0}
        PROVE  /\ SkipTo(x) \in (x..Len(line)) \cup {npos}
               /\ SkipTo(x) # npos => line[SkipTo(x)] # Blank
               /\ \A j \in x..Len(line) : line[j] # Blank => SkipTo(x) <= j
    <3> DEFINE i == find_first_not_of(line, {Blank}, x)
    <3>1. /\ i \in (x..Len(line)) \cup {npos}
          /\ i # npos => line[i] \notin {Blank}
          /\ \A j \in x..Len(line) : line[j] \notin {Blank} => i # npos /\ i <= j
      BY <1>0, findNotProperties
    <3> HIDE DEF i
    <3>2. SkipTo(x) = i
      BY DEF SkipTo, i
    <3> QED
      BY <3>1, <3>2
  <2>2. ASSUME NEW x \in Nat \ {0}, NEW y \in x..Len(line), line[y] # Blank,
               \A j \in x..(y - 1) : line[j] = Blank
        PROVE  SkipTo(x) = y
    <3>1. line[y] \notin {Blank} /\ \A j \in x..(y - 1) : line[j] \in {Blank}
      BY <2>2
    <3> QED
      BY <1>0, <3>1, FoundNotAt DEF SkipTo
  <2> QED
    BY <2>1, <2>2
<1>3. ASSUME NEW b \in a..Len(line), NEW o, NEW q, NEW r, PatternShape(line, a, o, q, r, b)
      PROVE  /\ open = o /\ quote = q /\ end = r /\ close = b
             /\ CharAt(o) = Open /\ CharAt(q) = Quote /\ CharAt(b) = Close /\ r # npos
  <2>1. /\ o \in (a + 1)..b /\ q \in (o + 1)..b /\ r \in (q + 1)..(b - 1)
        /\ line[o] = Open /\ line[q] = Quote /\ line[r] = Quote /\ line[b] = Close
        /\ \A j \in (q + 1)..(r - 1) : line[j] # Quote
        /\ \A j \in (a + 1)..(o - 1) : line[j] = Blank
        /\ \A j \in (o + 1)..(q - 1) : line[j] = Blank
        /\ \A j \in (r + 1)..(b - 1) : line[j] = Blank
    BY <1>3 DEF PatternShape, QuotedAt
  <2>2. /\ o \in (a + 1)..Len(line) /\ q \in (o + 1)..Len(line)
        /\ r \in (q + 1)..Len(line) /\ b \in (r + 1)..Len(line)
        /\ o + 1 \in Nat \ {0} /\ q + 1 \in Nat \ {0} /\ r + 1 \in Nat \ {0}
        /\ o \in 1..Len(line) /\ q \in 1..Len(line) /\ b \in 1..Len(line)
        /\ r \in 1..Len(line)
    BY <1>0, <2>1
  <2>3. open = o
    BY <1>0, <1>2, <1>a, <2>1, <2>2
  <2>4. quote = q
    <3>1. SkipTo(o + 1) = q
      BY <1>2, <1>a, <2>1, <2>2
    <3> HIDE DEF open
    <3> QED
      BY <2>3, <3>1
  <2>5. end = r
    <3>1. line[r] \in {Quote} /\ \A j \in (q + 1)..(r - 1) : line[j] \notin {Quote}
      BY <2>1
    <3>2. find(line, {Quote}, q + 1) = r
      BY <1>0, <2>2, <3>1, FoundAt
    <3> HIDE DEF quote
    <3> QED
      BY <2>4, <3>2
  <2>6. close = b
    <3>1. SkipTo(r + 1) = b
      BY <1>2, <1>a, <2>1, <2>2
    <3> HIDE DEF end
    <3> QED
      BY <2>5, <3>1
  <2>7. CharAt(o) = Open /\ CharAt(q) = Quote /\ CharAt(b) = Close /\ r # npos
    BY <2>1, <2>2, CharIs
  <2> QED
    BY ONLY <2>3, <2>4, <2>5, <2>6, <2>7
<1>4. ASSUME types # {}
      PROVE  \E b \in a..Len(line) : \E o, q, r : PatternShape(line, a, o, q, r, b)
  <2>1. CharAt(open) = Open /\ CharAt(quote) = Quote /\ end # npos /\ CharAt(close) = Close
    BY <1>4
  <2>2. \A i \in Nat : CharAt(i) # 0 =>
          i \in 1..Len(line) /\ line[i] = CharAt(i) /\ i # npos
    BY <1>0 DEF CharAt, npos
  <2>3. open \in (a + 1)..Len(line) /\ line[open] = Open /\ open # npos
        /\ \A j \in (a + 1)..Len(line) : line[j] # Blank => open <= j
    <3> HIDE DEF quote, end, close
    <3>1. open \in ((a + 1)..Len(line)) \cup {npos}
          /\ \A j \in (a + 1)..Len(line) : line[j] # Blank => open <= j
      BY <1>0, <1>2
    <3> HIDE DEF open
    <3>2. open \in Nat
      BY <1>0, <3>1 DEF npos
    <3> QED
      BY <1>a, <2>1, <2>2, <3>1, <3>2
  <2>4. quote \in (open + 1)..Len(line) /\ line[quote] = Quote /\ quote # npos
        /\ \A j \in (open + 1)..Len(line) : line[j] # Blank => quote <= j
    <3> HIDE DEF open, end, close
    <3>1. open + 1 \in Nat \ {0}
      BY <1>0, <2>3
    <3>2. quote \in ((open + 1)..Len(line)) \cup {npos}
          /\ \A j \in (open + 1)..Len(line) : line[j] # Blank => quote <= j
      BY <1>0, <1>2, <3>1
    <3> HIDE DEF quote
    <3>3. quote \in Nat
      BY <1>0, <3>1, <3>2 DEF npos
    <3> QED
      BY <1>a, <2>1, <2>2, <3>2, <3>3
  <2>5. end \in (quote + 1)..Len(line) /\ line[end] = Quote
        /\ \A j \in (quote + 1)..Len(line) : line[j] = Quote => end <= j
    <3> HIDE DEF open, quote, close
    <3>1. quote + 1 \in Nat \ {0}
      BY <1>0, <2>3, <2>4
    <3>2. /\ end \in ((quote + 1)..Len(line)) \cup {npos}
          /\ end # npos => line[end] \in {Quote}
          /\ \A j \in (quote + 1)..Len(line) : line[j] \in {Quote} => end # npos /\ end <= j
      BY <1>0, <3>1, findProperties
    <3> HIDE DEF end
    <3> QED
      BY <2>1, <3>2
  <2>6. close \in (end + 1)..Len(line) /\ line[close] = Close
        /\ \A j \in (end + 1)..Len(line) : line[j] # Blank => close <= j
    <3> HIDE DEF open, quote, end
    <3>1. end + 1 \in Nat \ {0}
      BY <1>0, <2>3, <2>4, <2>5
    <3>2. close \in ((end + 1)..Len(line)) \cup {npos}
          /\ \A j \in (end + 1)..Len(line) : line[j] # Blank => close <= j
      BY <1>0, <1>2, <3>1
    <3> HIDE DEF close
    <3>3. close \in Nat
      BY <1>0, <3>1, <3>2 DEF npos
    <3> QED
      BY <1>a, <2>1, <2>2, <3>2, <3>3
  <2> HIDE DEF open, quote, end, close
  <2>7. /\ open \in (a + 1)..close /\ quote \in (open + 1)..close
        /\ end \in (quote + 1)..(close - 1)
        /\ close \in a..Len(line)
    BY <1>0, <2>3, <2>4, <2>5, <2>6
  <2>8. /\ \A j \in (a + 1)..(open - 1) : line[j] = Blank
        /\ \A j \in (open + 1)..(quote - 1) : line[j] = Blank
        /\ \A j \in (end + 1)..(close - 1) : line[j] = Blank
        /\ \A j \in (quote + 1)..(end - 1) : line[j] # Quote
    <3>1. ASSUME NEW j \in (a + 1)..(open - 1)
          PROVE  line[j] = Blank
      <4>1. j \in (a + 1)..Len(line) /\ ~(open <= j)
        BY <1>0, <2>3
      <4> QED
        BY <2>3, <4>1
    <3>2. ASSUME NEW j \in (open + 1)..(quote - 1)
          PROVE  line[j] = Blank
      <4>1. j \in (open + 1)..Len(line) /\ ~(quote <= j)
        BY <1>0, <2>3, <2>4
      <4> QED
        BY <2>4, <4>1
    <3>3. ASSUME NEW j \in (end + 1)..(close - 1)
          PROVE  line[j] = Blank
      <4>1. j \in (end + 1)..Len(line) /\ ~(close <= j)
        BY <1>0, <2>5, <2>6, <2>7
      <4> QED
        BY <2>6, <4>1
    <3>4. ASSUME NEW j \in (quote + 1)..(end - 1)
          PROVE  line[j] # Quote
      <4>1. j \in (quote + 1)..Len(line) /\ ~(end <= j)
        BY <1>0, <2>4, <2>5, <2>7
      <4> QED
        BY <2>5, <4>1
    <3> QED
      BY <3>1, <3>2, <3>3, <3>4
  <2>9. QuotedAt(line, quote, end)
    <3>1. quote < end
      BY <1>0, <2>7
    <3> QED
      BY <2>4, <2>5, <2>8, <3>1 DEF QuotedAt
  <2>10. PatternShape(line, a, open, quote, end, close)
    BY <2>3, <2>6, <2>7, <2>8, <2>9 DEF PatternShape
  <2> QED
    BY <2>7, <2>10
<1> HIDE DEF open, quote, end, close
<1>5. ASSUME NEW b \in a..Len(line), NEW o, NEW q, NEW r, PatternShape(line, a, o, q, r, b)
      PROVE  PatternAt(a) = {[elem |-> p, next |-> b + 1] : p \in Patterns(line, a, q, r)}
  <2>1. types = {u \in ElemType : line[a] = TypeWord[u]}
    BY <1>0, <1>3, <1>5
  <2> HIDE DEF types
  <2> QED
    BY <1>1, <1>3, <1>5, <2>1 DEF Patterns
<1>6. PatternAt(a) # {} => types # {}
  <2> HIDE DEF types
  <2> QED
    BY <1>1
<1> HIDE DEF types
<1> QED
  BY <1>4, <1>5, <1>6

(* What an element looks like from a to b: a text in quotes or a number, or *)
(* a pattern.                                                              *)
Shape(l, a, b) ==
  IF l[1] = OutputWord
  THEN QuotedAt(l, a, b) \/ \A j \in a..b : l[j] \in Digits \cup {Dot}
  ELSE /\ \E t \in ElemType : l[a] = TypeWord[t]
       /\ \E o, q, r : PatternShape(l, a, o, q, r, b)

(* No value and no pattern is blank.                                       *)
LEMMA NothingMeant == Literal(<< >>) = {} /\ PatternLiteral(<< >>) = {}
<1>1. Literal(<< >>) = {}
  BY DEF Literal
<1>2. Len(<< >>) < 4
  OBVIOUS
<1>3. PatternLiteral(<< >>) = {}
  BY <1>2 DEF PatternLiteral
<1> QED
  BY <1>1, <1>3

(* What is read of a tuple is what the characters read mean.               *)
LEMMA TupleIsRead ==
  ASSUME line \in Seq(Nat), NEW a \in 1..Len(line), NEW e \in TupleElemAt(a)
  PROVE  \E b \in a..Len(line) :
           /\ e.next = b + 1 /\ e.elem \in Literal(SubSeq(line, a, b))
           /\ line[a] # Blank /\ line[b] # Blank
           /\ QuotedAt(line, a, b) \/ \A j \in a..b : line[j] \in Digits \cup {Dot}
<1>0. CharAt(a) = line[a] /\ Len(line) \in Nat
  BY CharIs
<1>a. Quote # Blank /\ Dot # Blank /\ Blank \notin Digits
  BY DEF Quote, Dot, Digits, Blank
<1>1. line[a] = Quote \/ line[a] \in Digits
  BY <1>0 DEF TupleElemAt
<1>2. CASE line[a] = Quote
  <2>1. PICK b \in a..Len(line) : QuotedAt(line, a, b)
    BY <1>2, QuotedIsRead
  <2>2. TupleElemAt(a) = {Elem(ELEM_STRING, SubSeq(line, a + 1, b - 1), b + 1)}
    BY <1>2, <2>1, QuotedIsRead
  <2>3. Literal(SubSeq(line, a, b))
          = {[elem_type |-> ELEM_STRING, value |-> SubSeq(line, a + 1, b - 1)]}
    BY <2>1, LiteralIs
  <2>4. e.next = b + 1 /\ e.elem \in Literal(SubSeq(line, a, b))
    BY <2>2, <2>3 DEF Elem
  <2>5. line[b] = Quote
    BY <2>1 DEF QuotedAt
  <2> QED
    BY <1>2, <1>a, <2>1, <2>4, <2>5
<1>3. CASE line[a] \in Digits
  <2>1. PICK b \in a..Len(line) : IntegerAt(a, b) \/ \E d \in a..b : FractionAt(a, d, b)
    BY <1>3, NumberIsRead
  <2>2. CASE IntegerAt(a, b)
    <3>1. TupleElemAt(a) = {Elem(ELEM_INT, v, b + 1) : v \in stoi(SubSeq(line, a, b))}
      BY <1>3, <2>2, NumberIsRead
    <3>2. DigitsAt(line, a, b)
      BY <2>2 DEF IntegerAt
    <3>3. Literal(SubSeq(line, a, b))
            = {[elem_type |-> ELEM_INT, value |-> v] : v \in stoi(SubSeq(line, a, b))}
      BY <3>2, LiteralIs
    <3>4. e.next = b + 1 /\ e.elem \in Literal(SubSeq(line, a, b))
      BY <3>1, <3>3 DEF Elem
    <3>5. b \in a..b /\ \A j \in a..b : line[j] \in Digits
      BY <1>0, <3>2 DEF DigitsAt
    <3> QED
      BY <1>3, <1>a, <3>4, <3>5
  <2>3. ASSUME NEW d \in a..b, FractionAt(a, d, b)
        PROVE  \E n \in a..Len(line) :
                 /\ e.next = n + 1 /\ e.elem \in Literal(SubSeq(line, a, n))
                 /\ line[a] # Blank /\ line[n] # Blank
                 /\ QuotedAt(line, a, n) \/ \A j \in a..n : line[j] \in Digits \cup {Dot}
    <3>1. TupleElemAt(a) = {Elem(ELEM_FLOAT, v, b + 1) : v \in stod(SubSeq(line, a, b))}
      BY <1>3, <2>3, NumberIsRead
    <3>2. DecimalAt(line, a, d, b)
      BY <2>3 DEF FractionAt
    <3>3. Literal(SubSeq(line, a, b))
            = {[elem_type |-> ELEM_FLOAT, value |-> v] : v \in stod(SubSeq(line, a, b))}
      BY <3>2, LiteralIs
    <3>4. e.next = b + 1 /\ e.elem \in Literal(SubSeq(line, a, b))
      BY <3>1, <3>3 DEF Elem
    <3>5. b \in a..b /\ \A j \in a..b : line[j] \in Digits \cup {Dot}
      BY <1>0, <3>2 DEF DecimalAt
    <3> QED
      BY <1>3, <1>a, <3>4, <3>5
  <2> QED
    BY <1>3, <2>1, <2>2, <2>3
<1> QED
  BY <1>1, <1>2, <1>3

(* What means a value is read whole if a blank, "," or ")" follows.        *)
LEMMA LiteralIsRead ==
  ASSUME line \in Seq(Nat), NEW a \in 1..Len(line), NEW b \in a..Len(line),
         b < Len(line), line[b + 1] \in {Blank, Comma, Close},
         Literal(SubSeq(line, a, b)) # {}
  PROVE  TupleElemAt(a) # {} /\ \A e \in TupleElemAt(a) : e.next = b + 1
<1>0. CharAt(a) = line[a] /\ Len(line) \in Nat
  BY CharIs
<1>a. line[b + 1] \notin Digits \cup {Dot}
  <2>1. \A x \in {Blank, Comma, Close} : x \notin Digits \cup {Dot}
    BY DEF Dot, Digits, Blank, Comma, Close
  <2> QED
    BY <2>1
<1>b. a \in a..b
  BY <1>0
<1>1. \/ QuotedAt(line, a, b) \/ DigitsAt(line, a, b)
      \/ \E d \in a..b : DecimalAt(line, a, d, b)
  BY LiteralIs
<1>2. CASE QuotedAt(line, a, b)
  <2>1. line[a] = Quote
    BY <1>2 DEF QuotedAt
  <2>2. TupleElemAt(a) = {Elem(ELEM_STRING, SubSeq(line, a + 1, b - 1), b + 1)}
    BY <1>2, <2>1, QuotedIsRead
  <2> QED
    BY <2>2 DEF Elem
<1>3. CASE DigitsAt(line, a, b)
  <2>1. line[a] \in Digits /\ IntegerAt(a, b)
    BY <1>3, <1>a, <1>b DEF DigitsAt, IntegerAt
  <2>2. TupleElemAt(a) = {Elem(ELEM_INT, v, b + 1) : v \in stoi(SubSeq(line, a, b))}
    BY <2>1, NumberIsRead
  <2>3. Literal(SubSeq(line, a, b))
          = {[elem_type |-> ELEM_INT, value |-> v] : v \in stoi(SubSeq(line, a, b))}
    BY <1>3, LiteralIs
  <2>4. PICK v \in stoi(SubSeq(line, a, b)) : TRUE
    BY <2>3
  <2>5. Elem(ELEM_INT, v, b + 1) \in TupleElemAt(a)
    BY <2>2
  <2>6. \A e \in TupleElemAt(a) : e.next = b + 1
    BY ONLY <2>2 DEF Elem
  <2> QED
    BY <2>5, <2>6
<1>4. ASSUME NEW d \in a..b, DecimalAt(line, a, d, b)
      PROVE  TupleElemAt(a) # {} /\ \A e \in TupleElemAt(a) : e.next = b + 1
  <2>1. line[a] \in Digits
    <3>1. a # d
      BY <1>0, <1>4 DEF DecimalAt
    <3> QED
      BY <1>4, <1>b, <3>1 DEF DecimalAt
  <2>2. FractionAt(a, d, b)
    BY <1>4, <1>a DEF FractionAt
  <2>3. TupleElemAt(a) = {Elem(ELEM_FLOAT, v, b + 1) : v \in stod(SubSeq(line, a, b))}
    BY <2>1, <2>2, NumberIsRead
  <2>4. Literal(SubSeq(line, a, b))
          = {[elem_type |-> ELEM_FLOAT, value |-> v] : v \in stod(SubSeq(line, a, b))}
    BY <1>4, LiteralIs
  <2>5. PICK v \in stod(SubSeq(line, a, b)) : TRUE
    BY <2>4
  <2>6. Elem(ELEM_FLOAT, v, b + 1) \in TupleElemAt(a)
    BY <2>3
  <2> QED
    BY <2>3, <2>6 DEF Elem
<1> QED
  BY <1>1, <1>2, <1>3, <1>4

(* Both, of a tuple or of a pattern.                                       *)
LEMMA ElementIsRead ==
  ASSUME line \in Seq(Nat), NEW a \in 1..Len(line), NEW e \in ElemsAt(a)
  PROVE  \E b \in a..Len(line) :
           /\ e.next = b + 1 /\ e.elem \in Meaning(line, SubSeq(line, a, b))
           /\ line[a] # Blank /\ line[b] # Blank
           /\ Shape(line, a, b)
<1>1. CASE IsTuple
  <2>1. e \in TupleElemAt(a) /\ line[1] = OutputWord
    BY <1>1 DEF ElemsAt, IsTuple
  <2> QED
    BY <2>1, TupleIsRead DEF Meaning, Shape
<1>2. CASE ~IsTuple
  <2>1. e \in PatternAt(a) /\ line[1] # OutputWord
    BY <1>2 DEF ElemsAt, IsTuple
  <2>2. PICK b \in a..Len(line) : \E o, q, r : PatternShape(line, a, o, q, r, b)
    BY <2>1, PatternIsRead
  <2>3. PICK o, q, r : PatternShape(line, a, o, q, r, b)
    BY <2>2
  <2>4. PatternAt(a) = {[elem |-> p, next |-> b + 1] : p \in Patterns(line, a, q, r)}
    BY <2>3, PatternIsRead
  <2>5. e.next = b + 1 /\ e.elem \in Patterns(line, a, q, r)
    BY <2>1, <2>4
  <2>6. line[b] = Close /\ line[b] # Blank
    BY <2>3 DEF PatternShape, Close, Blank
  <2>7. PatternLiteral(SubSeq(line, a, b)) = Patterns(line, a, q, r)
    BY <2>3, <2>6, PatternLiteralIs
  <2>8. \E t \in ElemType : line[a] = TypeWord[t]
    BY <2>5 DEF Patterns
  <2>9. line[a] # Blank
    BY <2>8 DEF TypeWord, ElemType, ELEM_INT, ELEM_FLOAT, ELEM_STRING, Blank
  <2> QED
    BY <2>1, <2>3, <2>5, <2>6, <2>7, <2>8, <2>9 DEF Meaning, Shape
<1> QED
  BY <1>1, <1>2

(* What has a meaning is read whole, of a tuple or of a pattern.           *)
LEMMA MeaningIsRead ==
  ASSUME line \in Seq(Nat), NEW a \in 1..Len(line), NEW b \in a..Len(line),
         b < Len(line), line[b + 1] \in {Blank, Comma, Close}, line[b] # Blank,
         Meaning(line, SubSeq(line, a, b)) # {}
  PROVE  ElemsAt(a) # {} /\ \A e \in ElemsAt(a) : e.next = b + 1
<1>1. CASE IsTuple
  <2>1. /\ ElemsAt(a) = TupleElemAt(a)
        /\ Meaning(line, SubSeq(line, a, b)) = Literal(SubSeq(line, a, b))
    BY <1>1 DEF ElemsAt, IsTuple, Meaning
  <2> QED
    BY <2>1, LiteralIsRead
<1>2. CASE ~IsTuple
  <2>1. /\ ElemsAt(a) = PatternAt(a)
        /\ Meaning(line, SubSeq(line, a, b)) = PatternLiteral(SubSeq(line, a, b))
    BY <1>2 DEF ElemsAt, IsTuple, Meaning
  <2>2. PICK o, q, r : PatternShape(line, a, o, q, r, b)
    BY <2>1, PatternLiteralIs
  <2>3. PatternAt(a) = {[elem |-> p, next |-> b + 1] : p \in Patterns(line, a, q, r)}
    BY <2>2, PatternIsRead
  <2>4. PatternLiteral(SubSeq(line, a, b)) = Patterns(line, a, q, r)
    BY <2>2, PatternLiteralIs
  <2>5. PICK p \in Patterns(line, a, q, r) : TRUE
    BY <2>1, <2>4
  <2>6. [elem |-> p, next |-> b + 1] \in PatternAt(a)
    BY <2>3
  <2> QED
    BY <2>1, <2>3, <2>6
<1> QED
  BY <1>1, <1>2

-----------------------------------------------------------------------------
(* What is in quotes                                                       *)

(* It does not change where there is no quote.                             *)
LEMMA SameQuotes ==
  ASSUME NEW l, NEW i \in Nat \ {0}, NEW k \in Nat, i <= k,
         \A j \in i..(k - 1) : l[j] # Quote
  PROVE  Quoted(l, k) <=> Quoted(l, i)
<1> DEFINE Q(n) == {j \in 1..n - 1 : l[j] = Quote}
<1>1. ASSUME NEW j \in Q(k)
      PROVE  j \in Q(i)
  <2>1. j \in 1..k - 1 /\ l[j] = Quote
    OBVIOUS
  <2>2. j \notin i..(k - 1)
    BY <2>1
  <2>3. j \in 1..i - 1
    BY <2>1, <2>2
  <2> QED
    BY <2>1, <2>3
<1>2. ASSUME NEW j \in Q(i)
      PROVE  j \in Q(k)
  <2>1. j \in 1..i - 1 /\ l[j] = Quote
    OBVIOUS
  <2>2. j \in 1..k - 1
    BY <2>1
  <2> QED
    BY <2>1, <2>2
<1>3. Q(k) = Q(i)
  BY <1>1, <1>2
<1> QED
  BY <1>3 DEF Quoted

(* A quote changes it.                                                     *)
LEMMA QuoteFlips ==
  ASSUME NEW l, NEW i \in Nat \ {0}, l[i] = Quote
  PROVE  Quoted(l, i + 1) <=> ~Quoted(l, i)
<1> DEFINE before == {j \in 1..i - 1 : l[j] = Quote}
           with == {j \in 1..(i + 1) - 1 : l[j] = Quote}
<1>1. with = before \cup {i}
  <2>1. ASSUME NEW j \in with
        PROVE  j \in before \cup {i}
    <3>1. j \in 1..(i + 1) - 1 /\ l[j] = Quote
      OBVIOUS
    <3>2. j = i \/ j \in 1..i - 1
      BY <3>1
    <3> QED
      BY <3>1, <3>2
  <2>2. ASSUME NEW j \in before
        PROVE  j \in with
    <3>1. j \in 1..i - 1 /\ l[j] = Quote
      OBVIOUS
    <3>2. j \in 1..(i + 1) - 1
      BY <3>1
    <3> QED
      BY <3>1, <3>2
  <2>3. i \in with
    <3>1. i \in 1..(i + 1) - 1
      OBVIOUS
    <3> QED
      BY <3>1
  <2> QED
    BY <2>1, <2>2, <2>3
<1>2. i \notin before
  <2>1. i \notin 1..i - 1
    OBVIOUS
  <2> QED
    BY <2>1
<1>3. IsFiniteSet(before) /\ Cardinality(before) \in Nat
  <2>1. IsFiniteSet(1..i - 1)
    BY FS_Interval
  <2>2. before \subseteq 1..i - 1
    OBVIOUS
  <2>3. IsFiniteSet(before)
    BY <2>1, <2>2, FS_Subset
  <2> QED
    BY <2>3, FS_CardinalityType
<1>4. Cardinality(with) = Cardinality(before) + 1
  <2> HIDE DEF before, with
  <2> QED
    BY <1>1, <1>2, <1>3, FS_AddElement
<1>5. Quoted(l, i) <=> Cardinality(before) % 2 = 1
  BY DEF Quoted
<1>6. Quoted(l, i + 1) <=> Cardinality(with) % 2 = 1
  BY DEF Quoted
<1> HIDE DEF before, with
<1>7. \A n \in Nat : (n + 1) % 2 = 1 <=> ~(n % 2 = 1)
  OBVIOUS
<1> QED
  BY <1>3, <1>4, <1>5, <1>6, <1>7

(* Of a text in quotes, all but the first quote.                           *)
LEMMA InQuotes ==
  ASSUME NEW l, NEW a \in Nat \ {0}, NEW b \in Nat, QuotedAt(l, a, b), ~Quoted(l, a)
  PROVE  (\A j \in (a + 1)..b : Quoted(l, j)) /\ ~Quoted(l, b + 1)
<1> DEFINE n == a + 1
<1>1. a < b /\ l[a] = Quote /\ l[b] = Quote /\ \A j \in (a + 1)..(b - 1) : l[j] # Quote
  BY DEF QuotedAt
<1>2. n \in Nat \ {0} /\ Quoted(l, n) /\ n <= b
  BY <1>1, QuoteFlips
<1>3. ASSUME NEW j \in n..b
      PROVE  Quoted(l, j)
  <2> HIDE DEF n
  <2>1. j \in Nat /\ n <= j
    BY <1>2
  <2>2. \A k \in n..(j - 1) : k \in n..(b - 1)
    BY <1>2
  <2>3. \A k \in n..(b - 1) : l[k] # Quote
    BY <1>1 DEF n
  <2>4. \A k \in n..(j - 1) : l[k] # Quote
    BY <2>2, <2>3
  <2> QED
    BY <1>2, <2>1, <2>4, SameQuotes
<1>4. Quoted(l, b)
  BY <1>2, <1>3
<1>5. ~Quoted(l, b + 1)
  BY <1>1, <1>4, QuoteFlips
<1> QED
  BY <1>3, <1>5

(* An element leaves no quote open, and "," is in it only between quotes;  *)
(* of a tuple, ")" too.                                                    *)
LEMMA ShapeIsClosed ==
  ASSUME NEW l, NEW a \in Nat \ {0}, NEW b \in Nat, a <= b, Shape(l, a, b),
         ~Quoted(l, a)
  PROVE  /\ ~Quoted(l, b + 1)
         /\ \A j \in a..b : l[j] = Comma => Quoted(l, j)
         /\ l[1] = OutputWord => \A j \in a..b : l[j] = Close => Quoted(l, j)
<1>a. /\ Quote \notin {Comma, Close, Blank, Open} /\ Open \notin {Comma, Close}
      /\ Blank \notin {Comma, Close} /\ Close # Comma
      /\ \A x \in Digits \cup {Dot} : x \notin {Quote, Comma, Close}
      /\ \A t \in ElemType : TypeWord[t] \notin {Quote, Comma}
  BY DEF Quote, Comma, Close, Blank, Open, Dot, Digits, TypeWord, ElemType, ELEM_INT,
         ELEM_FLOAT, ELEM_STRING
<1>1. ASSUME l[1] = OutputWord, QuotedAt(l, a, b)
      PROVE  ~Quoted(l, b + 1) /\ \A j \in a..b : l[j] \in {Comma, Close} => Quoted(l, j)
  <2>1. l[a] = Quote
    BY <1>1 DEF QuotedAt
  <2>2. ~Quoted(l, b + 1) /\ \A j \in (a + 1)..b : Quoted(l, j)
    BY <1>1, InQuotes
  <2>3. \A j \in a..b : j = a \/ j \in (a + 1)..b
    OBVIOUS
  <2> QED
    BY <1>a, <2>1, <2>2, <2>3
<1>2. ASSUME \A j \in a..b : l[j] \in Digits \cup {Dot}
      PROVE  ~Quoted(l, b + 1) /\ \A j \in a..b : l[j] \in {Comma, Close} => Quoted(l, j)
  <2> DEFINE n == b + 1
  <2>1. n \in Nat /\ a <= n /\ n - 1 = b
    OBVIOUS
  <2>2. \A j \in a..(n - 1) : l[j] # Quote
    BY <1>a, <1>2, <2>1
  <2> HIDE DEF n
  <2>3. ~Quoted(l, n)
    BY <2>1, <2>2, SameQuotes
  <2> QED
    BY <1>a, <1>2, <2>3 DEF n
<1>3. ASSUME NEW o, NEW q, NEW r, PatternShape(l, a, o, q, r, b),
             NEW t \in ElemType, l[a] = TypeWord[t]
      PROVE  ~Quoted(l, b + 1) /\ \A j \in a..b : l[j] = Comma => Quoted(l, j)
  <2>1. /\ o \in (a + 1)..b /\ q \in (o + 1)..b /\ r \in (q + 1)..(b - 1)
        /\ l[o] = Open /\ QuotedAt(l, q, r) /\ l[b] = Close
        /\ \A j \in (a + 1)..(o - 1) : l[j] = Blank
        /\ \A j \in (o + 1)..(q - 1) : l[j] = Blank
        /\ \A j \in (r + 1)..(b - 1) : l[j] = Blank
    BY <1>3 DEF PatternShape
  <2>2. o \in Nat /\ q \in Nat \ {0} /\ r \in Nat /\ a <= q /\ r + 1 \in Nat \ {0}
        /\ r + 1 <= b + 1 /\ b + 1 \in Nat
    BY <2>1
  <2>3. ~Quoted(l, q)
    <3>1. ASSUME NEW j \in a..(q - 1)
          PROVE  l[j] # Quote
      <4>1. j = a \/ j \in (a + 1)..(o - 1) \/ j = o \/ j \in (o + 1)..(q - 1)
        BY <2>1, <2>2
      <4> QED
        BY <1>a, <1>3, <2>1, <4>1
    <3> QED
      BY <2>2, <3>1, SameQuotes
  <2>4. ~Quoted(l, r + 1) /\ \A j \in (q + 1)..r : Quoted(l, j)
    BY <2>1, <2>2, <2>3, InQuotes
  <2>5. ~Quoted(l, b + 1)
    <3> DEFINE x == r + 1
               y == b + 1
    <3>1. x \in Nat \ {0} /\ y \in Nat /\ x <= y /\ ~Quoted(l, x)
      BY <2>2, <2>4
    <3>2. ASSUME NEW j \in x..(y - 1)
          PROVE  l[j] # Quote
      <4>1. j = b \/ j \in (r + 1)..(b - 1)
        BY <2>1, <2>2
      <4> QED
        BY <1>a, <2>1, <4>1
    <3> HIDE DEF x, y
    <3>3. ~Quoted(l, y)
      BY <3>1, <3>2, SameQuotes
    <3> QED
      BY <3>3 DEF y
  <2>6. ASSUME NEW j \in a..b, l[j] = Comma
        PROVE  Quoted(l, j)
    <3>1. \/ j = a \/ j \in (a + 1)..(o - 1) \/ j = o \/ j \in (o + 1)..(q - 1)
          \/ j = q \/ j \in (q + 1)..r \/ j \in (r + 1)..(b - 1) \/ j = b
      BY <2>1, <2>2
    <3>2. l[q] = Quote
      BY <2>1 DEF QuotedAt
    <3> QED
      BY <1>a, <1>3, <2>1, <2>4, <2>6, <3>1, <3>2
  <2> QED
    BY <2>5, <2>6
<1>4. CASE l[1] = OutputWord
  <2>1. QuotedAt(l, a, b) \/ \A j \in a..b : l[j] \in Digits \cup {Dot}
    BY <1>4 DEF Shape
  <2>2. ~Quoted(l, b + 1) /\ \A j \in a..b : l[j] \in {Comma, Close} => Quoted(l, j)
    BY <1>1, <1>2, <1>4, <2>1
  <2> QED
    BY <2>2
<1>5. CASE l[1] # OutputWord
  <2>1. PICK t \in ElemType : l[a] = TypeWord[t]
    BY <1>5 DEF Shape
  <2>2. PICK o, q, r : PatternShape(l, a, o, q, r, b)
    BY <1>5 DEF Shape
  <2> QED
    BY <1>3, <1>5, <2>1, <2>2
<1> QED
  BY <1>4, <1>5

-----------------------------------------------------------------------------
(* From one separator to the next                                          *)

(* SkipTo finds the next character that is not blank.                      *)
LEMMA SkipToIs ==
  ASSUME line \in Seq(Nat), NEW x \in Nat \ {0}
  PROVE  /\ SkipTo(x) \in (x..Len(line)) \cup {npos}
         /\ SkipTo(x) # npos =>
              line[SkipTo(x)] # Blank /\ \A j \in x..(SkipTo(x) - 1) : line[j] = Blank
         /\ SkipTo(x) = npos => \A j \in x..Len(line) : line[j] = Blank
         /\ \A y \in x..Len(line) :
              line[y] # Blank /\ (\A j \in x..(y - 1) : line[j] = Blank) => SkipTo(x) = y
<1> DEFINE i == find_first_not_of(line, {Blank}, x)
<1>0. Len(line) \in Nat
  BY LenProperties
<1>1. /\ i \in (x..Len(line)) \cup {npos}
      /\ i # npos => line[i] \notin {Blank}
      /\ \A j \in x..Len(line) : line[j] \notin {Blank} => i # npos /\ i <= j
  BY <1>0, findNotProperties
<1>2. ASSUME NEW y \in x..Len(line), line[y] # Blank, \A j \in x..(y - 1) : line[j] = Blank
      PROVE  i = y
  <2>1. line[y] \notin {Blank} /\ \A j \in x..(y - 1) : line[j] \in {Blank}
    BY <1>2
  <2> QED
    BY <1>0, <2>1, FoundNotAt
<1>3. i = SkipTo(x)
  BY DEF SkipTo
<1> HIDE DEF i
<1>4. ASSUME i # npos, NEW j \in x..(i - 1)
      PROVE  line[j] = Blank
  <2>1. j \in x..Len(line) /\ ~(i <= j)
    BY <1>0, <1>1, <1>4
  <2> QED
    BY <1>1, <2>1
<1> QED
  BY <1>1, <1>2, <1>3, <1>4

(* An element that is read means what is between its separators.           *)
LEMMA ElementStep ==
  ASSUME line \in Seq(Nat), NEW c \in 1..Len(line), ~Quoted(line, c), line[c] # Quote,
         NEW e \in ElemsAt(SkipTo(c + 1)),
         NEW s, s = SkipTo(e.next), CharAt(s) \in {Comma, Close}
  PROVE  /\ s \in (c + 1)..Len(line) /\ line[s] = CharAt(s) /\ ~Quoted(line, s)
         /\ \A j \in (c + 1)..(s - 1) : line[j] = Comma => Quoted(line, j)
         /\ line[1] = OutputWord =>
              \A j \in (c + 1)..(s - 1) : line[j] = Close => Quoted(line, j)
         /\ e.elem \in Meaning(line, Piece(line, c, s))
<1> DEFINE a == SkipTo(c + 1)
<1>0. Len(line) \in Nat /\ c + 1 \in Nat \ {0}
  BY LenProperties
<1>a. Quote # Blank /\ 0 \notin {Comma, Close} /\ Blank \notin {Comma, Close}
  BY DEF Quote, Blank, Comma, Close
<1>1. a # npos
  <2>1. ASSUME a = npos
        PROVE  ElemsAt(a) = {}
    <3>1. CharAt(a) = 0
      BY <2>1 DEF CharAt
    <3>2. 0 # Quote /\ 0 \notin Digits /\ \A u \in ElemType : 0 # TypeWord[u]
      BY DEF Quote, Digits, ElemType, TypeWord, ELEM_INT, ELEM_FLOAT, ELEM_STRING
    <3>3. TupleElemAt(a) = {}
      BY <3>1, <3>2 DEF TupleElemAt
    <3>4. PatternAt(a) = {}
      <4>1. \A u \in ElemType : CharAt(a) # TypeWord[u]
        BY <3>1, <3>2
      <4> HIDE DEF a
      <4> QED
        BY <4>1 DEF PatternAt
    <3> QED
      BY <3>3, <3>4 DEF ElemsAt
  <2> QED
    BY <2>1
<1>2. /\ a \in (c + 1)..Len(line) /\ line[a] # Blank
      /\ \A j \in (c + 1)..(a - 1) : line[j] = Blank
  <2> DEFINE x == c + 1
  <2>1. x \in Nat \ {0}
    BY <1>0
  <2>2. a = SkipTo(x)
    OBVIOUS
  <2> HIDE DEF a, x
  <2>3. /\ a \in x..Len(line) /\ line[a] # Blank
        /\ \A j \in x..(a - 1) : line[j] = Blank
    BY <1>1, <2>1, <2>2, SkipToIs
  <2> QED
    BY <2>3 DEF x
<1>3. e \in ElemsAt(a)
  OBVIOUS
<1> HIDE DEF a
<1>4. a \in 1..Len(line)
  BY <1>0, <1>2
<1>5. PICK b \in a..Len(line) :
           /\ e.next = b + 1 /\ e.elem \in Meaning(line, SubSeq(line, a, b))
           /\ line[a] # Blank /\ line[b] # Blank
           /\ Shape(line, a, b)
  BY <1>3, <1>4, ElementIsRead
<1>6. s # npos /\ line[s] = CharAt(s)
  BY <1>a DEF CharAt
<1>7. /\ s \in (b + 1)..Len(line)
      /\ \A j \in (b + 1)..(s - 1) : line[j] = Blank
  <2> DEFINE x == b + 1
  <2>1. x \in Nat \ {0} /\ s = SkipTo(x)
    BY <1>0, <1>2, <1>5
  <2> HIDE DEF x
  <2>2. s \in x..Len(line) /\ \A j \in x..(s - 1) : line[j] = Blank
    BY <1>6, <2>1, SkipToIs
  <2> QED
    BY <2>2 DEF x
<1>8. ~Quoted(line, a)
  <2>1. ASSUME NEW j \in c..(a - 1)
        PROVE  line[j] # Quote
    <3>1. j = c \/ j \in (c + 1)..(a - 1)
      BY <1>0, <1>2
    <3> QED
      BY <1>2, <1>a, <3>1
  <2>2. c \in Nat \ {0} /\ a \in Nat /\ c <= a
    BY <1>0, <1>2
  <2> QED
    BY <2>1, <2>2, SameQuotes
<1>9. /\ ~Quoted(line, b + 1)
      /\ \A j \in a..b : line[j] = Comma => Quoted(line, j)
      /\ line[1] = OutputWord => \A j \in a..b : line[j] = Close => Quoted(line, j)
  <2>1. a \in Nat \ {0} /\ b \in Nat /\ a <= b
    BY <1>0, <1>4, <1>5
  <2> QED
    BY <1>5, <1>8, <2>1, ShapeIsClosed
<1>10. ~Quoted(line, s)
  <2> DEFINE x == b + 1
  <2>1. x \in Nat \ {0} /\ s \in Nat /\ x <= s /\ ~Quoted(line, x)
    BY <1>0, <1>4, <1>5, <1>7, <1>9
  <2>2. \A j \in x..(s - 1) : line[j] # Quote
    BY <1>7, <1>a
  <2> HIDE DEF x
  <2> QED
    BY <2>1, <2>2, SameQuotes
<1>11. \A j \in (c + 1)..(s - 1) : line[j] # Blank => j \in a..b
  <2> SUFFICES ASSUME NEW j \in (c + 1)..(s - 1), j \notin a..b
               PROVE  line[j] = Blank
    OBVIOUS
  <2>1. j \in (c + 1)..(a - 1) \/ j \in (b + 1)..(s - 1)
    BY <1>0, <1>2, <1>5, <1>7
  <2> QED
    BY <1>2, <1>7, <2>1
<1>12. Piece(line, c, s) = SubSeq(line, a, b)
  <2> DEFINE lo == c + 1
             hi == s - 1
  <2>0. b \in a..Len(line) /\ s \in (b + 1)..Len(line) /\ a \in (c + 1)..Len(line)
    BY <1>2, <1>5, <1>7
  <2>1. lo \in Nat \ {0} /\ hi \in Nat /\ lo <= hi + 1 /\ hi <= Len(line)
        /\ a \in lo..hi /\ b \in a..hi
    BY ONLY <1>0, <2>0, c \in 1..Len(line)
  <2>2. Bare(line, lo, hi, a, b)
    BY <1>2, <1>5, <1>7, <2>1 DEF Bare
  <2> HIDE DEF lo, hi
  <2>3. Stripped(SubSeq(line, lo, hi)) = SubSeq(line, a, b)
    BY <2>1, <2>2, PieceIs
  <2> QED
    BY <2>3 DEF Piece, lo, hi
<1>13. s \in (c + 1)..Len(line)
  BY <1>0, <1>2, <1>5, <1>7
<1> QED
  BY <1>5, <1>6, <1>9, <1>10, <1>11, <1>12, <1>13, <1>a

(* What is between two separators and has a meaning is read.               *)
LEMMA MeaningStep ==
  ASSUME line \in Seq(Nat), NEW c \in 1..Len(line), NEW s \in (c + 1)..Len(line),
         line[s] \in {Comma, Close}, Meaning(line, Piece(line, c, s)) # {}
  PROVE  /\ ElemsAt(SkipTo(c + 1)) # {}
         /\ \A e \in ElemsAt(SkipTo(c + 1)) : SkipTo(e.next) = s
<1> DEFINE lo == c + 1
           hi == s - 1
<1>0. Len(line) \in Nat
  BY LenProperties
<1>a. Blank \notin {Comma, Close}
  BY DEF Blank, Comma, Close
<1>1. /\ lo \in Nat \ {0} /\ hi \in Nat /\ lo <= hi + 1 /\ hi <= Len(line)
      /\ hi + 1 = s /\ lo <= s /\ hi < Len(line)
  BY <1>0
<1>2. Piece(line, c, s) = Stripped(SubSeq(line, lo, hi))
  BY DEF Piece
<1>3. ~\A j \in lo..hi : line[j] = Blank
  <2>1. Meaning(line, << >>) = {}
    BY NothingMeant DEF Meaning
  <2> HIDE DEF lo, hi
  <2> QED
    BY <1>1, <1>2, <2>1, PieceIs
<1> HIDE DEF lo, hi
<1>4. PICK a \in lo..hi, b \in lo..hi : Bare(line, lo, hi, a, b)
  BY <1>1, <1>3, PieceEnds
<1>5. /\ b \in a..hi /\ line[a] # Blank /\ line[b] # Blank
      /\ \A j \in lo..(a - 1) : line[j] = Blank
      /\ \A j \in (b + 1)..hi : line[j] = Blank
  BY <1>4 DEF Bare
<1>6. Piece(line, c, s) = SubSeq(line, a, b)
  <2>1. line \in Seq(Nat) /\ Bare(line, lo, hi, a, b)
    BY <1>4
  <2>a. \A x, y : Bare(line, lo, hi, x, y) =>
                  Stripped(SubSeq(line, lo, hi)) = SubSeq(line, x, y)
    BY <1>1, PieceIs
  <2>2. Stripped(SubSeq(line, lo, hi)) = SubSeq(line, a, b)
    BY ONLY <2>1, <2>a
  <2> QED
    BY ONLY <1>2, <2>2
<1>7. a \in 1..Len(line) /\ b \in a..Len(line) /\ b < Len(line) /\ a \in lo..Len(line)
      /\ b + 1 \in Nat \ {0} /\ s \in (b + 1)..Len(line)
  <2>1. /\ Len(line) \in Nat /\ lo \in Nat \ {0} /\ hi \in Nat /\ hi + 1 = s
        /\ hi < Len(line) /\ a \in lo..hi /\ b \in a..hi
    BY <1>0, <1>1, <1>5
  <2> QED
    BY ONLY <2>1
<1>8. SkipTo(lo) = a
  BY <1>1, <1>5, <1>7, SkipToIs
<1>9. line[b + 1] \in {Blank, Comma, Close}
  <2>1. b + 1 = s \/ b + 1 \in (b + 1)..hi
    BY <1>0, <1>1, <1>5, <1>7
  <2> QED
    BY <1>5, <2>1
<1>10. ElemsAt(a) # {} /\ \A e \in ElemsAt(a) : e.next = b + 1
  BY <1>5, <1>6, <1>7, <1>9, MeaningIsRead
<1>11. SkipTo(b + 1) = s
  <2> DEFINE x == b + 1
  <2>1. x \in Nat \ {0} /\ s \in x..Len(line)
    BY <1>7
  <2>2. \A j \in x..(s - 1) : line[j] = Blank
    <3>1. \A j \in x..(s - 1) : j \in (b + 1)..hi
      BY <1>1
    <3> QED
      BY <1>5, <3>1
  <2>3. line[s] # Blank
    BY <1>a
  <2> HIDE DEF x
  <2>4. SkipTo(x) = s
    BY <2>1, <2>2, <2>3, SkipToIs
  <2> QED
    BY <2>4 DEF x
<1> QED
  BY <1>8, <1>10, <1>11 DEF lo

-----------------------------------------------------------------------------
(* The places of a set in ascending order                                  *)

(* What comes later has a higher rank.                                     *)
LEMMA RankOrder ==
  ASSUME NEW n \in Nat, NEW S \in SUBSET (0..n)
  PROVE  /\ \A x, y \in S : x < y => Rank(S, x) < Rank(S, y)
         /\ \A x, y \in S : Rank(S, x) = Rank(S, y) => x = y
         /\ \A x \in S : Ascending(S)[Rank(S, x)] = x
<1>1. /\ IsFiniteSet(S) /\ Cardinality(S) \in Nat
      /\ \A x \in S : Rank(S, x) \in 1..Cardinality(S)
  BY RankProperties
<1>2. S \subseteq Nat
  OBVIOUS
<1>3. ASSUME NEW x \in S, NEW y \in S, x < y
      PROVE  Rank(S, x) < Rank(S, y)
  <2> DEFINE A == {z \in S : z <= x}
             B == {z \in S : z <= y}
  <2>1. A \in SUBSET B /\ y \in B /\ y \notin A
    <3>1. x \in Nat /\ y \in Nat /\ \A z \in S : z \in Nat
      BY <1>2
    <3>2. y <= y /\ ~(y <= x) /\ \A z \in S : z <= x => z <= y
      BY ONLY <3>1, <1>3
    <3> QED
      BY <3>2
  <2>2. B \in SUBSET S
    OBVIOUS
  <2>3. Rank(S, x) = Cardinality(A) /\ Rank(S, y) = Cardinality(B)
    BY DEF Rank
  <2> HIDE DEF A, B
  <2>4. IsFiniteSet(B)
    BY <1>1, <2>2, FS_Subset
  <2>5. Cardinality(A) <= Cardinality(B) /\ Cardinality(B) # Cardinality(A)
    BY <2>1, <2>4, FS_Subset
  <2>6. Rank(S, x) \in Nat /\ Rank(S, y) \in Nat
    BY <1>1
  <2> QED
    BY <2>3, <2>5, <2>6
<1>4. \A x, y \in S : Rank(S, x) = Rank(S, y) => x = y
  <2> SUFFICES ASSUME NEW x \in S, NEW y \in S, Rank(S, x) = Rank(S, y)
               PROVE  x = y
    OBVIOUS
  <2>1. Rank(S, x) \in Nat /\ Rank(S, y) \in Nat
    BY <1>1
  <2>2. ~(x < y) /\ ~(y < x)
    BY <1>3, <2>1
  <2>3. x \in Nat /\ y \in Nat
    BY <1>2
  <2> QED
    BY ONLY <2>2, <2>3
<1>5. ASSUME NEW x \in S
      PROVE  Ascending(S)[Rank(S, x)] = x
  <2> DEFINE i == Rank(S, x)
  <2>1. i \in 1..Cardinality(S)
    BY <1>1
  <2> HIDE DEF i
  <2>2. Ascending(S)[i] \in S /\ Rank(S, Ascending(S)[i]) = i
    BY <2>1, AscendingProperties
  <2> QED
    BY <1>4, <2>2 DEF i
<1> QED
  BY <1>3, <1>4, <1>5

(* A set has as many elements as it takes to count them.                   *)
LEMMA Counted ==
  ASSUME NEW m \in Nat, NEW T \in SUBSET Nat, NEW f \in [1..m -> T],
         \A i, j \in 1..m : i < j => f[i] < f[j],
         \A y \in T : \E i \in 1..m : y = f[i]
  PROVE  Cardinality(T) = m
<1>1. ASSUME NEW i \in 1..m, NEW j \in 1..m, f[i] = f[j]
      PROVE  i = j
  <2>1. f[i] \in Nat /\ f[j] \in Nat
    OBVIOUS
  <2>2. ~(i < j) /\ ~(j < i)
    BY <1>1, <2>1
  <2> QED
    BY <2>2
<1>2. f \in Injection(1..m, T)
  <2>1. IsInjective(f)
    BY <1>1 DEF IsInjective
  <2> QED
    BY <2>1 DEF Injection
<1>3. f \in Surjection(1..m, T)
  BY DEF Surjection
<1>4. ExistsBijection(1..m, T)
  BY <1>2, <1>3 DEF ExistsBijection, Bijection
<1> QED
  BY <1>4, FS_CountingElements

(* What lists the set in ascending order is Ascending.                     *)
LEMMA AscendingIs ==
  ASSUME NEW n \in Nat, NEW S \in SUBSET (0..n), NEW m \in Nat, NEW f \in [1..m -> S],
         \A i, j \in 1..m : i < j => f[i] < f[j],
         \A y \in S : \E i \in 1..m : y = f[i]
  PROVE  /\ Len(Ascending(S)) = m
         /\ \A i \in 1..m : Ascending(S)[i] = f[i]
<1>1. S \in SUBSET Nat /\ \A i \in 1..m : f[i] \in S /\ f[i] \in Nat
  <2>1. \A y \in S : y \in Nat
    OBVIOUS
  <2> QED
    BY <2>1
<1>2. Cardinality(S) = m
  BY <1>1, Counted
<1>3. Len(Ascending(S)) = m
  BY <1>2, AscendingProperties
<1>4. ASSUME NEW i \in 1..m
      PROVE  Ascending(S)[i] = f[i]
  <2> DEFINE T == {y \in S : y <= f[i]}
  <2>1. f[i] \in S /\ f[i] \in Nat /\ i \in Nat
    BY <1>1
  <2>2. \A j \in 1..i : f[j] \in T
    <3> SUFFICES ASSUME NEW j \in 1..i
                 PROVE  f[j] \in T
      OBVIOUS
    <3>1. j \in 1..m /\ f[j] \in S /\ f[j] \in Nat
      BY <1>1
    <3>2. j = i \/ f[j] < f[i]
      BY <3>1
    <3>3. f[j] <= f[i]
      BY <2>1, <3>1, <3>2
    <3> QED
      BY <3>1, <3>3
  <2>3. \A j, k \in 1..i : j < k => f[j] < f[k]
    <3>1. \A j \in 1..i : j \in 1..m
      OBVIOUS
    <3> QED
      BY <3>1
  <2>4. \A y \in T : \E j \in 1..i : y = f[j]
    <3> SUFFICES ASSUME NEW y \in T
                 PROVE  \E j \in 1..i : y = f[j]
      OBVIOUS
    <3>1. y \in S /\ y <= f[i]
      OBVIOUS
    <3>2. PICK j \in 1..m : y = f[j]
      BY <3>1
    <3>3. f[j] \in Nat
      BY <1>1
    <3>4. ~(i < j)
      <4>1. i < j => f[i] < f[j]
        OBVIOUS
      <4> QED
        BY ONLY <2>1, <3>1, <3>2, <3>3, <4>1
    <3>5. j \in 1..i
      BY <3>4
    <3> QED
      BY <3>2, <3>5
  <2>5. Rank(S, f[i]) = Cardinality(T)
    BY DEF Rank
  <2> DEFINE g == [j \in 1..i |-> f[j]]
  <2>6. Rank(S, f[i]) = i
    <3>1. T \in SUBSET Nat
      BY <1>1
    <3> HIDE DEF T
    <3>2. g \in [1..i -> T] /\ \A j \in 1..i : g[j] = f[j]
      BY <2>2
    <3> HIDE DEF g
    <3>3. \A j, k \in 1..i : j < k => g[j] < g[k]
      BY <2>3, <3>2
    <3>4. \A y \in T : \E j \in 1..i : y = g[j]
      BY <2>4, <3>2
    <3>5. i \in Nat
      BY <2>1
    <3>6. Cardinality(T) = i
      BY ONLY <3>1, <3>2, <3>3, <3>4, <3>5, Counted
    <3> QED
      BY <2>5, <3>6
  <2>7. Ascending(S)[Rank(S, f[i])] = f[i]
    BY <2>1, RankOrder
  <2> QED
    BY <2>6, <2>7
<1> QED
  BY <1>3, <1>4

(* The place s of S comes next after c, and is e if it is the last one.    *)
NextTo(S, c, s, e, i) ==
  /\ Ascending(S)[i] = c /\ s = Ascending(S)[i + 1] /\ s \in S /\ c < s
  /\ \A y \in S : y <= c \/ s <= y
  /\ i + 1 = Len(Ascending(S)) => s = e

(* Next to a place is the next one.                                        *)
LEMMA AscendingNext ==
  ASSUME NEW n \in Nat, NEW S \in SUBSET (0..n), NEW c \in S, NEW e \in S,
         c < e, \A y \in S : y <= e
  PROVE  \E i \in 1..(Len(Ascending(S)) - 1) :
           NextTo(S, c, Ascending(S)[i + 1], e, i)
<1> DEFINE i == Rank(S, c)
           k == Rank(S, e)
           s == Ascending(S)[i + 1]
<1>1. /\ Cardinality(S) \in Nat /\ Len(Ascending(S)) = Cardinality(S)
      /\ \A x \in S : Rank(S, x) \in 1..Cardinality(S)
  BY RankProperties, AscendingProperties
<1>2. i \in 1..Cardinality(S) /\ k \in 1..Cardinality(S) /\ i < k
  BY <1>1, RankOrder
<1>3. Ascending(S)[i] = c
  BY RankOrder
<1> HIDE DEF i, k
<1>4. i \in 1..(Cardinality(S) - 1) /\ i + 1 \in 1..Cardinality(S)
  BY <1>1, <1>2
<1>5. s \in S /\ Rank(S, s) = i + 1
  BY <1>4, AscendingProperties
<1> HIDE DEF s
<1>6. S \subseteq Nat
  OBVIOUS
<1>7. c < s
  <2>1. c \in Nat /\ s \in Nat
    BY <1>5, <1>6
  <2>2. Rank(S, s) # Rank(S, c) /\ ~(Rank(S, s) < Rank(S, c))
    BY <1>4, <1>5 DEF i
  <2>3. ~(s < c) /\ s # c
    BY <1>5, <2>2, RankOrder
  <2> QED
    BY <2>1, <2>3
<1>8. ASSUME NEW y \in S
      PROVE  y <= c \/ s <= y
  <2>1. c \in Nat /\ s \in Nat /\ y \in Nat /\ Rank(S, y) \in Nat
    BY <1>1, <1>5, <1>6
  <2>2. ~(c < y /\ y < s)
    <3>1. ASSUME c < y, y < s
          PROVE  FALSE
      <4>1. i < Rank(S, y) /\ Rank(S, y) < i + 1
        BY <1>5, <3>1, RankOrder DEF i
      <4> QED
        BY <1>2, <2>1, <4>1
    <3> QED
      BY <3>1
  <2> QED
    BY <2>1, <2>2
<1>9. i + 1 = Cardinality(S) => s = e
  <2>1. ASSUME i + 1 = Cardinality(S)
        PROVE  s = e
    <3>1. k = i + 1
      BY <1>1, <1>2, <2>1
    <3> QED
      BY <1>5, <3>1, RankOrder DEF k
  <2> QED
    BY <2>1
<1>10. Ascending(S)[i] = c
  BY <1>3 DEF i
<1>11. s = Ascending(S)[i + 1]
  BY DEF s
<1>12. NextTo(S, c, s, e, i)
  BY <1>1, <1>5, <1>7, <1>8, <1>9, <1>10, <1>11 DEF NextTo
<1>13. i \in 1..(Len(Ascending(S)) - 1)
  BY <1>1, <1>4
<1> QED
  BY ONLY <1>11, <1>12, <1>13

-----------------------------------------------------------------------------
(* The body of a line and its pieces                                       *)

(* The body begins at "(", and no separator is in front of it.      *)
LEMMA BodyBegins ==
  ASSUME NEW l \in Seq(Nat), NEW o, Begins(l, o)
  PROVE  /\ o \in 2..Len(l) /\ Len(l) \in Nat /\ ~Quoted(l, o) /\ BodyBegin(l) = o
         /\ \A y \in Free(l, Comma) \cup Free(l, Close) : y \in 1..Len(l) /\ o < y
<1>0. Len(l) \in Nat /\ DOMAIN l = 1..Len(l)
  BY LenProperties
<1>a. /\ Open \notin {Quote, Comma, Close, Blank}
      /\ Blank \notin {Open, Comma, Close, Quote}
      /\ \A w \in Word : w \notin {Open, Comma, Close, Quote}
  BY DEF Open, Quote, Comma, Close, Blank, Word, ReadWord, InputWord, OutputWord
<1>1. o \in 2..Len(l) /\ l[o] = Open /\ \A j \in 2..Len(l) : l[j] # Blank => o <= j
  <2>1. /\ o \in (2..Len(l)) \cup {npos}
        /\ \A j \in 2..Len(l) : l[j] \notin {Blank} => o <= j
    BY <1>0, findNotProperties DEF Begins
  <2> QED
    BY <2>1 DEF Begins
<1>2. \A j \in 1..(o - 1) : l[j] \in Word \cup {Blank}
  <2> SUFFICES ASSUME NEW j \in 1..(o - 1)
               PROVE  l[j] \in Word \cup {Blank}
    OBVIOUS
  <2>1. j = 1 \/ (j \in 2..Len(l) /\ ~(o <= j))
    BY <1>0, <1>1
  <2> QED
    BY <1>1, <2>1 DEF Begins
<1>3. ~Quoted(l, o)
  <2>1. ~Quoted(l, 1)
    <3>1. {j \in 1..1 - 1 : l[j] = Quote} = {}
      OBVIOUS
    <3> QED
      BY <3>1, FS_EmptySet DEF Quoted
  <2>2. \A j \in 1..(o - 1) : l[j] # Quote
    BY <1>2, <1>a
  <2>3. o \in Nat /\ 1 <= o
    BY <1>0, <1>1
  <2> QED
    BY <2>1, <2>2, <2>3, SameQuotes
<1>4. BodyBegin(l) = o
  <2> DEFINE S == Free(l, Open)
  <2>1. o \in S
    BY <1>0, <1>1, <1>3 DEF Free
  <2>2. \A y \in S : o <= y
    <3> SUFFICES ASSUME NEW y \in S
                 PROVE  o <= y
      OBVIOUS
    <3>1. y \in 1..Len(l) /\ l[y] = Open
      BY <1>0 DEF Free
    <3>2. y \notin 1..(o - 1)
      BY <1>2, <1>a, <3>1
    <3> QED
      BY <1>1, <3>1, <3>2
  <2>3. S \in SUBSET (Nat \ {0})
    BY <1>0 DEF Free
  <2> HIDE DEF S
  <2>4. FirstOf(S) \in S /\ FirstOf(S) <= o /\ o <= FirstOf(S)
    BY <2>1, <2>2, <2>3, FirstOfProperties
  <2>5. FirstOf(S) \in Nat /\ o \in Nat
    BY <2>1, <2>3, <2>4
  <2>6. FirstOf(S) = o
    BY ONLY <2>4, <2>5
  <2> QED
    BY <2>6 DEF BodyBegin, S
<1>5. ASSUME NEW y \in Free(l, Comma) \cup Free(l, Close)
      PROVE  y \in 1..Len(l) /\ o < y
  <2>1. y \in 1..Len(l) /\ l[y] \in {Comma, Close}
    BY <1>0 DEF Free
  <2>2. y \notin 1..(o - 1) /\ y # o
    BY <1>1, <1>2, <1>a, <2>1
  <2> QED
    BY <1>1, <2>1, <2>2
<1> QED
  BY <1>0, <1>1, <1>3, <1>4, <1>5

(* Where it ends.                                                          *)
LEMMA BodyEnds ==
  ASSUME NEW l \in Seq(Nat), NEW o, Begins(l, o)
  PROVE  /\ Free(l, Close) = {} => BodyEnd(l) = npos
         /\ Free(l, Close) # {} =>
              /\ BodyEnd(l) \in Free(l, Close) /\ BodyEnd(l) \in (o + 1)..Len(l)
              /\ BodyEnd(l) # npos
              /\ l[1] = OutputWord => \A y \in Free(l, Close) : BodyEnd(l) <= y
              /\ l[1] # OutputWord => \A y \in Free(l, Close) : y <= BodyEnd(l)
<1> DEFINE S == Free(l, Close)
           e == BodyEnd(l)
<1>0. /\ o \in 2..Len(l) /\ Len(l) \in Nat
      /\ \A y \in Free(l, Comma) \cup Free(l, Close) : y \in 1..Len(l) /\ o < y
  BY BodyBegins
<1>1. e = IF S = {} THEN npos ELSE IF l[1] = OutputWord THEN Min(S) ELSE Max(S)
  BY DEF BodyEnd
<1>2. \A y \in S : y \in 1..Len(l) /\ o < y
  BY <1>0
<1>3. S \in SUBSET (0..Len(l)) /\ S \in SUBSET Nat
  BY <1>0, <1>2
<1> HIDE DEF S, e
<1>4. ASSUME S # {}, l[1] = OutputWord
      PROVE  e \in S /\ \A y \in S : e <= y
  BY <1>1, <1>3, <1>4, MinInSet
<1>5. ASSUME S # {}, l[1] # OutputWord
      PROVE  e \in S /\ \A y \in S : y <= e
  BY <1>0, <1>1, <1>3, <1>5, MaxInSet
<1>6. S # {} => e \in S /\ e \in (o + 1)..Len(l) /\ e # npos
  <2> SUFFICES ASSUME S # {}
               PROVE  e \in S /\ e \in (o + 1)..Len(l) /\ e # npos
    OBVIOUS
  <2>1. e \in S
    BY <1>4, <1>5
  <2>2. e \in 1..Len(l) /\ o < e
    BY <1>2, <2>1
  <2> QED
    BY <1>0, <2>1, <2>2 DEF npos
<1>7. S = {} => e = npos
  BY <1>1
<1> QED
  BY <1>4, <1>5, <1>6, <1>7 DEF S, e

(* The places where it is cut.                                             *)
LEMMA CutsAre ==
  ASSUME NEW l \in Seq(Nat), NEW o, Begins(l, o), Free(l, Close) # {}
  PROVE  /\ Cuts(l) \in SUBSET (0..Len(l)) /\ o \in Cuts(l) /\ BodyEnd(l) \in Cuts(l)
         /\ \A y : y \in Cuts(l) <=>
              y \in {o, BodyEnd(l)} \/ (y \in Free(l, Comma) /\ y < BodyEnd(l))
         /\ \A y \in Cuts(l) : o <= y /\ y <= BodyEnd(l)
<1> DEFINE e == BodyEnd(l)
<1>1. /\ o \in 2..Len(l) /\ Len(l) \in Nat /\ BodyBegin(l) = o
      /\ \A y \in Free(l, Comma) : y \in 1..Len(l) /\ o < y
  BY BodyBegins
<1>2. e \in (o + 1)..Len(l)
  BY BodyEnds
<1>3. Cuts(l) = {o, e} \cup {i \in Free(l, Comma) : o < i /\ i < e}
  BY <1>1 DEF Cuts
<1> HIDE DEF e
<1>4. ASSUME NEW y
      PROVE  y \in Cuts(l) <=> y \in {o, e} \/ (y \in Free(l, Comma) /\ y < e)
  <2>1. y \in Cuts(l) <=> y \in {o, e} \/ (y \in Free(l, Comma) /\ o < y /\ y < e)
    BY ONLY <1>3
  <2>2. y \in Free(l, Comma) => o < y
    BY <1>1
  <2> QED
    BY ONLY <2>1, <2>2
<1>5. \A y \in Cuts(l) : o <= y /\ y <= e /\ y \in 0..Len(l)
  <2> SUFFICES ASSUME NEW y \in Cuts(l)
               PROVE  o <= y /\ y <= e /\ y \in 0..Len(l)
    OBVIOUS
  <2>1. CASE y \in {o, e}
    BY <1>1, <1>2, <2>1
  <2>2. CASE y \in Free(l, Comma) /\ y < e
    <3>1. y \in 1..Len(l) /\ o < y
      BY <1>1, <2>2
    <3> QED
      BY <1>1, <1>2, <2>2, <3>1
  <2> QED
    BY <1>4, <2>1, <2>2
<1>6. Cuts(l) \in SUBSET (0..Len(l)) /\ o \in Cuts(l) /\ e \in Cuts(l)
  <2>1. \A y \in Cuts(l) : y \in 0..Len(l)
    BY ONLY <1>5
  <2>2. o \in Cuts(l) /\ e \in Cuts(l)
    BY ONLY <1>4
  <2> QED
    BY <2>1, <2>2
<1>7. \A y \in Cuts(l) : o <= y /\ y <= e
  BY <1>5
<1> QED
  BY <1>4, <1>6, <1>7 DEF e

(* The pieces between them.                                                *)
LEMMA PiecesAre ==
  ASSUME NEW l, Len(Ascending(Cuts(l))) \in Nat, Len(Ascending(Cuts(l))) >= 2
  PROVE  LET A == Ascending(Cuts(l))
             m == Len(A)
             n == IF Piece(l, A[m - 1], A[m]) = << >> THEN m - 2 ELSE m - 1
         IN  /\ Len(Pieces(l)) = n /\ DOMAIN Pieces(l) = 1..n
             /\ \A i \in 1..n : Pieces(l)[i] = Piece(l, A[i], A[i + 1])
<1> DEFINE A == Ascending(Cuts(l))
           m == Len(A)
           all == [i \in 1..m - 1 |-> Piece(l, A[i], A[i + 1])]
           S == {Piece(l, A[i], A[i + 1]) : i \in 1..m - 1}
<1>0. m \in Nat /\ m >= 2
  OBVIOUS
<1>1. Pieces(l) = IF Last(all) = << >> THEN Front(all) ELSE all
  BY DEF Pieces, Piece
<1> HIDE DEF m, A
<1> SUFFICES LET n == IF Piece(l, A[m - 1], A[m]) = << >> THEN m - 2 ELSE m - 1
             IN  /\ Len(Pieces(l)) = n /\ DOMAIN Pieces(l) = 1..n
                 /\ \A i \in 1..n : Pieces(l)[i] = Piece(l, A[i], A[i + 1])
  BY DEF m, A
<1>2. all \in Seq(S) /\ Len(all) = m - 1 /\ DOMAIN all = 1..m - 1
  <2>1. m - 1 \in Nat /\ all \in [1..m - 1 -> S]
    BY <1>0
  <2> HIDE DEF all, S
  <2> QED
    BY <2>1, FunctionIsSeq
<1>3. Last(all) = Piece(l, A[m - 1], A[m])
  <2>1. m - 1 \in 1..m - 1 /\ (m - 1) + 1 = m
    BY <1>0
  <2>2. all[m - 1] = Piece(l, A[m - 1], A[m])
    BY <2>1
  <2> HIDE DEF all
  <2> QED
    BY <1>2, <2>2 DEF Last
<1>4. \A i \in 1..m - 1 : all[i] = Piece(l, A[i], A[i + 1])
  OBVIOUS
<1> HIDE DEF all, S
<1>5. CASE Last(all) = << >>
  <2>1. Pieces(l) = SubSeq(all, 1, m - 2)
    <3>1. (m - 1) - 1 = m - 2
      BY <1>0
    <3> QED
      BY <1>2, <1>1, <1>5, <3>1 DEF Front
  <2>2. m - 2 \in Nat /\ 1 <= (m - 2) + 1 /\ m - 2 <= Len(all)
    BY <1>0, <1>2
  <2> DEFINE n == m - 2
  <2>3. n \in Nat /\ 1 <= n + 1 /\ n <= Len(all) /\ n + 1 - 1 = n
    BY <2>2
  <2>a. 1 \in Nat \ {0}
    OBVIOUS
  <2> HIDE DEF n
  <2>4. /\ SubSeq(all, 1, n) \in Seq(S) /\ Len(SubSeq(all, 1, n)) = n + 1 - 1
        /\ \A i \in 1..(n + 1 - 1) : SubSeq(all, 1, n)[i] = all[1 + i - 1]
    BY ONLY <1>2, <2>3, <2>a, InSubSeq
  <2>5. \A i \in 1..n : 1 + i - 1 = i /\ i \in 1..m - 1
    BY <1>0, <2>2 DEF n
  <2>6. /\ Len(SubSeq(all, 1, n)) = n /\ DOMAIN SubSeq(all, 1, n) = 1..n
        /\ \A i \in 1..n : SubSeq(all, 1, n)[i] = all[i]
    BY <2>3, <2>4, <2>5, LenProperties
  <2>7. Piece(l, A[m - 1], A[m]) = << >> /\ Pieces(l) = SubSeq(all, 1, n)
    BY <1>3, <1>5, <2>1 DEF n
  <2>8. /\ Len(Pieces(l)) = n /\ DOMAIN Pieces(l) = 1..n
        /\ \A i \in 1..n : Pieces(l)[i] = Piece(l, A[i], A[i + 1])
    BY <1>4, <2>5, <2>6, <2>7
  <2> QED
    BY <2>7, <2>8 DEF n
<1>6. CASE Last(all) # << >>
  BY <1>2, <1>1, <1>3, <1>4, <1>6
<1> QED
  BY <1>5, <1>6

(* A line that is accepted has a body.                                     *)
LEMMA WellFormedIs ==
  ASSUME NEW l \in Seq(Nat), NEW o, o = find_first_not_of(l, {Blank}, 2)
  PROVE  WellFormed(l) <=>
           /\ Begins(l, o) /\ Free(l, Close) # {}
           /\ l[1] = OutputWord \/ Trimmed(substr(l, BodyEnd(l) + 1)) = << >>
           /\ \A i \in DOMAIN Pieces(l) : Meaning(l, Pieces(l)[i]) # {}
<1>1. WellFormed(l) <=>
        /\ l # << >> /\ l[1] \in {ReadWord, OutputWord, InputWord}
        /\ o # npos /\ l[o] = Open
        /\ BodyEnd(l) # npos
        /\ l[1] = OutputWord \/ Trimmed(substr(l, BodyEnd(l) + 1)) = << >>
        /\ \A i \in DOMAIN Pieces(l) : Meaning(l, Pieces(l)[i]) # {}
  BY DEF WellFormed
<1>2. Begins(l, o) <=>
        l # << >> /\ l[1] \in {ReadWord, OutputWord, InputWord} /\ o # npos /\ l[o] = Open
  BY DEF Begins, Word
<1>3. Begins(l, o) => (BodyEnd(l) # npos <=> Free(l, Close) # {})
  BY BodyEnds
<1> QED
  BY ONLY <1>1, <1>2, <1>3

(* Between a place of its body where it is cut and the next one is a       *)
(* value, or nothing, in front of ")".                                     *)
LEMMA NextPiece ==
  ASSUME NEW l \in Seq(Nat), WellFormed(l), NEW c \in Cuts(l), c # BodyEnd(l)
  PROVE  /\ BodyEnd(l) \in 1..Len(l) /\ c \in 1..Len(l) /\ c < BodyEnd(l)
         /\ \E s \in (c + 1)..Len(l) :
              /\ s \in Cuts(l) /\ l[s] \in {Comma, Close}
              /\ \A y \in Cuts(l) : y <= c \/ s <= y
              /\ \/ Meaning(l, Piece(l, c, s)) # {}
                 \/ s = BodyEnd(l) /\ Piece(l, c, s) = << >>
<1> DEFINE o == find_first_not_of(l, {Blank}, 2)
           e == BodyEnd(l)
           S == Cuts(l)
           A == Ascending(S)
           m == Len(A)
<1>1. /\ Begins(l, o) /\ Free(l, Close) # {}
      /\ \A i \in DOMAIN Pieces(l) : Meaning(l, Pieces(l)[i]) # {}
  BY WellFormedIs
<1> HIDE DEF o
<1>2. /\ o \in 2..Len(l) /\ Len(l) \in Nat
      /\ e \in Free(l, Close) /\ e \in (o + 1)..Len(l)
  BY <1>1, BodyBegins, BodyEnds
<1>3. /\ S \in SUBSET (0..Len(l)) /\ o \in S /\ e \in S
      /\ \A y : y \in S <=> y \in {o, e} \/ (y \in Free(l, Comma) /\ y < e)
      /\ \A y \in S : o <= y /\ y <= e
  BY <1>1, CutsAre
<1>4. c \in S /\ c \in 1..Len(l) /\ c < e
  <2>1. c \in 0..Len(l) /\ o <= c /\ c <= e
    BY <1>3
  <2> QED
    BY <1>2, <2>1
<1>5. A \in Seq(S) /\ m \in Nat
  <2> HIDE DEF S
  <2>1. A \in Seq(S)
    BY <1>2, <1>3, AscendingProperties
  <2> QED
    BY <2>1, LenProperties
<1>6. PICK i \in 1..(m - 1) : NextTo(S, c, A[i + 1], e, i)
  <2> DEFINE k == Len(l)
  <2>1. /\ k \in Nat /\ S \in SUBSET (0..k) /\ c \in S /\ e \in S /\ c < e
        /\ \A y \in S : y <= e
    BY <1>2, <1>3, <1>4
  <2> HIDE DEF S, e, k
  <2> QED
    BY <2>1, AscendingNext
<1> DEFINE s == A[i + 1]
<1>7. /\ s \in S /\ c < s /\ A[i] = c
      /\ \A y \in S : y <= c \/ s <= y
      /\ i + 1 = m => s = e
  BY ONLY <1>6 DEF NextTo
<1>8. m >= 2
  BY <1>5, <1>6
<1>9. LET n == IF Piece(l, A[m - 1], A[m]) = << >> THEN m - 2 ELSE m - 1
      IN  /\ Len(Pieces(l)) = n /\ DOMAIN Pieces(l) = 1..n
          /\ \A k \in 1..n : Pieces(l)[k] = Piece(l, A[k], A[k + 1])
  <2>1. m \in Nat /\ m >= 2
    BY <1>5, <1>8
  <2> QED
    BY ONLY <2>1, PiecesAre
<1> HIDE DEF A, m, S, e
<1>10. s \in (c + 1)..Len(l) /\ l[s] \in {Comma, Close}
  <2>1. s \in 0..Len(l)
    BY <1>3, <1>7
  <2>2. s # o
    BY <1>2, <1>3, <1>4, <1>7, <2>1
  <2>3. s \in Free(l, Close) \/ s \in Free(l, Comma)
    BY <1>2, <1>3, <1>7, <2>2
  <2>4. c \in 1..Len(l) /\ c < s /\ Len(l) \in Nat
    BY <1>2, <1>4, <1>7
  <2>5. s \in (c + 1)..Len(l)
    BY ONLY <2>1, <2>4
  <2>6. l[s] \in {Comma, Close}
    BY ONLY <2>3 DEF Free
  <2> QED
    BY <2>5, <2>6
<1>11. \/ Meaning(l, Piece(l, c, s)) # {}
       \/ s = e /\ Piece(l, c, s) = << >>
  <2>1. CASE i + 1 = m /\ Piece(l, c, s) = << >>
    BY <1>7, <2>1
  <2>2. CASE i + 1 # m \/ Piece(l, c, s) # << >>
    <3>1. DOMAIN Pieces(l) = 1..Len(Pieces(l))
      BY <1>9
    <3>2. i \in 1..Len(Pieces(l)) /\ Pieces(l)[i] = Piece(l, c, s)
      <4>1. CASE i + 1 = m
        <5>1. i = m - 1 /\ Piece(l, A[m - 1], A[m]) # << >>
          BY <1>5, <1>7, <2>2, <4>1
        <5>2. i \in 1..m - 1
          BY <1>5, <5>1, <1>6
        <5> QED
          BY <1>7, <1>9, <5>1, <5>2
      <4>2. CASE i + 1 # m
        <5>1. i \in 1..m - 2 /\ i \in 1..m - 1
          BY <1>5, <1>6, <4>2
        <5> QED
          BY <1>7, <1>9, <5>1
      <4> QED
        BY <4>1, <4>2
    <3> QED
      BY <1>1, <3>1, <3>2
  <2> QED
    BY <2>1, <2>2
<1>12. e \in 1..Len(l)
  BY <1>2
<1> HIDE DEF s
<1> QED
  BY <1>4, <1>7, <1>10, <1>11, <1>12 DEF e, S

-----------------------------------------------------------------------------
(* How far the parser has come                                             *)

(* What a path says of its places, one by one.                             *)
Along(l, n, cut, elems) ==
  /\ Len(l) \in Nat /\ DOMAIN l = 1..Len(l)
  /\ \A i \in 1..n : cut[i] \in 1..Len(l) /\ ~Quoted(l, cut[i])
  /\ \A i, j \in 1..n : i < j => cut[i] < cut[j]
  /\ Begins(l, cut[1]) /\ l[cut[1]] = Open
  /\ \A i \in 2..n - 1 : cut[i] \in Free(l, Comma) /\ l[cut[i]] = Comma
  /\ l[cut[n]] = Close => n > 1 /\ cut[n] \in Free(l, Close)
  /\ l[cut[n]] # Close =>
       \/ n = 1 /\ l[cut[n]] = Open
       \/ n > 1 /\ l[cut[n]] = Comma /\ cut[n] \in Free(l, Comma)
  /\ l[cut[n]] # Quote
  /\ \A i \in 1..n - 1 :
       elems[i] \in Meaning(l, Piece(l, cut[i], cut[i + 1]))
  /\ \A y \in Free(l, Comma) : y <= cut[n] => \E i \in 2..n : y = cut[i]
  /\ l[1] = OutputWord => \A y \in Free(l, Close) : cut[n] <= y

(* The parser is there only along a path of that form.                     *)
LEMMA PathAt ==
  ASSUME line \in Seq(Nat), NEW n \in Nat \ {0}, NEW elems, Len(elems) + 1 = n,
         NEW cut \in [1..n -> DOMAIN line], Path(line, cut, elems)
  PROVE  Along(line, n, cut, elems)
<1>0. Len(line) \in Nat /\ DOMAIN line = 1..Len(line)
  BY LenProperties
<1>a. Open \notin {Close, Quote} /\ Close # Quote /\ Comma # Quote
  BY DEF Open, Close, Quote, Comma
<1>1. /\ \A i, j \in 1..n : i < j => cut[i] < cut[j]
      /\ Begins(line, cut[1])
      /\ \A i \in 1..n : ~Quoted(line, cut[i])
      /\ \A i \in 2..n - 1 : line[cut[i]] = Comma
      /\ n > 1 => line[cut[n]] \in {Comma, Close}
      /\ \A i \in 1..n - 1 : elems[i] \in Meaning(line, Piece(line, cut[i], cut[i + 1]))
      /\ \A y \in Free(line, Comma) : y <= cut[n] => \E i \in 2..n : y = cut[i]
      /\ line[1] = OutputWord => \A y \in Free(line, Close) : cut[n] <= y
  BY DEF Path
<1>2. \A i \in 1..n : cut[i] \in 1..Len(line) /\ cut[i] \in DOMAIN line
  BY <1>0
<1>3. line[cut[1]] = Open
  BY <1>1 DEF Begins
<1>4. n = 1 \/ n > 1
  OBVIOUS
<1>5. n \in 1..n /\ \A i \in 2..n - 1 : i \in 1..n
  OBVIOUS
<1>6. \A c \in {Comma, Close}, i \in 1..n : line[cut[i]] = c => cut[i] \in Free(line, c)
  BY <1>1, <1>2 DEF Free
<1>7. \A i \in 2..n - 1 : cut[i] \in Free(line, Comma) /\ line[cut[i]] = Comma
  BY <1>1, <1>5, <1>6
<1>8. line[cut[n]] = Close => n > 1 /\ cut[n] \in Free(line, Close)
  BY <1>a, <1>3, <1>4, <1>5, <1>6
<1>9. line[cut[n]] # Close =>
        \/ n = 1 /\ line[cut[n]] = Open
        \/ n > 1 /\ line[cut[n]] = Comma /\ cut[n] \in Free(line, Comma)
  BY <1>1, <1>3, <1>4, <1>5, <1>6
<1>10. line[cut[n]] # Quote
  BY <1>a, <1>8, <1>9
<1> QED
  BY <1>0, <1>1, <1>2, <1>3, <1>7, <1>8, <1>9, <1>10 DEF Along

(* Behind "(" nothing has been read.                                       *)
LEMMA PathBegins ==
  ASSUME line \in Seq(Nat), NEW o, Begins(line, o)
  PROVE  o \in DOMAIN line /\ line[o] # Close /\ Reached(line, << >>, o)
<1> DEFINE cut == [i \in 1..1 |-> o]
<1>1. /\ o \in 2..Len(line) /\ Len(line) \in Nat /\ ~Quoted(line, o)
      /\ \A y \in Free(line, Comma) \cup Free(line, Close) : y \in 1..Len(line) /\ o < y
  BY BodyBegins
<1>2. cut \in [1..1 -> DOMAIN line] /\ cut[1] = o /\ \A i \in 1..1 : i = 1
  <2>1. o \in DOMAIN line
    BY <1>1, LenProperties
  <2> QED
    BY <2>1
<1>3. line[o] # Close
  BY DEF Begins, Open, Close
<1>4. Len(<< >>) + 1 = 1
  OBVIOUS
<1> HIDE DEF cut
<1>5. Path(line, cut, << >>)
  <2>1. \A y \in Free(line, Comma) \cup Free(line, Close) : o <= y /\ ~(y <= o)
    BY <1>1
  <2>2. /\ \A i, j \in 1..1 : i < j => cut[i] < cut[j]
        /\ \A i \in 1..1 : ~Quoted(line, cut[i])
        /\ \A y \in Free(line, Comma) : y <= cut[1] => \E i \in 2..1 : y = cut[i]
        /\ line[1] = OutputWord => \A y \in Free(line, Close) : cut[1] <= y
    BY <1>1, <1>2, <2>1
  <2>3. 1..1 - 1 = {} /\ 2..1 - 1 = {} /\ ~(1 > 1)
    OBVIOUS
  <2> QED
    BY <1>2, <1>4, <2>2, <2>3 DEF Path
<1>6. o \in DOMAIN line
  BY <1>1, LenProperties
<1>7. Reached(line, << >>, o)
  BY <1>2, <1>4, <1>5 DEF Reached
<1> QED
  BY <1>3, <1>6, <1>7

(* With an element it goes on.                                             *)
LEMMA PathGoesOn ==
  ASSUME line \in Seq(Nat), NEW S, NEW elems \in Seq(S), NEW n \in Nat \ {0},
         Len(elems) + 1 = n,
         NEW cut \in [1..n -> DOMAIN line], Path(line, cut, elems),
         line[cut[n]] # Close,
         NEW at, at = SkipTo(cut[n] + 1), NEW e \in ElemsAt(at),
         NEW s, s = SkipTo(e.next), CharAt(s) \in {Comma, Close}
  PROVE  /\ s \in 1..Len(line) /\ line[s] = CharAt(s)
         /\ Reached(line, Append(elems, e.elem), s)
<1> DEFINE c == cut[n]
           ext == [i \in 1..n + 1 |-> IF i = n + 1 THEN s ELSE cut[i]]
           more == Append(elems, e.elem)
<1>0. n \in Nat \ {0}
  OBVIOUS
<1>a. /\ line \in Seq(Nat) /\ n \in Nat \ {0} /\ Len(elems) + 1 = n
      /\ cut \in [1..n -> DOMAIN line] /\ Path(line, cut, elems)
  OBVIOUS
<1>c. line[cut[n]] # Close
  OBVIOUS
<1>1. /\ Len(line) \in Nat /\ DOMAIN line = 1..Len(line)
      /\ \A i \in 1..n : cut[i] \in 1..Len(line) /\ ~Quoted(line, cut[i])
      /\ \A i, j \in 1..n : i < j => cut[i] < cut[j]
      /\ Begins(line, cut[1])
  BY ONLY <1>a, PathAt DEF Along
<1>1a. /\ \A i \in 2..n - 1 : line[cut[i]] = Comma
       /\ n = 1 \/ line[cut[n]] = Comma
       /\ line[cut[n]] # Quote
  <2>1. \A i \in 2..n - 1 : line[cut[i]] = Comma
    BY ONLY <1>a DEF Path
  <2>2. n = 1 \/ line[cut[n]] = Comma
    BY ONLY <1>a, <1>c, PathAt DEF Along
  <2>3. line[cut[n]] # Quote
    BY ONLY <1>a, PathAt DEF Along
  <2> QED
    BY <2>1, <2>2, <2>3
<1>1b. /\ \A i \in 1..n - 1 : elems[i] \in Meaning(line, Piece(line, cut[i], cut[i + 1]))
       /\ \A y \in Free(line, Comma) : y <= cut[n] => \E i \in 2..n : y = cut[i]
       /\ line[1] = OutputWord => \A y \in Free(line, Close) : cut[n] <= y
  BY ONLY <1>a DEF Path
<1>2. c \in 1..Len(line) /\ ~Quoted(line, c) /\ line[c] # Quote
  BY <1>0, <1>1, <1>1a
<1> HIDE DEF c
<1>3. /\ s \in (c + 1)..Len(line) /\ line[s] = CharAt(s) /\ ~Quoted(line, s)
      /\ \A j \in (c + 1)..(s - 1) : line[j] = Comma => Quoted(line, j)
      /\ line[1] = OutputWord =>
           \A j \in (c + 1)..(s - 1) : line[j] = Close => Quoted(line, j)
      /\ e.elem \in Meaning(line, Piece(line, c, s))
  <2>1. e \in ElemsAt(SkipTo(c + 1))
    BY DEF c
  <2> QED
    BY <1>2, <2>1, ElementStep
<1>4. /\ Len(more) = n /\ more[n] = e.elem
      /\ \A i \in 1..n - 1 : more[i] = elems[i]
  <2> DEFINE x == e.elem
             T == S \cup {x}
  <2>1. elems \in Seq(T) /\ x \in T
    BY SeqMonotonic
  <2> HIDE DEF x, T
  <2>2. /\ Len(Append(elems, x)) = Len(elems) + 1
        /\ \A i \in 1..Len(elems) : Append(elems, x)[i] = elems[i]
        /\ Append(elems, x)[Len(elems) + 1] = x
    BY <2>1, AppendProperties
  <2>3. Len(elems) = n - 1 /\ Len(elems) + 1 = n
    BY <1>0, LenProperties
  <2>4. more = Append(elems, x)
    BY DEF x
  <2> QED
    BY <2>2, <2>3, <2>4 DEF x
<1> HIDE DEF more
<1>5. /\ ext \in [1..n + 1 -> DOMAIN line] /\ ext[n + 1] = s
      /\ \A i \in 1..n : ext[i] = cut[i]
      /\ ext[1] = cut[1] /\ ext[n] = c
  <2>1. s \in DOMAIN line
    BY <1>1, <1>2, <1>3
  <2>2. \A i \in 1..n + 1 : i # n + 1 => cut[i] \in DOMAIN line
    <3>1. \A i \in 1..n + 1 : i # n + 1 => i \in 1..n
      BY <1>0
    <3> QED
      BY <3>1
  <2>3. n + 1 \in 1..n + 1 /\ \A i \in 1..n : i \in 1..n + 1 /\ i # n + 1
    BY <1>0
  <2>4. 1 \in 1..n /\ n \in 1..n
    BY <1>0
  <2> QED
    BY <2>1, <2>2, <2>3, <2>4 DEF c
<1> HIDE DEF ext
<1>6. \A i, j \in 1..n + 1 : i < j => ext[i] < ext[j]
  <2> SUFFICES ASSUME NEW i \in 1..n + 1, NEW j \in 1..n + 1, i < j
               PROVE  ext[i] < ext[j]
    OBVIOUS
  <2>1. CASE j = n + 1
    <3>1. i \in 1..n /\ n \in 1..n
      BY <1>0, <2>1
    <3>2. cut[i] \in 1..Len(line) /\ cut[i] <= c
      <4>1. i = n \/ i < n
        BY <1>0, <3>1
      <4> QED
        BY <1>1, <1>2, <3>1, <4>1 DEF c
    <3> QED
      BY <1>1, <1>2, <1>3, <1>5, <2>1, <3>1, <3>2
  <2>2. CASE j # n + 1
    <3>1. i \in 1..n /\ j \in 1..n
      BY <1>0, <2>2
    <3> QED
      BY <1>1, <1>5, <3>1
  <2> QED
    BY <2>1, <2>2
<1>7. \A i \in 1..n + 1 : ~Quoted(line, ext[i])
  <2>1. \A i \in 1..n + 1 : i = n + 1 \/ i \in 1..n
    BY <1>0
  <2>2. ~Quoted(line, ext[n + 1])
    BY <1>3, <1>5
  <2>3. \A i \in 1..n : ~Quoted(line, ext[i])
    BY ONLY <1>1, <1>5
  <2> QED
    BY ONLY <2>1, <2>2, <2>3
<1>8. \A i \in 2..(n + 1) - 1 : line[ext[i]] = Comma
  <2>1. \A i \in 2..(n + 1) - 1 : i \in 1..n /\ n > 1 /\ (i = n \/ i \in 2..n - 1)
    BY <1>0
  <2>2. \A i \in 2..(n + 1) - 1 : line[cut[i]] = Comma /\ ext[i] = cut[i]
    BY ONLY <1>1a, <1>5, <2>1
  <2> QED
    BY ONLY <2>2
<1>9. line[ext[n + 1]] \in {Comma, Close}
  BY <1>3, <1>5
<1>10. \A i \in 1..(n + 1) - 1 : more[i] \in Meaning(line, Piece(line, ext[i], ext[i + 1]))
  <2> SUFFICES ASSUME NEW i \in 1..(n + 1) - 1
               PROVE  more[i] \in Meaning(line, Piece(line, ext[i], ext[i + 1]))
    OBVIOUS
  <2>1. i = n \/ (i \in 1..n - 1 /\ i \in 1..n /\ i + 1 \in 1..n)
    BY <1>0
  <2>2. CASE i = n
    BY ONLY <1>3, <1>4, <1>5, <2>2
  <2>3. CASE i \in 1..n - 1 /\ i \in 1..n /\ i + 1 \in 1..n
    <3>1. more[i] = elems[i] /\ ext[i] = cut[i] /\ ext[i + 1] = cut[i + 1]
      BY ONLY <1>4, <1>5, <2>3
    <3>2. elems[i] \in Meaning(line, Piece(line, cut[i], cut[i + 1]))
      BY ONLY <1>1b, <2>3
    <3> QED
      BY ONLY <3>1, <3>2
  <2> QED
    BY <2>1, <2>2, <2>3
<1>11. \A y \in Free(line, Comma) : y <= s => \E i \in 2..n + 1 : y = ext[i]
  <2> SUFFICES ASSUME NEW y \in Free(line, Comma), y <= s
               PROVE  \E i \in 2..n + 1 : y = ext[i]
    OBVIOUS
  <2>1. y \in 1..Len(line) /\ line[y] = Comma /\ ~Quoted(line, y)
    BY <1>1 DEF Free
  <2>2. y \notin (c + 1)..(s - 1)
    BY <1>3, <2>1
  <2>3. y <= c \/ y = s
    BY <1>2, <1>3, <2>1, <2>2
  <2>4. CASE y = s
    <3>1. n + 1 \in 2..n + 1
      BY <1>0
    <3> QED
      BY <1>5, <2>4, <3>1
  <2>5. CASE y <= c
    <3>1. PICK i \in 2..n : y = cut[i]
      BY <1>1b, <2>5 DEF c
    <3>2. i \in 1..n /\ i \in 2..n + 1
      BY <1>0
    <3> QED
      BY <1>5, <3>1, <3>2
  <2> QED
    BY <2>3, <2>4, <2>5
<1>12. ASSUME line[1] = OutputWord, NEW y \in Free(line, Close)
       PROVE  s <= y
  <2>1. y \in 1..Len(line) /\ line[y] = Close /\ ~Quoted(line, y)
    BY <1>1 DEF Free
  <2>2. c <= y
    BY <1>1b, <1>12 DEF c
  <2>3. y # c
    BY <2>1 DEF c
  <2>4. y \notin (c + 1)..(s - 1)
    BY <1>3, <1>12, <2>1
  <2> QED
    BY <1>2, <1>3, <2>1, <2>2, <2>3, <2>4
<1>13. Path(line, ext, more)
  <2> DEFINE k == n + 1
  <2>1. Len(more) + 1 = k /\ k > 1
    BY <1>0, <1>4
  <2>2. Begins(line, ext[1])
    BY <1>1, <1>5
  <2>3. /\ \A i, j \in 1..k : i < j => ext[i] < ext[j]
        /\ \A i \in 1..k : ~Quoted(line, ext[i])
        /\ \A i \in 2..k - 1 : line[ext[i]] = Comma
        /\ line[ext[k]] \in {Comma, Close}
        /\ \A i \in 1..k - 1 : more[i] \in Meaning(line, Piece(line, ext[i], ext[i + 1]))
        /\ ext[k] = s
    BY ONLY <1>5, <1>6, <1>7, <1>8, <1>9, <1>10
  <2>4. \A y \in Free(line, Comma) : y <= s => \E i \in 2..k : y = ext[i]
    BY ONLY <1>11
  <2> HIDE DEF k
  <2>5. \A y \in Free(line, Comma) : y <= ext[k] => \E i \in 2..k : y = ext[i]
    BY ONLY <2>3, <2>4
  <2>6. line[1] = OutputWord => \A y \in Free(line, Close) : ext[k] <= y
    BY ONLY <2>3, <1>12
  <2> QED
    BY ONLY <2>1, <2>2, <2>3, <2>5, <2>6 DEF Path
<1>14. s \in 1..Len(line)
  BY <1>2, <1>3
<1>15. Reached(line, more, s)
  <2> DEFINE m == n + 1
  <2>1. m = Len(more) + 1 /\ ext \in [1..m -> DOMAIN line] /\ ext[m] = s
    BY ONLY <1>4, <1>5
  <2> HIDE DEF m
  <2> QED
    BY <2>1, <1>13 DEF Reached
<1> QED
  BY <1>3, <1>4, <1>14, <1>15 DEF more

-----------------------------------------------------------------------------
(* How the parser ends                                                     *)

(* A piece is empty if there are only blanks.                              *)
LEMMA BlankPiece ==
  ASSUME NEW l \in Seq(Nat), NEW c \in 1..Len(l), NEW s \in (c + 1)..Len(l)
  PROVE  Piece(l, c, s) = << >> <=> \A j \in (c + 1)..(s - 1) : l[j] = Blank
<1> DEFINE lo == c + 1
           hi == s - 1
<1>0. Len(l) \in Nat
  BY LenProperties
<1>1. lo \in Nat \ {0} /\ hi \in Nat /\ lo <= hi + 1 /\ hi <= Len(l)
  BY <1>0
<1>2. Piece(l, c, s) = Stripped(SubSeq(l, lo, hi))
  BY DEF Piece
<1> SUFFICES Piece(l, c, s) = << >> <=> \A j \in lo..hi : l[j] = Blank
  OBVIOUS
<1> HIDE DEF lo, hi
<1>3. ASSUME NEW a \in lo..hi, NEW b \in lo..hi, Bare(l, lo, hi, a, b)
      PROVE  Piece(l, c, s) # << >>
  <2>1. b \in a..hi
    BY <1>3 DEF Bare
  <2>b. \A x, y : Bare(l, lo, hi, x, y) =>
                  Stripped(SubSeq(l, lo, hi)) = SubSeq(l, x, y)
    BY <1>1, PieceIs
  <2>a. Stripped(SubSeq(l, lo, hi)) = SubSeq(l, a, b)
    BY ONLY <1>3, <2>b
  <2>2. Piece(l, c, s) = SubSeq(l, a, b)
    BY ONLY <1>2, <2>a
  <2>3. 1 <= a /\ a <= b /\ b <= Len(l) /\ a \in Int /\ b \in Int
    BY <1>0, <1>1, <2>1
  <2> QED
    BY <2>2, <2>3, LengthOfSubSeq
<1>4. \/ \A j \in lo..hi : l[j] = Blank
      \/ \E a, b \in lo..hi : Bare(l, lo, hi, a, b)
  BY <1>1, PieceEnds
<1>5. (\A j \in lo..hi : l[j] = Blank) => Piece(l, c, s) = << >>
  BY <1>1, <1>2, PieceIs
<1> QED
  BY <1>3, <1>4, <1>5

(* So is what follows the body.                                            *)
LEMMA BlankRest ==
  ASSUME NEW l \in Seq(Nat), NEW e \in 1..Len(l)
  PROVE  Trimmed(substr(l, e + 1)) = << >> <=> \A j \in (e + 1)..Len(l) : l[j] = Blank
<1> DEFINE x == e + 1
           t == substr(l, x)
           i == find_first_not_of(t, {Blank}, 1)
           n == Len(l)
<1>0. n \in Nat /\ x \in Nat \ {0} /\ x <= n + 1 /\ n <= Len(l)
  BY LenProperties
<1> SUFFICES Trimmed(t) = << >> <=> \A j \in x..n : l[j] = Blank
  OBVIOUS
<1>1. t = SubSeq(l, x, n)
  BY DEF substr
<1> HIDE DEF x, t, n
<1>2. /\ t \in Seq(Nat) /\ Len(t) = n + 1 - x
      /\ \A j \in 1..(n + 1 - x) : t[j] = l[x + j - 1]
      /\ \A j \in x..n : j + 1 - x \in 1..(n + 1 - x) /\ t[j + 1 - x] = l[j]
  BY <1>0, <1>1, InSubSeq
<1>3. (\A j \in x..n : l[j] = Blank) => Trimmed(t) = << >>
  <2> SUFFICES ASSUME \A j \in x..n : l[j] = Blank
               PROVE  Trimmed(t) = << >>
    OBVIOUS
  <2>1. \A j \in 1..(n + 1 - x) : x + j - 1 \in x..n
    BY <1>0
  <2>2. \A j \in 1..Len(t) : t[j] = Blank
    BY <1>2, <2>1
  <2> QED
    BY <1>2, <2>2, TrimmedIs
<1>4. ASSUME Trimmed(t) = << >>, NEW j \in x..n
      PROVE  l[j] = Blank
  <2>0. Len(t) \in Nat
    BY <1>2, LenProperties
  <2>1. /\ i \in (1..Len(t)) \cup {npos}
        /\ \A k \in 1..Len(t) : t[k] \notin {Blank} => i # npos
    BY <2>0, findNotProperties
  <2>2. Trimmed(t) = IF i = npos THEN << >> ELSE SubSeq(t, i, Len(t))
    BY DEF Trimmed, substr
  <2> HIDE DEF i
  <2>3. i = npos
    <3>1. ASSUME i # npos
          PROVE  FALSE
      <4>1. i \in Int /\ 1 <= i /\ i <= Len(t) /\ Len(t) \in Int
        BY <2>0, <2>1, <3>1
      <4>2. SubSeq(t, i, Len(t)) # << >>
        <5> DEFINE k == Len(t)
        <5>1. t \in Seq(Nat) /\ k <= Len(t) /\ i <= k /\ 1 <= i /\ i \in Int /\ k \in Int
          BY <1>2, <2>0, <4>1
        <5> HIDE DEF k
        <5>2. SubSeq(t, i, k) # << >>
          BY ONLY <5>1, LengthOfSubSeq
        <5> QED
          BY <5>2 DEF k
      <4> QED
        BY <1>4, <2>2, <3>1, <4>2
    <3> QED
      BY <3>1
  <2>4. j + 1 - x \in 1..Len(t) /\ t[j + 1 - x] = l[j]
    BY <1>2
  <2> QED
    BY <2>1, <2>3, <2>4
<1> QED
  BY <1>3, <1>4

(* The end of the body, if it is the first ")" of a tuple or the last one  *)
(* of a pattern.                                                           *)
LEMMA EndOfBody ==
  ASSUME NEW l \in Seq(Nat), NEW o, Begins(l, o), NEW e \in Free(l, Close),
         l[1] = OutputWord => \A y \in Free(l, Close) : e <= y,
         l[1] # OutputWord => \A y \in Free(l, Close) : y <= e
  PROVE  BodyEnd(l) = e
<1>1. /\ BodyEnd(l) \in Free(l, Close)
      /\ l[1] = OutputWord => \A y \in Free(l, Close) : BodyEnd(l) <= y
      /\ l[1] # OutputWord => \A y \in Free(l, Close) : y <= BodyEnd(l)
  BY BodyEnds
<1>2. BodyEnd(l) \in Nat /\ e \in Nat
  BY <1>1, LenProperties DEF Free
<1>3. BodyEnd(l) <= e /\ e <= BodyEnd(l)
  BY <1>1
<1> QED
  BY ONLY <1>2, <1>3

(* The places where the body is cut, in order.                             *)
LEMMA BodyIsCut ==
  ASSUME NEW l \in Seq(Nat), NEW m \in Nat, m >= 2, NEW f \in [1..m -> DOMAIN l],
         Begins(l, f[1]),
         f[m] = BodyEnd(l), f[m] \in Free(l, Close),
         \A i, j \in 1..m : i < j => f[i] < f[j],
         \A i \in 2..m - 1 : f[i] \in Free(l, Comma),
         \A y \in Free(l, Comma) : y < f[m] => \E i \in 1..m : y = f[i]
  PROVE  /\ Len(Ascending(Cuts(l))) = m
         /\ \A i \in 1..m : Ascending(Cuts(l))[i] = f[i]
<1> DEFINE S == Cuts(l)
           o == f[1]
           e == f[m]
<1>1. /\ S \in SUBSET (0..Len(l)) /\ o \in S /\ e \in S
      /\ \A y : y \in S <=> y \in {o, e} \/ (y \in Free(l, Comma) /\ y < e)
  BY CutsAre
<1>2. Len(l) \in Nat
  BY LenProperties
<1>3. /\ 1 \in 1..m /\ m \in 1..m
      /\ \A i \in 1..m : i = 1 \/ i = m \/ (i \in 2..m - 1 /\ i < m)
  OBVIOUS
<1> HIDE DEF S, o, e
<1>4. \A i \in 1..m : f[i] \in S
  <2> SUFFICES ASSUME NEW i \in 1..m
               PROVE  f[i] \in S
    OBVIOUS
  <2>1. CASE i = 1 \/ i = m
    BY <1>1, <2>1 DEF o, e
  <2>2. CASE i \in 2..m - 1 /\ i < m
    <3>1. f[i] \in Free(l, Comma) /\ f[i] < e
      BY <1>3, <2>2 DEF e
    <3> QED
      BY <1>1, <3>1
  <2> QED
    BY <1>3, <2>1, <2>2
<1>5. \A y \in S : \E i \in 1..m : y = f[i]
  <2> SUFFICES ASSUME NEW y \in S
               PROVE  \E i \in 1..m : y = f[i]
    OBVIOUS
  <2>1. y = o \/ y = e \/ (y \in Free(l, Comma) /\ y < e)
    BY <1>1
  <2> QED
    BY <1>3, <2>1 DEF o, e
<1>6. \A i, j \in 1..m : i < j => f[i] < f[j]
  OBVIOUS
<1> QED
  <2> DEFINE n == Len(l)
  <2>0. n \in Nat /\ S \in SUBSET (0..n)
    BY <1>1, <1>2
  <2> HIDE DEF n
  <2>1. f \in [1..m -> S]
    BY <1>4
  <2>2. Len(Ascending(S)) = m /\ \A i \in 1..m : Ascending(S)[i] = f[i]
    BY ONLY <2>0, <1>5, <1>6, <2>1, AscendingIs
  <2> QED
    BY <2>2 DEF S

(* A line that is accepted has a body; nothing follows it if it is one of  *)
(* a pattern.                                                              *)
LEMMA AcceptedEnds ==
  ASSUME NEW l \in Seq(Nat), NEW o, Begins(l, o), WellFormed(l)
  PROVE  LET e == BodyEnd(l)
         IN  /\ Free(l, Close) # {} /\ e \in Free(l, Close) /\ e \in (o + 1)..Len(l)
             /\ l[e] = Close
             /\ l[1] = OutputWord => \A y \in Free(l, Close) : e <= y
             /\ l[1] # OutputWord => \A j \in (e + 1)..Len(l) : l[j] = Blank
<1> DEFINE e == BodyEnd(l)
<1>1. /\ Free(l, Close) # {}
      /\ l[1] = OutputWord \/ Trimmed(substr(l, e + 1)) = << >>
  <2> DEFINE b == find_first_not_of(l, {Blank}, 2)
  <2>1. o = b
    BY DEF Begins
  <2> HIDE DEF b
  <2>2. o = find_first_not_of(l, {Blank}, 2)
    BY <2>1 DEF b
  <2> QED
    BY <2>2, WellFormedIs
<1>2. /\ e \in Free(l, Close) /\ e \in (o + 1)..Len(l)
      /\ l[1] = OutputWord => \A y \in Free(l, Close) : e <= y
  BY <1>1, BodyEnds
<1>3. o \in 2..Len(l) /\ Len(l) \in Nat
  BY BodyBegins
<1> HIDE DEF e
<1>4. e \in 1..Len(l)
  BY <1>2, <1>3
<1>5. l[e] = Close
  BY <1>2 DEF Free
<1>6. l[1] # OutputWord => \A j \in (e + 1)..Len(l) : l[j] = Blank
  BY <1>1, <1>4, BlankRest
<1> QED
  BY <1>1, <1>2, <1>5, <1>6 DEF e

(* Where the body of a line that is accepted is cut, the line is read on.  *)
LEMMA CutIsRead ==
  ASSUME line \in Seq(Nat), NEW o, Begins(line, o), WellFormed(line),
         NEW c \in 1..Len(line), c = o \/ c \in Free(line, Comma), c < BodyEnd(line)
  PROVE  \/ \E s \in (c + 1)..Len(line) :
              /\ s \in Cuts(line) /\ line[s] \in {Comma, Close}
              /\ Meaning(line, Piece(line, c, s)) # {}
              /\ ElemsAt(SkipTo(c + 1)) # {}
              /\ \A e \in ElemsAt(SkipTo(c + 1)) : SkipTo(e.next) = s
         \/ /\ SkipTo(c + 1) = BodyEnd(line)
            /\ \A j \in (c + 1)..(BodyEnd(line) - 1) : line[j] = Blank
<1> DEFINE e == BodyEnd(line)
<1>0. Len(line) \in Nat
  BY LenProperties
<1>1. Free(line, Close) # {} /\ e \in 1..Len(line) /\ line[e] = Close
  <2>1. Free(line, Close) # {} /\ e \in Free(line, Close) /\ line[e] = Close
    BY AcceptedEnds
  <2> HIDE DEF e
  <2> QED
    BY <2>1, LenProperties DEF Free
<1>2. c \in Cuts(line)
  BY <1>1, CutsAre
<1>3. c # e
  <2> HIDE DEF e
  <2>1. c < e
    BY DEF e
  <2> QED
    BY <1>1, <2>1
<1>4. PICK s \in (c + 1)..Len(line) :
        /\ s \in Cuts(line) /\ line[s] \in {Comma, Close}
        /\ \/ Meaning(line, Piece(line, c, s)) # {}
           \/ s = e /\ Piece(line, c, s) = << >>
  BY <1>2, <1>3, NextPiece
<1> HIDE DEF e
<1>5. CASE Meaning(line, Piece(line, c, s)) # {}
  BY <1>4, <1>5, MeaningStep
<1>6. CASE s = e /\ Piece(line, c, s) = << >>
  <2>1. \A j \in (c + 1)..(s - 1) : line[j] = Blank
    BY <1>6, BlankPiece
  <2>2. SkipTo(c + 1) = s
    <3> DEFINE x == c + 1
    <3>1. x \in Nat \ {0} /\ s \in x..Len(line)
      BY <1>0
    <3>2. \A j \in x..(s - 1) : line[j] = Blank
      BY <2>1
    <3>3. line[s] # Blank
      BY <1>1, <1>6 DEF Close, Blank
    <3> HIDE DEF x
    <3>4. SkipTo(x) = s
      BY <3>1, <3>2, <3>3, SkipToIs
    <3> QED
      BY <3>4 DEF x
  <2> QED
    BY <1>6, <2>1, <2>2 DEF e
<1> QED
  BY <1>4, <1>5, <1>6

(* A path to a place where the line is cut is not yet at the end.          *)
LEMMA PathIsInside ==
  ASSUME line \in Seq(Nat), NEW n \in Nat \ {0}, NEW elems, Len(elems) + 1 = n,
         NEW cut \in [1..n -> DOMAIN line], Path(line, cut, elems), WellFormed(line),
         line[cut[n]] # Close
  PROVE  LET c == cut[n]
         IN  /\ c \in 1..Len(line) /\ c < BodyEnd(line) /\ Begins(line, cut[1])
             /\ c = cut[1] \/ c \in Free(line, Comma)
<1> DEFINE c == cut[n]
           e == BodyEnd(line)
<1>1. /\ Len(line) \in Nat /\ \A i \in 1..n : cut[i] \in 1..Len(line)
      /\ Begins(line, cut[1])
      /\ \/ n = 1 /\ line[cut[n]] = Open
         \/ n > 1 /\ line[cut[n]] = Comma /\ cut[n] \in Free(line, Comma)
      /\ line[1] = OutputWord => \A y \in Free(line, Close) : cut[n] <= y
  <2>1. Along(line, n, cut, elems)
    BY PathAt
  <2>2. /\ Len(line) \in Nat /\ \A i \in 1..n : cut[i] \in 1..Len(line)
        /\ Begins(line, cut[1])
    BY ONLY <2>1 DEF Along
  <2>3. \/ n = 1 /\ line[cut[n]] = Open
        \/ n > 1 /\ line[cut[n]] = Comma /\ cut[n] \in Free(line, Comma)
    BY <2>1 DEF Along
  <2>4. line[1] = OutputWord => \A y \in Free(line, Close) : cut[n] <= y
    BY ONLY <2>1 DEF Along
  <2> QED
    BY <2>2, <2>3, <2>4
<1>2. c \in 1..Len(line)
  BY <1>1
<1>3. /\ e \in Free(line, Close) /\ e \in (cut[1] + 1)..Len(line)
      /\ line[e] = Close
      /\ line[1] # OutputWord => \A j \in (e + 1)..Len(line) : line[j] = Blank
  BY <1>1, AcceptedEnds
<1>4. c = cut[1] \/ c \in Free(line, Comma)
  BY <1>1
<1>5. c # e
  BY <1>3
<1> HIDE DEF c, e
<1>6. cut[1] \in 1..Len(line)
  <2>1. 1 \in 1..n
    OBVIOUS
  <2> QED
    BY <1>1, <2>1
<1>7. c < e
  <2>1. CASE c = cut[1]
    BY <1>3, <1>6, <2>1
  <2>2. CASE line[1] = OutputWord
    <3>1. c <= e
      BY <1>1, <1>3, <2>2 DEF c
    <3> QED
      BY <1>2, <1>3, <1>5, <1>6, <3>1
  <2>3. CASE c # cut[1] /\ line[1] # OutputWord
    <3>1. line[c] = Comma
      BY <1>4, <2>3 DEF Free
    <3>2. Comma # Blank
      BY DEF Comma, Blank
    <3>3. c \notin (e + 1)..Len(line)
      BY <1>3, <2>3, <3>1, <3>2
    <3> QED
      BY <1>1, <1>2, <1>3, <1>5, <1>6, <3>3
  <2> QED
    BY <2>1, <2>2, <2>3
<1> QED
  BY <1>1, <1>2, <1>4, <1>7 DEF c, e

(* Where no element is read, or no separator behind one, the line is not   *)
(* accepted.                                                               *)
LEMMA ElementFails ==
  ASSUME line \in Seq(Nat), NEW n \in Nat \ {0}, NEW elems, Len(elems) + 1 = n,
         NEW cut \in [1..n -> DOMAIN line], Path(line, cut, elems),
         NEW at, at = Behind(line, cut[n]), CharAt(at) # Close,
         \/ ElemsAt(at) = {}
         \/ \E e \in ElemsAt(at) : CharAt(SkipTo(e.next)) \notin {Comma, Close}
  PROVE  ~WellFormed(line)
<1> SUFFICES ASSUME WellFormed(line)
             PROVE  FALSE
  OBVIOUS
<1> DEFINE c == cut[n]
<1>1. c \in DOMAIN line /\ c \in 1..Len(line)
  BY LenProperties
<1>2. line[c] # Close /\ at = SkipTo(c + 1)
  <2>1. line[c] # Close
    <3>1. ASSUME line[c] = Close
          PROVE  FALSE
      <4>1. at = c
        BY <3>1 DEF Behind
      <4>2. CharAt(c) = line[c]
        BY <1>1, CharIs
      <4> QED
        BY <3>1, <4>1, <4>2
    <3> QED
      BY <3>1
  <2> QED
    BY <2>1 DEF Behind, SkipTo
<1>3. /\ c < BodyEnd(line) /\ Begins(line, cut[1])
      /\ c = cut[1] \/ c \in Free(line, Comma)
  BY <1>2, PathIsInside
<1> DEFINE o == cut[1]
<1> HIDE DEF c, o
<1>4. Begins(line, o) /\ (c = o \/ c \in Free(line, Comma))
  BY <1>3 DEF o
<1>5. \/ \E s \in (c + 1)..Len(line) :
              /\ s \in Cuts(line) /\ line[s] \in {Comma, Close}
              /\ Meaning(line, Piece(line, c, s)) # {}
              /\ ElemsAt(SkipTo(c + 1)) # {}
              /\ \A e \in ElemsAt(SkipTo(c + 1)) : SkipTo(e.next) = s
      \/ /\ SkipTo(c + 1) = BodyEnd(line)
         /\ \A j \in (c + 1)..(BodyEnd(line) - 1) : line[j] = Blank
  BY <1>1, <1>3, <1>4, CutIsRead
<1>6. ASSUME NEW s \in (c + 1)..Len(line), line[s] \in {Comma, Close}, ElemsAt(at) # {},
             \A e \in ElemsAt(at) : SkipTo(e.next) = s
      PROVE  FALSE
  <2>1. s \in 1..Len(line)
    BY <1>1, LenProperties
  <2>2. CharAt(s) = line[s]
    BY <2>1, CharIs
  <2> QED
    BY <1>6, <2>2
<1>7. ASSUME at = BodyEnd(line)
      PROVE  FALSE
  <2>1. BodyEnd(line) \in Free(line, Close)
    BY <1>4, AcceptedEnds
  <2>2. BodyEnd(line) \in 1..Len(line) /\ line[BodyEnd(line)] = Close
    BY <2>1, LenProperties DEF Free
  <2>3. CharAt(at) = Close
    BY <1>7, <2>2, CharIs
  <2> QED
    BY <2>3
<1> QED
  BY <1>2, <1>5, <1>6, <1>7

(* No pattern begins with ")" or behind the end of the line.               *)
LEMMA NoPatternThere ==
  ASSUME NEW at, CharAt(at) \in {0, Close}
  PROVE  PatternAt(at) = {}
<1>1. \A t \in ElemType : TypeWord[t] \notin {0, Close}
  BY DEF TypeWord, Close, ElemType, ELEM_INT, ELEM_FLOAT, ELEM_STRING
<1>2. \A t \in ElemType : CharAt(at) # TypeWord[t]
  BY <1>1
<1> DEFINE open  == SkipTo(at + 1)
           quote == SkipTo(open + 1)
           end   == find(line, {Quote}, quote + 1)
           close == SkipTo(end + 1)
           T == {u \in ElemType : /\ CharAt(at) = TypeWord[u]
                                  /\ CharAt(open) = Open
                                  /\ CharAt(quote) = Quote
                                  /\ end # npos
                                  /\ CharAt(close) = Close}
           U == UNION {Construct(t, Text(quote + 1, end - 1)) : t \in T}
<1>3. PatternAt(at) = {[elem |-> p, next |-> close + 1] : p \in U}
  BY DEF PatternAt
<1>4. T = {}
  BY <1>2
<1> HIDE DEF T
<1>5. U = {}
  BY <1>4
<1> HIDE DEF U
<1> QED
  BY <1>3, <1>5

(* Nothing but blanks follows a body that is accepted, of a pattern.       *)
LEMMA NothingFollows ==
  ASSUME line \in Seq(Nat), NEW o, Begins(line, o), WellFormed(line), ~IsTuple
  PROVE  SkipTo(BodyEnd(line) + 1) = npos
<1> DEFINE e == BodyEnd(line)
           x == e + 1
<1>1. e \in Free(line, Close) /\ \A j \in (e + 1)..Len(line) : line[j] = Blank
  BY AcceptedEnds DEF IsTuple
<1>2. e \in 1..Len(line) /\ Len(line) \in Nat
  BY <1>1, LenProperties DEF Free
<1> HIDE DEF e
<1>3. x \in Nat \ {0} /\ \A j \in x..Len(line) : line[j] = Blank
  BY <1>1, <1>2
<1> HIDE DEF x
<1>4. SkipTo(x) = npos
  BY <1>3, SkipToIs
<1> QED
  BY <1>4 DEF e, x

(* A pattern behind which something follows is not accepted.               *)
LEMMA FinishFails ==
  ASSUME line \in Seq(Nat), NEW n \in Nat \ {0}, NEW elems, Len(elems) + 1 = n,
         NEW cut \in [1..n -> DOMAIN line], Path(line, cut, elems),
         NEW at, at = Behind(line, cut[n]), CharAt(at) = Close, ~IsTuple,
         SkipTo(at + 1) # npos
  PROVE  ~WellFormed(line)
<1> SUFFICES ASSUME WellFormed(line)
             PROVE  FALSE
  OBVIOUS
<1> DEFINE c == cut[n]
           o == cut[1]
           e == BodyEnd(line)
<1>1. /\ Len(line) \in Nat /\ \A i \in 1..n : cut[i] \in 1..Len(line)
      /\ \A i, j \in 1..n : i < j => cut[i] < cut[j]
      /\ Begins(line, cut[1])
      /\ \A i \in 2..n - 1 : cut[i] \in Free(line, Comma)
      /\ line[cut[n]] = Close => n > 1 /\ cut[n] \in Free(line, Close)
      /\ \A i \in 1..n - 1 :
           elems[i] \in Meaning(line, Piece(line, cut[i], cut[i + 1]))
  <2>1. Along(line, n, cut, elems)
    BY PathAt
  <2> QED
    BY ONLY <2>1 DEF Along
<1>2. SkipTo(e + 1) = npos
  BY <1>1, NothingFollows
<1>3. at # e
  BY <1>2
<1>4. Free(line, Close) # {} /\ \A y \in Free(line, Close) : y <= e
  <2>1. Free(line, Close) # {}
    BY <1>1, AcceptedEnds
  <2> QED
    BY <1>1, <2>1, BodyEnds DEF IsTuple
<1>5. e \in Free(line, Close) /\ e \in 1..Len(line) /\ line[e] = Close
  <2>1. e \in Free(line, Close)
    BY <1>1, <1>4, BodyEnds
  <2> QED
    BY <2>1, LenProperties DEF Free
<1>6. CASE line[cut[n]] = Close
  <2>1. n > 1 /\ c \in Free(line, Close) /\ at = c /\ c \in 1..Len(line)
    BY <1>1, <1>6 DEF Behind
  <2>2. c <= e /\ c # e
    BY <1>3, <1>4, <2>1
  <2> DEFINE p == cut[n - 1]
  <2>3. /\ n - 1 \in 1..n /\ n - 1 < n /\ n - 1 \in 1..n - 1 /\ n - 1 + 1 = n
        /\ n - 1 = 1 \/ n - 1 \in 2..n - 1
    BY <2>1
  <2>4. p \in 1..Len(line) /\ p < c
    <3> DEFINE q == n - 1
    <3>1. q \in 1..n /\ n \in 1..n /\ q < n
      BY <2>3
    <3> HIDE DEF q
    <3>2. cut[q] \in 1..Len(line) /\ cut[q] < cut[n]
      BY ONLY <1>1, <3>1
    <3> QED
      BY <3>2 DEF q
  <2>5. p = o \/ p \in Free(line, Comma)
    BY <1>1, <2>3
  <2>6. Meaning(line, Piece(line, p, c)) # {}
    BY <1>1, <2>3
  <2>7. o < c
    <3>1. 1 \in 1..n /\ n \in 1..n /\ 1 < n
      BY <2>1
    <3> QED
      BY <1>1, <3>1
  <2>8. Begins(line, o)
    BY <1>1
  <2>9. o \in 1..Len(line)
    <3>1. 1 \in 1..n
      OBVIOUS
    <3> QED
      BY <1>1, <3>1
  <2> DEFINE start == SkipTo(p + 1)
  <2>13. line[c] = Close
    BY <1>6
  <2> HIDE DEF p, o, c, e
  <2>10. c \in (p + 1)..Len(line) /\ line[c] \in {Comma, Close}
    BY <1>1, <2>1, <2>4, <2>13
  <2>11. /\ ElemsAt(start) # {}
         /\ \A el \in ElemsAt(start) : SkipTo(el.next) = c
    BY <2>4, <2>6, <2>10, MeaningStep
  <2>12. p < e
    BY <1>1, <1>5, <2>1, <2>2, <2>4
  <2>14. \/ \E s \in (p + 1)..Len(line) :
              /\ s \in Cuts(line) /\ line[s] \in {Comma, Close}
              /\ Meaning(line, Piece(line, p, s)) # {}
              /\ ElemsAt(start) # {}
              /\ \A el \in ElemsAt(start) : SkipTo(el.next) = s
         \/ /\ start = e
            /\ \A j \in (p + 1)..(e - 1) : line[j] = Blank
    BY <2>4, <2>5, <2>8, <2>12, CutIsRead DEF e
  <2> HIDE DEF start
  <2>15. c \notin Cuts(line)
    <3>1. \A y : y \in Cuts(line) <=> y \in {o, e} \/ (y \in Free(line, Comma) /\ y < e)
      BY <1>4, <2>8, CutsAre DEF e
    <3>2. c \notin Free(line, Comma)
      BY <2>13 DEF Free, Comma, Close
    <3>3. c # o
      BY <2>1, <2>7, <2>9
    <3> QED
      BY <2>2, <3>1, <3>2, <3>3
  <2>16. c \in (p + 1)..(e - 1)
    BY <1>1, <1>5, <2>1, <2>2, <2>4
  <2>17. line[c] # Blank
    BY <2>13 DEF Blank, Close
  <2> QED
    BY <2>11, <2>14, <2>15, <2>16, <2>17
<1>7. CASE line[cut[n]] # Close
  <2>1. c \in 1..Len(line) /\ c < e /\ (c = o \/ c \in Free(line, Comma)) /\ Begins(line, o)
    BY <1>7, PathIsInside
  <2>2. at = SkipTo(c + 1)
    BY <1>7 DEF Behind, SkipTo
  <2>3. ElemsAt(at) = {}
    BY NoPatternThere DEF ElemsAt
  <2> HIDE DEF o, c
  <2>4. \/ ElemsAt(SkipTo(c + 1)) # {}
        \/ SkipTo(c + 1) = e
    BY <2>1, CutIsRead
  <2> QED
    BY <1>3, <2>2, <2>3, <2>4
<1> QED
  BY <1>6, <1>7

(* The body of the line is cut in these places: from "(" to the last one,  *)
(* which ends it, at each comma.                                           *)
Divided(l, m, f) ==
  /\ Begins(l, f[1]) /\ f[m] \in Free(l, Close)
  /\ \A i, j \in 1..m : i < j => f[i] < f[j]
  /\ \A i \in 2..m - 1 : f[i] \in Free(l, Comma)
  /\ \A y \in Free(l, Comma) : y < f[m] => \E i \in 1..m : y = f[i]
  /\ l[1] = OutputWord => \A y \in Free(l, Close) : f[m] <= y
  /\ l[1] # OutputWord => \A j \in (f[m] + 1)..Len(l) : l[j] = Blank

(* The elements are the meaning of what is between the first k places.     *)
Between(l, f, k, elems) ==
  \A i \in 1..k : elems[i] \in Meaning(l, Piece(l, f[i], f[i + 1]))

(* A body that is cut there and has these elements is accepted.            *)
LEMMA BodyIsRead ==
  ASSUME line \in Seq(Nat), NEW m \in Nat, m >= 2, NEW f \in [1..m -> DOMAIN line],
         Divided(line, m, f),
         NEW k, k = IF Piece(line, f[m - 1], f[m]) = << >> THEN m - 2 ELSE m - 1,
         NEW elems, Between(line, f, k, elems)
  PROVE  /\ WellFormed(line) /\ Len(Pieces(line)) = k
         /\ \A i \in 1..k : elems[i] \in Meaning(line, Pieces(line)[i])
<1>0. /\ Begins(line, f[1]) /\ f[m] \in Free(line, Close)
      /\ \A i, j \in 1..m : i < j => f[i] < f[j]
      /\ \A i \in 2..m - 1 : f[i] \in Free(line, Comma)
      /\ \A y \in Free(line, Comma) : y < f[m] => \E i \in 1..m : y = f[i]
      /\ line[1] = OutputWord => \A y \in Free(line, Close) : f[m] <= y
      /\ line[1] # OutputWord => \A j \in (f[m] + 1)..Len(line) : line[j] = Blank
  BY DEF Divided
<1>z. \A i \in 1..k : elems[i] \in Meaning(line, Piece(line, f[i], f[i + 1]))
  BY DEF Between
<1> DEFINE e == f[m]
           o == f[1]
           A == Ascending(Cuts(line))
           L == Len(A)
<1>1. e \in 1..Len(line) /\ Len(line) \in Nat /\ line[e] = Close
  <2>1. Len(line) \in Nat /\ DOMAIN line = 1..Len(line)
    BY LenProperties
  <2>2. m \in 1..m
    OBVIOUS
  <2> QED
    BY <1>0, <2>1, <2>2 DEF Free
<1>2. Begins(line, o) /\ e \in Free(line, Close)
  BY <1>0
<1>3. BodyEnd(line) = e
  <2>1. ASSUME line[1] # OutputWord, NEW y \in Free(line, Close)
        PROVE  y <= e
    <3>1. y \in 1..Len(line) /\ line[y] = Close
      BY <1>1, LenProperties DEF Free
    <3>2. Close # Blank
      BY DEF Close, Blank
    <3>3. y \notin (e + 1)..Len(line)
      BY <1>0, <2>1, <3>1, <3>2
    <3> HIDE DEF e
    <3> QED
      BY <1>1, <3>1, <3>3
  <2>2. line[1] = OutputWord => \A y \in Free(line, Close) : e <= y
    BY <1>0
  <2> QED
    BY <1>2, <2>1, <2>2, EndOfBody
<1>4. L = m /\ \A i \in 1..m : A[i] = f[i]
  BY <1>0, <1>3, BodyIsCut
<1> HIDE DEF A, L
<1>5. Len(Ascending(Cuts(line))) \in Nat /\ Len(Ascending(Cuts(line))) >= 2
  BY <1>4 DEF A, L
<1>6. LET n == IF Piece(line, A[L - 1], A[L]) = << >> THEN L - 2 ELSE L - 1
      IN  /\ Len(Pieces(line)) = n /\ DOMAIN Pieces(line) = 1..n
          /\ \A i \in 1..n : Pieces(line)[i] = Piece(line, A[i], A[i + 1])
  BY <1>5, PiecesAre DEF A, L
<1>7. A[L - 1] = f[m - 1] /\ A[L] = f[m]
  <2>1. m - 1 \in 1..m /\ m \in 1..m
    OBVIOUS
  <2> QED
    BY <1>4, <2>1
<1>8. /\ Len(Pieces(line)) = k /\ DOMAIN Pieces(line) = 1..k
      /\ \A i \in 1..k : Pieces(line)[i] = Piece(line, A[i], A[i + 1])
  BY <1>4, <1>6, <1>7
<1>9. \A i \in 1..k : i \in 1..m /\ i + 1 \in 1..m
  OBVIOUS
<1>10. \A i \in 1..k : Pieces(line)[i] = Piece(line, f[i], f[i + 1])
  BY <1>4, <1>8, <1>9
<1>11. \A i \in 1..k : elems[i] \in Meaning(line, Pieces(line)[i])
  BY <1>z, <1>10
<1>12. Free(line, Close) # {}
  BY <1>2
<1>13. line[1] = OutputWord \/ Trimmed(substr(line, e + 1)) = << >>
  <2> HIDE DEF e
  <2>1. line[1] # OutputWord => \A j \in (e + 1)..Len(line) : line[j] = Blank
    BY <1>0 DEF e
  <2> QED
    BY <1>1, <2>1, BlankRest
<1>14. WellFormed(line)
  <2> DEFINE b == find_first_not_of(line, {Blank}, 2)
  <2>1. o = b
    BY <1>2 DEF Begins
  <2>2. \A i \in DOMAIN Pieces(line) : Meaning(line, Pieces(line)[i]) # {}
    BY <1>8, <1>11
  <2>3. Begins(line, b)
    BY <1>2, <2>1
  <2> HIDE DEF b
  <2>4. b = find_first_not_of(line, {Blank}, 2)
    BY DEF b
  <2>5. line[1] = OutputWord \/ Trimmed(substr(line, BodyEnd(line) + 1)) = << >>
    BY <1>3, <1>13
  <2> QED
    BY ONLY <1>12, <2>2, <2>3, <2>4, <2>5, line \in Seq(Nat), WellFormedIs
<1> QED
  BY <1>8, <1>11, <1>14

(* Where the parser comes to an end, the line is accepted, and its pieces  *)
(* mean what was read.                                                     *)
LEMMA PathEnds ==
  ASSUME line \in Seq(Nat), NEW S, NEW elems \in Seq(S), NEW n \in Nat \ {0},
         Len(elems) + 1 = n,
         NEW cut \in [1..n -> DOMAIN line], Path(line, cut, elems),
         NEW at, at = Behind(line, cut[n]), CharAt(at) = Close,
         IsTuple \/ SkipTo(at + 1) = npos
  PROVE  /\ WellFormed(line) /\ Len(Pieces(line)) = n - 1
         /\ \A i \in 1..n - 1 : elems[i] \in Meaning(line, Pieces(line)[i])
<1> DEFINE c == cut[n]
<1>1. /\ Len(line) \in Nat /\ DOMAIN line = 1..Len(line)
      /\ \A i \in 1..n : cut[i] \in 1..Len(line) /\ ~Quoted(line, cut[i])
      /\ \A i, j \in 1..n : i < j => cut[i] < cut[j]
      /\ Begins(line, cut[1]) /\ line[cut[1]] = Open
      /\ \A i \in 2..n - 1 : cut[i] \in Free(line, Comma) /\ line[cut[i]] = Comma
      /\ line[cut[n]] = Close => n > 1 /\ cut[n] \in Free(line, Close)
      /\ line[cut[n]] # Close =>
           \/ n = 1 /\ line[cut[n]] = Open
           \/ n > 1 /\ line[cut[n]] = Comma /\ cut[n] \in Free(line, Comma)
      /\ line[cut[n]] # Quote
      /\ \A i \in 1..n - 1 :
           elems[i] \in Meaning(line, Piece(line, cut[i], cut[i + 1]))
      /\ \A y \in Free(line, Comma) : y <= cut[n] => \E i \in 2..n : y = cut[i]
      /\ line[1] = OutputWord => \A y \in Free(line, Close) : cut[n] <= y
  <2>1. Along(line, n, cut, elems)
    BY PathAt
  <2> QED
    BY ONLY <2>1 DEF Along
<1>2. n \in 1..n /\ c \in 1..Len(line)
  BY <1>1
<1>3. ASSUME at \in 1..Len(line)
      PROVE  line[1] # OutputWord => \A j \in (at + 1)..Len(line) : line[j] = Blank
  <2>1. at + 1 \in Nat \ {0}
    BY <1>3
  <2> DEFINE x == at + 1
  <2> HIDE DEF x
  <2>2. x \in Nat \ {0} /\ (IsTuple \/ SkipTo(x) = npos)
    BY <2>1 DEF x
  <2>3. line[1] # OutputWord => \A j \in x..Len(line) : line[j] = Blank
    BY <2>2, SkipToIs DEF IsTuple
  <2> QED
    BY <2>3 DEF x
<1>4. CASE line[cut[n]] = Close
  <2>1. n > 1 /\ at = c /\ cut[n] \in Free(line, Close) /\ n \in Nat /\ n >= 2
    BY <1>1, <1>4 DEF Behind
  <2>2. line[1] # OutputWord => \A j \in (cut[n] + 1)..Len(line) : line[j] = Blank
    BY <1>2, <1>3, <2>1
  <2>3. Piece(line, cut[n - 1], cut[n]) # << >>
    <3>1. n - 1 \in 1..n - 1 /\ n - 1 + 1 = n
      BY <2>1
    <3>2. elems[n - 1] \in Meaning(line, Piece(line, cut[n - 1], cut[n - 1 + 1]))
      BY <1>1, <3>1
    <3>3. Meaning(line, << >>) = {}
      BY NothingMeant DEF Meaning
    <3> QED
      BY <3>1, <3>2, <3>3
  <2>4. \A y \in Free(line, Comma) : y < cut[n] => \E i \in 1..n : y = cut[i]
    <3>1. \A y \in Free(line, Comma) : y \in 1..Len(line)
      BY <1>1 DEF Free
    <3>2. \A y \in Free(line, Comma) : y < cut[n] => y <= cut[n]
      BY <1>2, <3>1
    <3>3. \A i \in 2..n : i \in 1..n
      OBVIOUS
    <3>4. \A y \in Free(line, Comma) : y <= cut[n] => \E i \in 2..n : y = cut[i]
      BY <1>1
    <3> QED
      BY ONLY <3>2, <3>3, <3>4
  <2> DEFINE k == n - 1
  <2>5. k = IF Piece(line, cut[n - 1], cut[n]) = << >> THEN n - 2 ELSE n - 1
    BY <2>3
  <2>6. \A i \in 1..k : elems[i] \in Meaning(line, Piece(line, cut[i], cut[i + 1]))
    BY <1>1
  <2> HIDE DEF k
  <2>8. /\ line \in Seq(Nat) /\ elems \in Seq(S) /\ cut \in [1..n -> DOMAIN line]
        /\ n \in Nat /\ n >= 2 /\ Begins(line, cut[1])
        /\ cut[n] \in Free(line, Close)
    BY <1>1, <2>1
  <2>9. /\ \A i, j \in 1..n : i < j => cut[i] < cut[j]
        /\ \A i \in 2..n - 1 : cut[i] \in Free(line, Comma)
    BY <1>1
  <2>10. line[1] = OutputWord => \A y \in Free(line, Close) : cut[n] <= y
    BY <1>1
  <2>11. Divided(line, n, cut)
    BY ONLY <2>2, <2>4, <2>8, <2>9, <2>10 DEF Divided
  <2>12. Between(line, cut, k, elems)
    BY ONLY <2>6 DEF Between
  <2>7. /\ WellFormed(line) /\ Len(Pieces(line)) = k
        /\ \A i \in 1..k : elems[i] \in Meaning(line, Pieces(line)[i])
    BY ONLY <2>5, <2>8, <2>11, <2>12, BodyIsRead
  <2> QED
    BY <2>7 DEF k
<1>5. CASE line[cut[n]] # Close
  <2>1. at = SkipTo(c + 1)
    BY <1>5 DEF Behind, SkipTo
  <2>2. /\ at \in (c + 1)..Len(line) /\ line[at] = Close
        /\ \A j \in (c + 1)..(at - 1) : line[j] = Blank
    <3> DEFINE x == c + 1
    <3>1. x \in Nat \ {0}
      BY <1>2
    <3> HIDE DEF x, c
    <3>2. at # npos
      BY DEF CharAt, Close
    <3>3. at \in x..Len(line) /\ \A j \in x..(at - 1) : line[j] = Blank
      BY <2>1, <3>1, <3>2, SkipToIs DEF x
    <3>4. at \in 1..Len(line)
      BY <1>1, <3>1, <3>3
    <3>5. line[at] = Close
      BY <3>4, CharIs
    <3> QED
      BY <3>3, <3>5 DEF x
  <2> HIDE DEF c
  <2>3. at \in 1..Len(line) /\ c < at /\ c \in Nat \ {0} /\ at \in Nat
    <3>1. Len(line) \in Nat /\ c \in 1..Len(line) /\ at \in (c + 1)..Len(line)
      BY <1>1, <1>2, <2>2 DEF c
    <3> QED
      BY ONLY <3>1
  <2>4. \A j \in c..(at - 1) : j = c \/ (j \in (c + 1)..(at - 1) /\ line[j] = Blank)
    BY <2>2, <2>3
  <2>5. at \in Free(line, Close)
    <3>1. \A j \in c..(at - 1) : line[j] # Quote
      <4>1. line[c] # Quote /\ Blank # Quote
        BY <1>1 DEF c, Blank, Quote
      <4> QED
        BY <2>4, <4>1
    <3>2. ~Quoted(line, c)
      BY <1>1, <1>2 DEF c
    <3>3. ~Quoted(line, at)
      BY <2>3, <3>1, <3>2, SameQuotes
    <3> QED
      BY <1>1, <2>2, <2>3, <3>3 DEF Free
  <2>6. line[1] = OutputWord => \A y \in Free(line, Close) : at <= y
    <3> SUFFICES ASSUME line[1] = OutputWord, NEW y \in Free(line, Close), ~(at <= y)
                 PROVE  FALSE
      OBVIOUS
    <3>1. y \in 1..Len(line) /\ line[y] = Close
      BY <1>1 DEF Free
    <3>2. c <= y
      BY <1>1 DEF c
    <3>3. y \in c..(at - 1)
      BY <2>3, <3>1, <3>2
    <3>4. line[y] # Blank /\ y # c
      BY <1>5, <3>1 DEF Close, Blank, c
    <3> QED
      BY <2>4, <3>3, <3>4
  <2>7. line[1] # OutputWord => \A j \in (at + 1)..Len(line) : line[j] = Blank
    BY <1>3, <2>3
  <2> DEFINE m == n + 1
             f == [i \in 1..m |-> IF i = m THEN at ELSE cut[i]]
  <2>8. /\ m \in Nat /\ m >= 2 /\ f[m] = at /\ f[m - 1] = c /\ f[1] = cut[1]
        /\ \A i \in 1..n : i \in 1..m /\ f[i] = cut[i]
    BY DEF c
  <2>9. \A i \in 1..m : i = m \/ i \in 1..n
    OBVIOUS
  <2>10. m - 1 = n
    OBVIOUS
  <2>a. m = n + 1
    OBVIOUS
  <2>11. f \in [1..m -> DOMAIN line]
    <3> SUFFICES ASSUME NEW i \in 1..m
                 PROVE  f[i] \in DOMAIN line
      OBVIOUS
    <3> HIDE DEF f, m
    <3>1. CASE i = m
      BY <1>1, <2>3, <2>8, <3>1
    <3>2. CASE i # m
      <4>1. f[i] = cut[i] /\ cut[i] \in 1..Len(line)
        BY <1>1, <2>8, <2>9, <3>2
      <4> QED
        BY <1>1, <4>1
    <3> QED
      BY <3>1, <3>2
  <2> HIDE DEF f, m
  <2>12. \A i, j \in 1..m : i < j => f[i] < f[j]
    <3> SUFFICES ASSUME NEW i \in 1..m, NEW j \in 1..m, i < j
                 PROVE  f[i] < f[j]
      OBVIOUS
    <3>1. i \in 1..n
      <4>1. i \in 1..m /\ j \in 1..m /\ i < j /\ m = n + 1 /\ n \in Nat
        BY <2>a
      <4> QED
        BY ONLY <4>1
    <3>2. CASE j = m
      <4>1. f[i] = cut[i] /\ f[j] = at /\ cut[i] \in 1..Len(line)
        BY <1>1, <2>8, <3>1, <3>2
      <4>2. i = n \/ i < n
        BY <3>1
      <4>3. cut[i] = c \/ cut[i] < c
        <5>1. CASE i = n
          BY ONLY <5>1 DEF c
        <5>2. CASE i < n
          BY <1>1, <1>2, <3>1, <5>2 DEF c
        <5> QED
          BY ONLY <4>2, <5>1, <5>2
      <4>4. Len(line) \in Nat /\ at \in 1..Len(line)
        BY <1>1, <2>3
      <4> QED
        BY ONLY <2>3, <4>1, <4>3, <4>4
    <3>3. CASE j # m
      <4>1. j \in 1..n
        BY <2>9, <3>3
      <4> QED
        BY <1>1, <2>8, <3>1, <4>1
    <3> QED
      BY <3>2, <3>3
  <2>13. \A i \in 2..m - 1 : f[i] \in Free(line, Comma)
    <3> SUFFICES ASSUME NEW i \in 2..n
                 PROVE  f[i] \in Free(line, Comma)
      BY <2>10
    <3>1. i \in 1..n /\ (i = n \/ i \in 2..n - 1)
      OBVIOUS
    <3>2. f[i] = cut[i]
      BY <2>8, <3>1
    <3>3. n # 1
      OBVIOUS
    <3> QED
      BY <1>1, <1>5, <3>1, <3>2, <3>3
  <2>14. \A y \in Free(line, Comma) : y < f[m] => \E i \in 1..m : y = f[i]
    <3> SUFFICES ASSUME NEW y \in Free(line, Comma), y < at
                 PROVE  \E i \in 1..m : y = f[i]
      BY <2>8
    <3>1. y \in 1..Len(line) /\ line[y] = Comma
      BY <1>1 DEF Free
    <3>2. line[y] # Blank
      BY <3>1 DEF Comma, Blank
    <3>3. y \notin (c + 1)..(at - 1)
      BY <2>2, <3>2
    <3>4. y <= c
      BY <1>1, <2>3, <3>1, <3>3
    <3>5. PICK i \in 2..n : y = cut[i]
      BY <1>1, <3>4 DEF c
    <3>6. i \in 1..n
      OBVIOUS
    <3> QED
      BY <2>8, <3>5, <3>6
  <2> DEFINE k == n - 1
  <2>15. Piece(line, f[m - 1], f[m]) = << >>
    <3>1. Piece(line, c, at) = << >>
      BY <1>2, <2>2, BlankPiece DEF c
    <3> QED
      BY <2>8, <3>1
  <2>16. k = IF Piece(line, f[m - 1], f[m]) = << >> THEN m - 2 ELSE m - 1
    BY <2>a, <2>15
  <2>17. \A i \in 1..k : elems[i] \in Meaning(line, Piece(line, f[i], f[i + 1]))
    <3> SUFFICES ASSUME NEW i \in 1..n - 1
                 PROVE  elems[i] \in Meaning(line, Piece(line, f[i], f[i + 1]))
      OBVIOUS
    <3>1. i \in 1..n /\ i + 1 \in 1..n
      OBVIOUS
    <3>2. f[i] = cut[i] /\ f[i + 1] = cut[i + 1]
      BY <2>8, <3>1
    <3> QED
      BY <1>1, <3>2
  <2>18. f[m] \in Free(line, Close)
    BY <2>5, <2>8
  <2>19. /\ line[1] = OutputWord => \A y \in Free(line, Close) : f[m] <= y
         /\ line[1] # OutputWord => \A j \in (f[m] + 1)..Len(line) : line[j] = Blank
    BY <2>6, <2>7, <2>8
  <2>b. line \in Seq(Nat) /\ elems \in Seq(S)
    OBVIOUS
  <2>20. m \in Nat /\ m >= 2 /\ Begins(line, f[1])
    BY <1>1, <2>8
  <2> HIDE DEF k
  <2>22. Divided(line, m, f)
    BY ONLY <2>12, <2>13, <2>14, <2>18, <2>19, <2>20 DEF Divided
  <2>23. Between(line, f, k, elems)
    BY <2>17 DEF Between
  <2>21. /\ WellFormed(line) /\ Len(Pieces(line)) = k
         /\ \A i \in 1..k : elems[i] \in Meaning(line, Pieces(line)[i])
    BY ONLY <2>b, <2>11, <2>16, <2>20, <2>22, <2>23, BodyIsRead
  <2> QED
    BY <2>21 DEF k
<1> QED
  BY <1>4, <1>5

(* A line that has no command, no body or nothing in it is not accepted;   *)
(* any other line begins with its command.                                 *)
LEMMA LineBegins ==
  ASSUME line \in Seq(Nat)
  PROVE  LET open == SkipTo(2)
         IN  /\ CharAt(1) \in Word /\ CharAt(open) = Open => Begins(line, open)
             /\ WellFormed(line) => /\ CharAt(1) \in Word /\ CharAt(open) = Open
                                    /\ SkipTo(open + 1) # npos
<1> DEFINE o == SkipTo(2)
<1>1. o = find_first_not_of(line, {Blank}, 2) /\ Len(line) \in Nat
  BY LenProperties DEF SkipTo
<1>2. o \in (2..Len(line)) \cup {npos}
  BY SkipToIs
<1> HIDE DEF o
<1>3. ASSUME CharAt(1) \in Word, CharAt(o) = Open
      PROVE  Begins(line, o)
  <2>1. CharAt(1) # 0
    BY <1>3 DEF Word, ReadWord, InputWord, OutputWord
  <2>2. 1 \in 1..Len(line) /\ CharAt(1) = line[1] /\ line # << >>
    BY <2>1, CharInLine
  <2>3. o # npos /\ o \in 2..Len(line)
    BY <1>2, <1>3 DEF CharAt, Open
  <2>4. o \in 1..Len(line)
    BY <1>1, <2>3
  <2>5. line[o] = Open
    BY <1>3, <2>4, CharIs
  <2> QED
    BY <1>1, <1>3, <2>2, <2>3, <2>5 DEF Begins
<1>4. ASSUME WellFormed(line)
      PROVE  CharAt(1) \in Word /\ CharAt(o) = Open /\ SkipTo(o + 1) # npos
  <2>1. Begins(line, o)
    BY <1>1, <1>4, WellFormedIs
  <2>2. o \in 2..Len(line)
    BY <2>1, BodyBegins
  <2>3. 1 \in 1..Len(line) /\ o \in 1..Len(line)
    BY <1>1, <2>2
  <2>4. CharAt(1) = line[1] /\ CharAt(o) = line[o]
    BY <2>3, CharIs
  <2> DEFINE e == BodyEnd(line)
             x == o + 1
  <2>5. e \in x..Len(line) /\ line[e] = Close
    BY <1>4, <2>1, AcceptedEnds
  <2>6. x \in Nat \ {0}
    BY <2>2
  <2> HIDE DEF x, e
  <2>7. line[e] # Blank
    BY <2>5 DEF Close, Blank
  <2>8. SkipTo(x) # npos
    BY <2>5, <2>6, <2>7, SkipToIs
  <2> QED
    BY <2>1, <2>4, <2>8 DEF Begins, x
<1> QED
  BY <1>3, <1>4 DEF o

(* Before a line is typed there is nothing to accept.                      *)
LEMMA GrammarFirst == Init => GrammarInv
  BY DEF Init, GrammarInv, AcceptsTheGrammar

(* The parser has the position of a path, or none.                         *)
LEMMA GrammarIsKept ==
  ASSUME AcceptsTheGrammar', pc' # "loop", astray' => pc' = "failed"
  PROVE  GrammarInv'
  BY DEF GrammarInv

(* A line that is refused is not accepted by the grammar.                  *)
LEMMA RefusedIsRight ==
  ASSUME GrammarInv, ~WellFormed(line), Fail
  PROVE  GrammarInv'
<1>1. pc' = "failed" /\ line' = line /\ astray' = astray
  BY DEF Fail
<1>2. AcceptsTheGrammar'
  BY <1>1 DEF GrammarInv, AcceptsTheGrammar
<1> QED
  BY <1>1, <1>2, GrammarIsKept

(* The parser starts behind "(".                                           *)
LEMMA parseIsRight ==
  ASSUME GrammarInv, ParserInv, parse
  PROVE  GrammarInv'
<1> DEFINE open  == SkipTo(2)
           first == SkipTo(open + 1)
<1>1. /\ pc = "parse" /\ line \in Seq(Nat) /\ result = << >>
      /\ AcceptsTheGrammar /\ astray = FALSE
  BY DEF GrammarInv, ParserInv, parse
<1>2. \/ /\ CharAt(1) \notin Word \/ CharAt(open) # Open \/ first = npos
         /\ Fail
      \/ /\ CharAt(1) \in Word /\ CharAt(open) = Open
         /\ pc' = "loop" /\ found' = first /\ UNCHANGED <<line, result, astray, typed>>
  BY DEF parse, Word
<1>3. /\ CharAt(1) \in Word /\ CharAt(open) = Open => Begins(line, open)
      /\ WellFormed(line) =>
           CharAt(1) \in Word /\ CharAt(open) = Open /\ first # npos
  BY <1>1, LineBegins
<1> HIDE DEF open
<1>4. CASE Fail /\ ~WellFormed(line)
  BY <1>4, RefusedIsRight
<1>5. CASE /\ Begins(line, open)
           /\ pc' = "loop" /\ found' = first /\ UNCHANGED <<line, result, astray, typed>>
  <2>1. open \in DOMAIN line /\ Reached(line, << >>, open) /\ line[open] # Close
    BY <1>1, <1>5, PathBegins
  <2>2. first = Behind(line, open)
    BY <2>1 DEF Behind, SkipTo
  <2>4. open \in DOMAIN line /\ Reached(line, result, open) /\ found' = Behind(line, open)
    BY <1>1, <1>5, <2>1, <2>2
  <2>5. AcceptsTheGrammar'
    BY <1>1, <1>5 DEF AcceptsTheGrammar
  <2>6. line' = line /\ result' = result /\ astray' = FALSE /\ pc' = "loop"
    BY <1>1, <1>5
  <2> QED
    BY <2>4, <2>5, <2>6 DEF GrammarInv
<1> QED
  BY <1>2, <1>3, <1>4, <1>5

(* An element and its separator lengthen the path.                         *)
LEMMA elementIsRight ==
  ASSUME GrammarInv, ParserInv, element
  PROVE  GrammarInv'
<1>1. /\ pc = "loop" /\ CharAt(found) # Close /\ line \in Seq(Nat)
      /\ AcceptsTheGrammar
      /\ astray \in BOOLEAN /\ (astray => found = npos)
  BY DEF GrammarInv, ParserInv, element
<1>2. PICK S : result \in Seq(S)
  BY DEF ParserInv
<1> DEFINE n == Len(result) + 1
<1>3. PICK cut \in [1..n -> DOMAIN line] :
        Path(line, cut, result) /\ found = Behind(line, cut[n])
  BY <1>1 DEF GrammarInv, Reached
<1>4. n \in Nat \ {0} /\ Len(result) + 1 = n /\ Len(line) \in Nat
  BY <1>1, <1>2, LenProperties
<1> HIDE DEF n
<1> DEFINE c == cut[n]
<1>5. c \in 1..Len(line)
  <2>1. Along(line, n, cut, result)
    BY <1>1, <1>3, <1>4, PathAt
  <2>2. n \in 1..n
    BY <1>4
  <2> QED
    BY ONLY <2>1, <2>2 DEF Along
<1>6. line[c] # Close /\ found = SkipTo(c + 1)
  <2>1. line[c] # Close
    <3>1. ASSUME line[c] = Close
          PROVE  FALSE
      <4>1. found = c
        BY <1>3, <3>1 DEF Behind
      <4>2. CharAt(c) = line[c]
        BY <1>1, <1>5, CharIs
      <4> QED
        BY <1>1, <3>1, <4>1, <4>2
    <3> QED
      BY <3>1
  <2> QED
    BY <1>3, <2>1 DEF Behind, SkipTo
<1>7. \/ Fail /\ (\/ ElemsAt(found) = {}
                  \/ \E e \in ElemsAt(found) : CharAt(SkipTo(e.next)) \notin {Comma, Close})
      \/ \E e \in ElemsAt(found) :
           LET sep == SkipTo(e.next) IN
           /\ CharAt(sep) \in {Comma, Close}
           /\ result' = Append(result, e.elem)
           /\ found' = IF CharAt(sep) = Comma THEN SkipTo(sep + 1) ELSE sep
           /\ astray' = (astray \/ found' = npos)
           /\ UNCHANGED <<line, pc, typed>>
  BY DEF element
<1>8. CASE /\ Fail
           /\ \/ ElemsAt(found) = {}
              \/ \E e \in ElemsAt(found) : CharAt(SkipTo(e.next)) \notin {Comma, Close}
  <2>1. ~WellFormed(line)
    BY <1>1, <1>3, <1>4, <1>8, ElementFails
  <2> QED
    BY <1>8, <2>1, RefusedIsRight
<1>9. ASSUME NEW e \in ElemsAt(found), NEW s, s = SkipTo(e.next),
             CharAt(s) \in {Comma, Close},
             result' = Append(result, e.elem),
             found' = IF CharAt(s) = Comma THEN SkipTo(s + 1) ELSE s,
             astray' = (astray \/ found' = npos),
             UNCHANGED <<line, pc, typed>>
      PROVE  GrammarInv'
  <2>1. found # npos
    <3>1. ASSUME found = npos
          PROVE  FALSE
      <4>1. CharAt(found) = 0
        BY <3>1 DEF CharAt
      <4>2. TupleElemAt(found) = {}
        BY <4>1 DEF TupleElemAt, Quote, Digits
      <4>3. PatternAt(found) = {}
        BY <4>1, NoPatternThere
      <4> QED
        BY <4>2, <4>3 DEF ElemsAt
    <3> QED
      BY <3>1
  <2>2. astray = FALSE
    BY <1>1, <2>1
  <2>3. e \in ElemsAt(found) /\ found = SkipTo(cut[n] + 1) /\ line[cut[n]] # Close
    BY <1>6, <1>9
  <2>4. /\ s \in 1..Len(line) /\ line[s] = CharAt(s)
        /\ Reached(line, Append(result, e.elem), s)
    <3>1. /\ line \in Seq(Nat) /\ result \in Seq(S) /\ n \in Nat \ {0}
          /\ Len(result) + 1 = n /\ cut \in [1..n -> DOMAIN line]
          /\ Path(line, cut, result)
      BY <1>1, <1>2, <1>3, <1>4
    <3>2. s = SkipTo(e.next) /\ CharAt(s) \in {Comma, Close}
      BY <1>9
    <3> QED
      BY ONLY <2>3, <3>1, <3>2, PathGoesOn
  <2>6. line' = line /\ pc' = "loop" /\ result' = Append(result, e.elem)
    BY <1>1, <1>9, <2>4
  <2>7. found' = Behind(line, s)
    <3>1. Comma # Close
      BY DEF Comma, Close
    <3> QED
      BY <1>9, <2>4, <3>1 DEF Behind, SkipTo
  <2>8. s \in DOMAIN line
    BY <1>1, <2>4, LenProperties
  <2>9. pc' = "loop" => \E to \in DOMAIN line' :
          Reached(line', result', to) /\ found' = Behind(line', to)
    BY <2>4, <2>6, <2>7, <2>8
  <2>10. astray' => found' = npos
    BY <1>9, <2>2
  <2>11. ASSUME found' = npos
         PROVE  /\ s \in DOMAIN line /\ line[s] = Comma
                /\ \A j \in s + 1..Len(line) : line[j] = Blank
    <3> DEFINE x == s + 1
    <3>1. x \in Nat \ {0} /\ s # npos
      BY <1>4, <2>4 DEF npos
    <3> HIDE DEF x
    <3>2. line[s] = Comma /\ SkipTo(x) = npos
      BY <1>9, <2>4, <2>11, <3>1 DEF x
    <3>3. \A j \in x..Len(line) : line[j] = Blank
      BY <1>1, <3>1, <3>2, SkipToIs
    <3> QED
      BY <1>1, <2>4, <3>2, <3>3, LenProperties DEF x
  <2>12. AcceptsTheGrammar'
    <3>1. pc' # "failed" /\ pc' # "done"
      BY <2>6
    <3>2. astray' => \E i \in DOMAIN line' : /\ line'[i] = Comma
                                            /\ \A j \in i + 1..Len(line') : line'[j] = Blank
      BY <2>6, <2>10, <2>11
    <3> QED
      BY <3>1, <3>2 DEF AcceptsTheGrammar
  <2> QED
    BY <2>6, <2>9, <2>10, <2>12 DEF GrammarInv
<1> QED
  BY <1>7, <1>8, <1>9

(* At the end the path is that of the whole line.                          *)
LEMMA finishIsRight ==
  ASSUME GrammarInv, ParserInv, finish
  PROVE  GrammarInv'
<1>1. /\ pc = "loop" /\ CharAt(found) = Close /\ line \in Seq(Nat)
      /\ AcceptsTheGrammar
      /\ astray \in BOOLEAN /\ (astray => found = npos)
  BY DEF GrammarInv, ParserInv, finish
<1>2. PICK S : result \in Seq(S)
  BY DEF ParserInv
<1> DEFINE n == Len(result) + 1
<1>3. PICK cut \in [1..n -> DOMAIN line] :
        Path(line, cut, result) /\ found = Behind(line, cut[n])
  BY <1>1 DEF GrammarInv, Reached
<1>4. n \in Nat \ {0} /\ Len(result) + 1 = n /\ DOMAIN result = 1..Len(result)
      /\ Len(result) = n - 1
  BY <1>2, LenProperties
<1>5. astray = FALSE
  BY <1>1 DEF CharAt, Close
<1> HIDE DEF n
<1>6. \/ ~IsTuple /\ SkipTo(found + 1) # npos /\ Fail
      \/ /\ IsTuple \/ SkipTo(found + 1) = npos
         /\ pc' = "done" /\ UNCHANGED <<line, found, result, astray, typed>>
  BY DEF finish
<1>7. CASE ~IsTuple /\ SkipTo(found + 1) # npos /\ Fail
  <2>1. ~WellFormed(line)
    BY <1>1, <1>3, <1>4, <1>7, FinishFails
  <2> QED
    BY <1>7, <2>1, RefusedIsRight
<1>8. CASE /\ IsTuple \/ SkipTo(found + 1) = npos
           /\ pc' = "done" /\ UNCHANGED <<line, found, result, astray, typed>>
  <2>1. /\ WellFormed(line) /\ Len(Pieces(line)) = n - 1
        /\ \A i \in 1..n - 1 : result[i] \in Meaning(line, Pieces(line)[i])
    BY <1>1, <1>2, <1>3, <1>4, <1>8, PathEnds
  <2>2. AcceptsTheGrammar'
    BY <1>4, <1>5, <1>8, <2>1 DEF AcceptsTheGrammar
  <2> QED
    BY <1>5, <1>8, <2>2, GrammarIsKept
<1> QED
  BY <1>6, <1>7, <1>8

(* Every step of the parser follows the grammar.                           *)
LEMMA GrammarStep ==
  ASSUME GrammarInv, ParserInv, Next
  PROVE  GrammarInv'
<1>1. CASE getline
  BY <1>1 DEF getline, GrammarInv, AcceptsTheGrammar
<1>2. CASE parse
  BY <1>2, parseIsRight
<1>3. CASE element
  BY <1>3, elementIsRight
<1>4. CASE finish
  BY <1>4, finishIsRight
<1>5. CASE retype
  BY <1>5 DEF retype, GrammarInv, AcceptsTheGrammar
<1> QED
  BY <1>1, <1>2, <1>3, <1>4, <1>5 DEF Next, Parses

-----------------------------------------------------------------------------
(* The messages of a command                                               *)

(* The four bytes of a number.                                             *)
LEMMA FourBytes ==
  ASSUME NEW n \in Nat
  PROVE  IntBytes(n) \in [1..4 -> Byte]
<1>1. \A i \in 1..4 : (n \div 256^(i - 1)) % 256 \in Byte
  <2> SUFFICES ASSUME NEW i \in 1..4
               PROVE  (n \div 256^(i - 1)) % 256 \in Byte
    OBVIOUS
  <2>1. i - 1 \in {0, 1, 2, 3}
    OBVIOUS
  <2>2. 256^(i - 1) \in Nat \ {0}
    <3>1. 256^0 = 1 /\ 256^1 = 256 /\ 256^2 = 65536
      BY PowersOf256
    <3>2. 256^3 \in Nat /\ 256^3 # 0
      <4> DEFINE p == 256^3
      <4>1. p \in Nat /\ TextLimit \in Nat /\ TextLimit + 2 < p
        BY PowersOf256
      <4> HIDE DEF p
      <4>2. p \in Nat /\ p # 0
        BY <4>1
      <4> QED
        BY <4>2 DEF p
    <3>3. CASE i - 1 = 0
      BY <3>1, <3>3
    <3>4. CASE i - 1 = 1
      BY <3>1, <3>4
    <3>5. CASE i - 1 = 2
      BY <3>1, <3>5
    <3>6. CASE i - 1 = 3
      BY <3>2, <3>6
    <3> QED
      BY <2>1, <3>3, <3>4, <3>5, <3>6
  <2> DEFINE d == 256^(i - 1)
  <2>3. d \in Nat \ {0}
    BY <2>2
  <2> HIDE DEF d
  <2>4. n \div d \in Nat
    BY <2>3
  <2>5. (n \div d) % 256 \in 0..255
    BY <2>4
  <2> QED
    BY <2>5 DEF d, Byte
<1> QED
  BY <1>1 DEF IntBytes

(* What a line stands for is carried by messages.                          *)
LEMMA ElemIsMessage ==
  ASSUME NEW e \in TupleValue \cup PatternElem,
         e.elem_type = ELEM_STRING => e.value \in String,
         e.elem_type = ELEM_FLOAT =>
           e.value \in Double /\ DoubleBytes(e.value) \in [1..8 -> Byte]
  PROVE  ElemMessage(e) \in Message
<1> USE DEF ELEM_INT, ELEM_FLOAT, ELEM_STRING
<1>1. CASE e \in PatternElem
  <2>1. "op" \in DOMAIN e
    BY <1>1 DEF PatternElem
  <2>2. ElemMessage(e) = PatternMessage(e)
    BY <2>1 DEF ElemMessage
  <2> DEFINE m == PatternMessage(e)
  <2>3. m \in [type : {TYPE_TUPLE_PATTERN_ELEM}, pattern : PatternElem] /\ m.pattern = e
    BY <1>1 DEF PatternMessage
  <2> HIDE DEF m
  <2>4. m \in Message
    BY <2>3 DEF Message
  <2> QED
    BY <2>2, <2>4 DEF m
<1>2. CASE e \in TupleValue
  <2>1. "op" \notin DOMAIN e
    BY <1>2 DEF TupleValue
  <2>2. ElemMessage(e) = TupleElemMessage(e.elem_type,
         CASE e.elem_type = ELEM_INT    -> IntBytes(e.value)
           [] e.elem_type = ELEM_FLOAT  -> DoubleBytes(e.value)
           [] e.elem_type = ELEM_STRING -> e.value)
    BY <2>1, Zenon DEF ElemMessage
  <2>3. CASE e.elem_type = ELEM_INT
    <3>1. e.value \in Nat
      BY <1>2, <2>3, IntAssumption DEF TupleValue
    <3>2. ElemMessage(e) = TupleElemMessage(ELEM_INT, IntBytes(e.value))
      BY <2>2, <2>3
    <3>3. IntBytes(e.value) \in [1..4 -> Byte]
      BY <3>1, FourBytes
    <3> QED
      BY <3>2, <3>3 DEF TupleElemMessage, Message
  <2>4. CASE e.elem_type = ELEM_FLOAT
    <3>1. ElemMessage(e) = TupleElemMessage(ELEM_FLOAT, DoubleBytes(e.value))
      BY <2>2, <2>4
    <3> QED
      BY <2>4, <3>1 DEF TupleElemMessage, Message
  <2>5. CASE e.elem_type = ELEM_STRING
    <3>1. ElemMessage(e) = TupleElemMessage(ELEM_STRING, e.value)
      BY <2>2, <2>5
    <3> QED
      BY <2>5, <3>1 DEF TupleElemMessage, Message
  <2> QED
    BY <1>2, <2>3, <2>4, <2>5 DEF TupleValue
<1> QED
  BY <1>1, <1>2

(* What is made of a parsed line are messages.                             *)
LEMMA CommandIsMessages ==
  ASSUME ParserInv, WithinModel, pc = "done"
  PROVE  ToSend \in Seq(Message)
<1>1. /\ line # << >> /\ line[1] \in Word
      /\ result \in Seq(TupleValue) \/ result \in Seq(PatternElem)
  BY DEF ParserInv
<1>2. Len(result) \in Nat /\ DOMAIN result = 1..Len(result)
  BY <1>1, LenProperties
<1>3. \A i \in 1..Len(result) : result[i] \in TupleValue \cup PatternElem
  BY <1>1, ElementOfSeq
<1>4. Header(OpOf[line[1]], result) \in Message
  <2>1. OpOf[line[1]] \in Byte
    BY <1>1 DEF OpOf, Word, ReadWord, InputWord, OutputWord, Byte
  <2>2. IntBytes(Len(result)) \in [1..4 -> Byte]
    BY <1>2, FourBytes
  <2> QED
    BY <2>1, <2>2 DEF Header, OperationMessage, Message
<1> DEFINE head == Header(OpOf[line[1]], result)
           elems == [i \in DOMAIN result |-> ElemMessage(result[i])]
<1>5. elems \in Seq(Message)
  <2>1. \A i \in 1..Len(result) : ElemMessage(result[i]) \in Message
    BY <1>2, <1>3, ElemIsMessage DEF WithinModel
  <2>2. elems \in [1..Len(result) -> Message]
    BY <1>2, <2>1
  <2> HIDE DEF elems
  <2> QED
    BY <1>2, <2>2, FunctionIsSeq
<1>6. <<head>> \in Seq(Message)
  BY <1>4
<1>7. ToSend = <<head>> \o elems
  BY DEF ToSend, Sent
<1> HIDE DEF head, elems
<1> QED
  BY <1>5, <1>6, <1>7, TextConcat

-----------------------------------------------------------------------------
(* A message under way                                                     *)

(* Every sequence is one of its own elements.                              *)
LEMMA SeqIsTyped ==
  ASSUME NEW S, NEW s \in Seq(S)
  PROVE  s \in Seq(ToSet(s)) /\ \A i \in DOMAIN s : s[i] \in S
<1>1. Len(s) \in Nat /\ DOMAIN s = 1..Len(s) /\ s = [i \in 1..Len(s) |-> s[i]]
  BY LenProperties
<1>2. \A i \in 1..Len(s) : s[i] \in ToSet(s)
  BY <1>1 DEF ToSet
<1>3. s \in [1..Len(s) -> ToSet(s)]
  BY <1>1, <1>2
<1>4. s \in Seq(ToSet(s))
  BY <1>1, <1>3, FunctionIsSeq
<1> QED
  BY <1>1, <1>4, ElementOfSeq

LEMMA WireFirst == WireInit => WireInv
<1> SUFFICES ASSUME WireInit
             PROVE  WireInv
  OBVIOUS
<1>1. phase = "none" /\ wire = << >> /\ queue_ = << >> /\ received = << >>
  BY DEF WireInit
<1>2. WireTypeOK
  BY <1>1, EmptySeq DEF WireTypeOK
<1>3. received \in Seq(ToSet(received))
  BY <1>1, EmptySeq
<1> QED
  BY <1>1, <1>2, <1>3 DEF WireInv

(* A message that is made is one of those that can be sent.                *)
LEMMA MakeKeeps ==
  ASSUME WireInv, NEW m \in Message, make(m)
  PROVE  WireInv'
<1>1. /\ phase' = "made" /\ msg' = m /\ wire' = << >> /\ received' = << >>
      /\ queue_' = << >>
  BY DEF make, Arrived, WireInv
<1>2. WireTypeOK'
  BY <1>1, EmptySeq DEF WireTypeOK
<1>3. (received \in Seq(ToSet(received)))'
  BY <1>1, EmptySeq
<1> QED
  BY <1>1, <1>2, <1>3 DEF WireInv

(* Sending, cutting and fetching a message that has no terminator in it    *)
(* leave it whole.                                                         *)
LEMMA TransmitKeeps ==
  ASSUME WireInv, Transmit
  PROVE  WireInv'
<1>1. /\ WireTypeOK /\ wire \in Seq(Byte) /\ queue_ \in Seq(Seq(Byte))
      /\ \A i \in DOMAIN received : received[i].type \in MsgType
      /\ received \in Seq(ToSet(received))
      /\ phase # "none" => msg \in Message
      /\ phase # "cut" => queue_ = << >> /\ received = << >>
  BY DEF WireInv, WireTypeOK
<1>2. ASSUME phase # "none"
      PROVE  Survives(msg) /\ serialize(msg) \in Seq(Byte)
  <2>1. Survives(msg)
    BY <1>1, <1>2, MessagesSurvive
  <2> QED
    BY <2>1 DEF Survives
<1>3. UNCHANGED msg => serialize(msg)' = serialize(msg) /\ (Damaged(msg)' <=> Damaged(msg))
  <2>1. SUFFICES ASSUME msg' = msg
                 PROVE  serialize(msg)' = serialize(msg) /\ (Damaged(msg)' <=> Damaged(msg))
    OBVIOUS
  <2> QED
    BY <2>1 DEF serialize, Damaged
<1>4. CASE sendMessage
  <2>1. /\ phase = "made" /\ phase' = "sent" /\ UNCHANGED <<msg, queue_, received>>
        /\ wire' = Append(serialize(msg), MESSAGE_TERM_CHAR)
    BY <1>4 DEF sendMessage
  <2>2. serialize(msg) \in Seq(Byte) /\ MESSAGE_TERM_CHAR \in Byte
    BY <1>2, <2>1 DEF MESSAGE_TERM_CHAR, Byte
  <2>3. wire' \in Seq(Byte)
    BY <2>1, <2>2, AppendProperties
  <2>4. queue_' = << >> /\ received' = << >> /\ msg' \in Message
    BY <1>1, <2>1
  <2>5. WireTypeOK' /\ (received \in Seq(ToSet(received)))'
    BY <2>1, <2>3, <2>4, EmptySeq DEF WireTypeOK
  <2>6. wire' = Append(serialize(msg), MESSAGE_TERM_CHAR)'
    BY <1>3, <2>1
  <2> QED
    BY <2>1, <2>4, <2>5, <2>6 DEF WireInv
<1>5. CASE push
  <2>1. /\ phase = "sent" /\ phase' = "cut" /\ UNCHANGED <<msg, wire, received>>
        /\ queue_' = Cut(wire)
    BY <1>5 DEF push, Cut
  <2>2. received' = << >> /\ msg' \in Message
    BY <1>1, <2>1
  <2>3. queue_' \in Seq(Seq(Byte))
    BY <1>1, <2>1, CutType
  <2>4. WireTypeOK' /\ (received \in Seq(ToSet(received)))'
    BY <1>1, <2>1, <2>2, <2>3, EmptySeq DEF WireTypeOK
  <2>5. ~Damaged(msg) => queue_' = <<serialize(msg)>>
    <3>1. wire = Append(serialize(msg), MESSAGE_TERM_CHAR)
      BY <2>1 DEF WireInv
    <3>2. serialize(msg) \in Seq(Byte)
      BY <1>2, <2>1
    <3> QED
      BY <2>1, <3>1, <3>2, CutOnce DEF Damaged
  <2>6. ~Damaged(msg)' => queue_' = <<serialize(msg)>>'
    BY <1>3, <2>1, <2>5
  <2> QED
    BY <2>1, <2>2, <2>4, <2>6 DEF WireInv
<1>6. CASE fetchMessageFromBuffer
  <2>1. /\ queue_ # << >> /\ queue_' = Tail(queue_) /\ UNCHANGED <<phase, msg, wire>>
        /\ \/ \E m \in deserialize(Head(queue_)) : received' = Append(received, m)
           \/ deserialize(Head(queue_)) = {} /\ UNCHANGED received
    BY <1>6 DEF fetchMessageFromBuffer
  <2>2. phase = "cut" /\ msg' \in Message /\ phase' = "cut"
    BY <1>1, <2>1
  <2>3. queue_' \in Seq(Seq(Byte)) /\ Head(queue_) \in Seq(Byte)
    BY <1>1, <2>1, HeadTailProperties
  <2>4. /\ \A i \in DOMAIN received' : received'[i].type \in MsgType
        /\ received' \in Seq(ToSet(received'))
    <3>1. CASE \E m \in deserialize(Head(queue_)) : received' = Append(received, m)
      <4>1. PICK m \in deserialize(Head(queue_)) : received' = Append(received, m)
        BY <3>1
      <4> DEFINE S == ToSet(received) \cup {m}
      <4>2. m.type \in MsgType
        BY <2>3, ReadTypes
      <4>3. \A r \in S : r.type \in MsgType
        BY <1>1, <4>2 DEF ToSet
      <4>4. received \in Seq(S)
        <5>1. ToSet(received) \subseteq S
          OBVIOUS
        <5> QED
          BY <1>1, <5>1, SeqMonotonic
      <4>5. m \in S
        OBVIOUS
      <4> HIDE DEF S
      <4>6. received' \in Seq(S)
        BY <4>1, <4>4, <4>5, AppendProperties
      <4> QED
        BY <4>3, <4>6, SeqIsTyped
    <3>2. CASE UNCHANGED received
      BY <1>1, <3>2
    <3> QED
      BY <2>1, <3>1, <3>2
  <2>5. WireTypeOK'
    BY <1>1, <2>1, <2>2, <2>3, <2>4 DEF WireTypeOK
  <2>6. ~Damaged(msg) => queue_' = << >> /\ received' \in Fetched(serialize(msg))
    <3> SUFFICES ASSUME ~Damaged(msg)
                 PROVE  queue_' = << >> /\ received' \in Fetched(serialize(msg))
      OBVIOUS
    <3>1. queue_ = <<serialize(msg)>> /\ received = << >>
      BY <2>1, <2>2 DEF WireInv
    <3> DEFINE bytes == serialize(msg)
    <3>2. Head(queue_) = bytes /\ queue_' = << >>
      BY <2>1, <3>1
    <3> HIDE DEF bytes
    <3>3. ASSUME \E m \in deserialize(bytes) : received' = Append(received, m)
          PROVE  received' \in Fetched(bytes)
      <4>1. PICK m \in deserialize(bytes) : received' = Append(received, m)
        BY <3>3
      <4>2. received' = <<m>>
        BY <3>1, <4>1
      <4> QED
        BY <4>2 DEF Fetched
    <3>4. ASSUME deserialize(bytes) = {}, UNCHANGED received
          PROVE  received' \in Fetched(bytes)
      <4>1. received' = << >>
        BY <3>1, <3>4
      <4> QED
        BY <3>4, <4>1 DEF Fetched
    <3> QED
      BY <2>1, <3>2, <3>3, <3>4 DEF bytes
  <2>7. Fetched(serialize(msg))' = Fetched(serialize(msg))
    BY <1>3, <2>1 DEF Fetched
  <2>8. ~Damaged(msg)' => queue_' = << >> /\ received' \in Fetched(serialize(msg))'
    BY <1>3, <2>1, <2>6, <2>7
  <2> QED
    BY <2>2, <2>4, <2>5, <2>8 DEF WireInv
<1> QED
  BY <1>4, <1>5, <1>6 DEF Transmit

-----------------------------------------------------------------------------
(* The programs                                                            *)

LEMMA ReadyStays ==
  ASSUME stage = "ready"
  PROVE  ~Setup!Next
BY DEF Setup!Next, Setup!parseFlag, Setup!keepArg, Setup!init, Setup!create_directories,
       Setup!Go, Setup!directoriesExist, Setup!openFails, Setup!add_file, Setup!loggerInit

(* Whatever lines are typed, the parser stays within the line and makes    *)
(* nothing but values or nothing but patterns of it; and no line is read   *)
(* and no message made before the log is set up.                           *)
THEOREM LinesAreParsed == ProgramSpec => [](ParserInv /\ OrderOK)
<1>1. ProgramInit => ParserInv /\ OrderOK
  <2>1. PromptInit => OrderOK
    BY DEF PromptInit, Init, WireInit, OrderOK
  <2> QED
    BY <2>1, ParserFirst DEF ProgramInit, PromptInit
<1>2. ParserInv /\ OrderOK /\ [main]_programVars => ParserInv' /\ OrderOK'
  <2> SUFFICES ASSUME ParserInv, OrderOK, [main]_programVars
               PROVE  ParserInv' /\ OrderOK'
    OBVIOUS
  <2>1. ASSUME UNCHANGED vars
        PROVE  ParserInv'
    BY <2>1 DEF vars, ParserInv, IsTuple
  <2>2. CASE Setup!Next /\ UNCHANGED promptVars
    <3>1. UNCHANGED vars /\ UNCHANGED <<pc, phase, next>>
      BY <2>2 DEF promptVars, vars, wireVars
    <3>2. pc = "prompt" /\ phase = "none"
      BY <2>2, ReadyStays DEF OrderOK
    <3> QED
      BY <2>1, <3>1, <3>2 DEF OrderOK
  <2>3. CASE stage = "ready" /\ PromptNext /\ UNCHANGED setupVars
    <3>1. stage' = "ready"
      BY <2>3 DEF setupVars
    <3>2. CASE Typing
      <4>1. Next /\ next' = next
        BY <3>2 DEF Typing
      <4> QED
        BY <3>1, <4>1, ParserStep DEF OrderOK
    <3>3. CASE handleCommand
      <4>1. UNCHANGED vars /\ next' = next + 1
        BY <3>3 DEF handleCommand
      <4> QED
        BY <2>1, <3>1, <4>1 DEF OrderOK
    <3>4. CASE sendOther
      <4>1. UNCHANGED vars /\ next' = next
        BY <3>4 DEF sendOther
      <4> QED
        BY <2>1, <3>1, <4>1 DEF OrderOK
    <3>5. CASE Transmit /\ UNCHANGED <<vars, next, arrived>>
      BY <2>1, <3>1, <3>5 DEF OrderOK
    <3> QED
      BY <2>3, <3>2, <3>3, <3>4, <3>5 DEF PromptNext
  <2>4. CASE UNCHANGED programVars
    <3>1. UNCHANGED vars /\ UNCHANGED <<pc, phase, next, stage>>
      BY <2>4 DEF programVars, promptVars, setupVars, vars, wireVars
    <3> QED
      BY <2>1, <3>1 DEF OrderOK
  <2> QED
    BY <2>2, <2>3, <2>4 DEF main
<1> QED
  BY <1>1, <1>2, PTL DEF ProgramSpec

(* AcceptsTheGrammar: whatever line is typed, the parser accepts it exactly *)
(* if it is well-formed, and yields what its pieces mean; it indexes the   *)
(* line with npos only behind a last comma.                                *)
THEOREM GrammarIsFollowed == ProgramSpec => []AcceptsTheGrammar
<1>1. ProgramInit => GrammarInv
  BY GrammarFirst DEF ProgramInit, PromptInit
<1>2. GrammarInv /\ ParserInv /\ [main]_programVars => GrammarInv'
  <2> SUFFICES ASSUME GrammarInv, ParserInv, [main]_programVars
               PROVE  GrammarInv'
    OBVIOUS
  <2>1. CASE UNCHANGED vars
    BY <2>1 DEF vars, GrammarInv, AcceptsTheGrammar
  <2>2. CASE Next
    BY <2>2, GrammarStep
  <2>3. Next \/ UNCHANGED vars
    BY DEF main, PromptNext, Typing, handleCommand, sendOther, programVars, promptVars
  <2> QED
    BY <2>1, <2>2, <2>3
<1>3. GrammarInv => AcceptsTheGrammar
  BY DEF GrammarInv
<1> QED
  BY <1>1, <1>2, <1>3, LinesAreParsed, PTL DEF ProgramSpec

(* Every message that is made is one that can be sent, and on its way it   *)
(* is what it was, or one that its bytes stand for.                        *)
THEOREM MessagesAreCarried == ProgramSpec /\ []WithinModel => []WireInv
<1>1. ProgramInit => WireInv
  BY WireFirst DEF ProgramInit, PromptInit
<1>2. WireInv /\ ParserInv /\ WithinModel /\ OrderOK /\ [main]_programVars => WireInv'
  <2> SUFFICES ASSUME WireInv, ParserInv, WithinModel, OrderOK, [main]_programVars
               PROVE  WireInv'
    OBVIOUS
  <2>1. ASSUME UNCHANGED wireVars
        PROVE  WireInv'
    <3>1. /\ UNCHANGED <<phase, msg, wire, queue_, received>>
          /\ serialize(msg)' = serialize(msg) /\ (Damaged(msg)' <=> Damaged(msg))
          /\ Fetched(serialize(msg))' = Fetched(serialize(msg))
      BY <2>1 DEF wireVars, serialize, Damaged, Fetched
    <3> QED
      BY <3>1 DEF WireInv, WireTypeOK
  <2>2. CASE handleCommand
    <3>1. /\ pc = "done" /\ next < Len(ToSend) /\ next' = next + 1
          /\ make(ToSend[next'])
      BY <2>2 DEF handleCommand
    <3>2. ToSend \in Seq(Message)
      BY <3>1, CommandIsMessages
    <3>3. Len(ToSend) \in Nat /\ next \in Nat
      BY <3>2, LenProperties DEF OrderOK
    <3>4. next' \in 1..Len(ToSend)
      BY <3>1, <3>3
    <3>5. ToSend[next'] \in Message
      BY <3>2, <3>4, ElementOfSeq
    <3> QED
      BY <3>1, <3>5, MakeKeeps
  <2>3. CASE sendOther
    <3>1. \E m \in Message : make(m)
      BY <2>3, PromptAssumption DEF sendOther
    <3> QED
      BY <3>1, MakeKeeps
  <2>4. CASE Transmit
    BY <2>4, TransmitKeeps
  <2>5. CASE Typing
    BY <2>1, <2>5 DEF Typing
  <2>6. CASE UNCHANGED promptVars \/ UNCHANGED programVars
    <3>1. UNCHANGED wireVars
      BY <2>6 DEF programVars, promptVars
    <3> QED
      BY <2>1, <3>1
  <2> QED
    BY <2>2, <2>3, <2>4, <2>5, <2>6 DEF main, PromptNext
<1> QED
  BY <1>1, <1>2, LinesAreParsed, PTL DEF ProgramSpec

(* ProgramTypeOK: every part of the programs keeps its types.              *)
THEOREM ProgramIsTyped == ProgramSpec /\ []WithinModel => []ProgramTypeOK
<1>1. ParserInv => TypeOK
  <2> SUFFICES ASSUME ParserInv
               PROVE  TypeOK
    OBVIOUS
  <2>1. result \in Seq(TupleValue) \/ result \in Seq(PatternElem)
    BY DEF ParserInv
  <2>2. \A e \in TupleValue \cup PatternElem : e.elem_type \in ElemType
    BY PatternElemParts DEF TupleValue, ElemType
  <2>3. \A i \in DOMAIN result : result[i].elem_type \in ElemType
    <3>1. \A i \in DOMAIN result : result[i] \in TupleValue \cup PatternElem
      BY <2>1, SeqIsTyped
    <3> QED
      BY <2>2, <3>1
  <2> QED
    BY <2>3 DEF ParserInv, TypeOK
<1>2. SetupInv => Setup!TypeOK
  <2> SUFFICES ASSUME SetupInv
               PROVE  Setup!TypeOK
    OBVIOUS
  <2>1. callbacks \in Seq(Setup!Verbosities)
    <3>1. << >> \in Seq(Setup!Verbosities)
      BY EmptySeq
    <3>2. <<Setup!Verbosity_MAX>> \in Seq(Setup!Verbosities)
      BY DEF Setup!Verbosities, Setup!Verbosity_MAX, Setup!Verbosity_FATAL
    <3> QED
      BY <3>1, <3>2 DEF SetupInv, SinksOK
  <2>2. stage # "aborted" => out_argc \in 0..Len(args)
    <3>1. Len(args) \in Nat
      BY LenProperties DEF SetupInv, ArgumentsOK
    <3>2. CASE stage = "parse_args"
      <4>1. /\ out_argc = arg_dest - 1 + Len(args) - (arg_it - 1)
            /\ arg_dest - 1 \in 0..arg_it - 1 /\ arg_it - 1 \in 0..Len(args)
        BY <3>2 DEF SetupInv, ArgumentsOK, Reading
      <4> QED
        BY <3>1, <4>1
    <3>3. CASE stage # "parse_args"
      BY <3>3 DEF SetupInv, ArgumentsOK
    <3> QED
      BY <3>2, <3>3
  <2> QED
    BY <2>1, <2>2 DEF SetupInv, ArgumentsOK, SinksOK, Setup!TypeOK
<1>3. WireInv => WireTypeOK
  BY DEF WireInv
<1> QED
  BY <1>1, <1>2, <1>3, LinesAreParsed, MessagesAreCarried, SetupIsCorrect, PTL
     DEF ProgramTypeOK, OrderOK

(* What arrives without a terminator in it is what was sent, or what the    *)
(* defects make of it.                                                     *)
LEMMA ArrivedIsSent == WireInv => MessagesArrive
<1> SUFFICES ASSUME WireInv, Arrived, ~Damaged(msg)
             PROVE  /\ ~Defective(msg) => received = <<msg>>
                    /\ Imprecise(msg) =>
                         /\ Len(received) = 1
                         /\ received[1].pattern.op = msg.pattern.op
                         /\ Abs(received[1].pattern.value - msg.pattern.value) <= 5
                    /\ Ambiguous(msg) =>
                         \A i \in DOMAIN received :
                           /\ received[i].pattern.op \in {"NotLessThan", "NotGreaterThan"}
                           /\ received[i].pattern.value = Trimmed(Tail(msg.pattern.value))
  BY DEF MessagesArrive, OthersArrive, DefectsAreThese, Defective
<1>1. msg \in Message /\ phase = "cut" /\ queue_ = << >>
  BY DEF WireInv, Arrived
<1>2. received \in Fetched(serialize(msg))
  BY <1>1 DEF WireInv
<1>3. Survives(msg)
  BY <1>1, MessagesSurvive
<1> DEFINE R == deserialize(serialize(msg))
<1>4. \/ \E r \in R : received = <<r>>
      \/ R = {} /\ received = << >>
  BY <1>2 DEF Fetched
<1>5. /\ ~Ambiguous(msg) /\ ~Imprecise(msg) => R = {msg}
      /\ Imprecise(msg) =>
           \E r : /\ R = {r}
                  /\ r.pattern.op = msg.pattern.op
                  /\ Abs(r.pattern.value - msg.pattern.value) <= 5
      /\ Ambiguous(msg) =>
           \A r \in R :
             /\ r.pattern.op \in {"NotLessThan", "NotGreaterThan"}
             /\ r.pattern.value = Trimmed(Tail(msg.pattern.value))
  BY <1>3, Zenon DEF Survives
<1> HIDE DEF R
<1>6. ~Defective(msg) => received = <<msg>>
  BY <1>4, <1>5 DEF Defective
<1>7. ASSUME Imprecise(msg)
      PROVE  /\ Len(received) = 1
             /\ received[1].pattern.op = msg.pattern.op
             /\ Abs(received[1].pattern.value - msg.pattern.value) <= 5
  <2>1. PICK r : /\ R = {r}
                 /\ r.pattern.op = msg.pattern.op
                 /\ Abs(r.pattern.value - msg.pattern.value) <= 5
    BY <1>5, <1>7
  <2>2. received = <<r>>
    BY <1>4, <2>1
  <2>3. Len(received) = 1 /\ received[1] = r
    BY <2>2
  <2> QED
    BY <2>1, <2>3
<1>8. ASSUME Ambiguous(msg)
      PROVE  \A i \in DOMAIN received :
               /\ received[i].pattern.op \in {"NotLessThan", "NotGreaterThan"}
               /\ received[i].pattern.value = Trimmed(Tail(msg.pattern.value))
  <2>1. CASE \E r \in R : received = <<r>>
    <3>1. PICK r \in R : received = <<r>>
      BY <2>1
    <3>2. \A i \in DOMAIN received : received[i] = r
      BY <3>1
    <3> QED
      BY <1>5, <1>8, <3>2
  <2>2. CASE received = << >>
    BY <2>2
  <2> QED
    BY <1>4, <2>1, <2>2
<1> QED
  BY <1>6, <1>7, <1>8

(* MessagesArrive: a message of any kind, with any value, arrives once and *)
(* as it was sent, except for the three defects, which do what they are    *)
(* said to do.                                                             *)
THEOREM MessagesAlwaysArrive == ProgramSpec /\ []WithinModel => []MessagesArrive
BY ArrivedIsSent, MessagesAreCarried, PTL

-----------------------------------------------------------------------------
(* What a command means                                                    *)

(* A text is read as one value at most.                                    *)
LEMMA OneNumber ==
  ASSUME NEW text
  PROVE  /\ \A v, w \in stoi(text) : v = w
         /\ \A v, w \in stod(text) : v = w
         /\ \A type \in ElemType : \A v, w \in ValueOf(type, text) : v = w
<1>1. \A v, w \in stoi(text) : v = w
  <2> DEFINE t      == Trimmed(text)
             digits == LeadingDigits(Unsigned(t))
             n      == Signed(t, NumberOf(digits))
  <2>1. stoi(text) = IF digits = << >> \/ n > INT_MAX \/ n < -(INT_MAX + 1) THEN {} ELSE {n}
    BY DEF stoi
  <2> HIDE DEF n, digits
  <2> QED
    BY <2>1
<1>2. \A v, w \in stod(text) : v = w
  <2> DEFINE t        == Trimmed(text)
             digits   == LeadingDigits(Unsigned(t))
             rest     == substr(Unsigned(t), Len(digits) + 1)
             fraction == IF rest # << >> /\ rest[1] = Dot
                         THEN LeadingDigits(Tail(rest)) ELSE << >>
             n        == Signed(t, 10^7 * NumberOf(digits)
                                 + NumberOf(SubSeq(fraction \o Padding(7), 1, 7)))
  <2>1. stod(text) = IF digits \o fraction = << >> THEN {} ELSE {n}
    BY DEF stod
  <2> HIDE DEF n, fraction, digits
  <2> QED
    BY <2>1
<1>3. ASSUME NEW type \in ElemType
      PROVE  \A v, w \in ValueOf(type, text) : v = w
  <2>1. \/ ValueOf(type, text) = stoi(text)
        \/ ValueOf(type, text) = stod(text)
        \/ ValueOf(type, text) = {Trimmed(text)} \ {<< >>}
    BY DEF ValueOf, ElemType, ELEM_INT, ELEM_FLOAT, ELEM_STRING
  <2> QED
    BY <1>1, <1>2, <2>1
<1> QED
  BY <1>1, <1>2, <1>3

(* A constructor makes at most one pattern of a text.                      *)
LEMMA OnePattern ==
  ASSUME NEW type \in ElemType, NEW text, NEW p \in Construct(type, text),
         NEW q \in Construct(type, text)
  PROVE  p = q
<1> DEFINE op == Longest(Beginning(text))
           rest == substr(text, Len(operatorToString[op]) + 1)
           all == [elem_type |-> type, op |-> "All", value |-> Anything(type)]
<1>1. Construct(type, text) =
        IF text = <<Star>> THEN {all}
        ELSE IF Beginning(text) = {} THEN {}
        ELSE {[elem_type |-> type, op |-> op, value |-> v] : v \in ValueOf(type, rest)}
  BY DEF Construct
<1>2. \A v, w \in ValueOf(type, rest) : v = w
  BY OneNumber
<1> HIDE DEF op, rest, all
<1> QED
  BY <1>1, <1>2

(* What a piece of a line stands for is unambiguous.                       *)
LEMMA OneMeaning ==
  ASSUME NEW text, NEW a \in Meaning(line, text), NEW b \in Meaning(line, text)
  PROVE  a = b
<1>1. CASE IsTuple
  <2>1. Meaning(line, text) = Literal(text)
    BY <1>1 DEF Meaning, IsTuple
  <2>2. \/ Literal(text) = {}
        \/ \E c : Literal(text) = {c}
        \/ \E t : Literal(text) = {[elem_type |-> t, value |-> v] : v \in stoi(text)}
        \/ \E t : Literal(text) = {[elem_type |-> t, value |-> v] : v \in stod(text)}
    BY Zenon DEF Literal
  <2> QED
    BY <2>1, <2>2, OneNumber
<1>2. CASE ~IsTuple
  <2> DEFINE body == Stripped(Tail(text))
             arg  == Stripped(SubSeq(body, 2, Len(body) - 1))
             text2 == SubSeq(arg, 2, Len(arg) - 1)
  <2>1. Meaning(line, text) = PatternLiteral(text)
    BY <1>2 DEF Meaning, IsTuple
  <2>2. \/ PatternLiteral(text) = {}
        \/ PatternLiteral(text)
             = UNION {Construct(t, text2) : t \in {u \in ElemType : text[1] = TypeWord[u]}}
    BY Zenon DEF PatternLiteral
  <2> HIDE DEF text2
  <2>3. \A t, u \in ElemType : TypeWord[t] = TypeWord[u] => t = u
    BY DEF TypeWord, ElemType, ELEM_INT, ELEM_FLOAT, ELEM_STRING
  <2>4. PICK t \in ElemType : text[1] = TypeWord[t] /\ a \in Construct(t, text2)
    BY <2>1, <2>2
  <2>5. PICK u \in ElemType : text[1] = TypeWord[u] /\ b \in Construct(u, text2)
    BY <2>1, <2>2
  <2>6. t = u
    BY <2>3, <2>4, <2>5
  <2> QED
    BY <2>4, <2>5, <2>6, OnePattern
<1> QED
  BY <1>1, <1>2

(* A command that is read as the grammar says is sent as what it means.    *)
LEMMA MeantIsSent ==
  ASSUME ParserInv, pc = "done", AcceptsTheGrammar
  PROVE  Meant = ToSend
<1> DEFINE head == Header(OpOf[line[1]], result)
           elems == [i \in DOMAIN result |-> ElemMessage(result[i])]
           meant(i) == IF i = 1 THEN Header(OpOf[line[1]], Pieces(line))
                       ELSE ElemMessage(CHOOSE e \in Meaning(line, Pieces(line)[i - 1]) : TRUE)
<1>1. /\ Len(result) = Len(Pieces(line))
      /\ \A i \in DOMAIN result : result[i] \in Meaning(line, Pieces(line)[i])
  BY DEF AcceptsTheGrammar
<1>2. Len(result) \in Nat /\ DOMAIN result = 1..Len(result)
  BY LenProperties DEF ParserInv
<1>3. Meant = [i \in 1..Len(result) + 1 |-> meant(i)]
  BY <1>1 DEF Meant
<1>4. meant(1) = head
  BY <1>1 DEF Header
<1>5. ASSUME NEW i \in 1..Len(result)
      PROVE  meant(i + 1) = elems[i]
  <2>1. (CHOOSE e \in Meaning(line, Pieces(line)[i]) : TRUE) = result[i]
    BY <1>1, <1>2, OneMeaning
  <2>2. i + 1 # 1 /\ i + 1 - 1 = i
    OBVIOUS
  <2>3. meant(i + 1) = ElemMessage(CHOOSE e \in Meaning(line, Pieces(line)[i]) : TRUE)
    BY <2>2
  <2>4. elems[i] = ElemMessage(result[i])
    BY <1>2
  <2> HIDE DEF meant, elems
  <2> QED
    BY ONLY <2>1, <2>3, <2>4
<1>6. ToSend = <<head>> \o elems
  BY DEF ToSend, Sent
<1> DEFINE S == {head} \cup {elems[i] : i \in 1..Len(result)}
<1>7. <<head>> \in Seq(S) /\ elems \in Seq(S) /\ Len(elems) = Len(result)
      /\ Len(<<head>>) = 1 /\ <<head>>[1] = head
  <2>1. elems \in [1..Len(result) -> S]
    BY <1>2
  <2>2. head \in S
    OBVIOUS
  <2> HIDE DEF S, elems, head
  <2>3. elems \in Seq(S) /\ Len(elems) = Len(result)
    BY <1>2, <2>1, FunctionIsSeq
  <2>4. <<head>> \in Seq(S) /\ Len(<<head>>) = 1 /\ <<head>>[1] = head
    BY ONLY <2>2
  <2> QED
    BY <2>3, <2>4
<1> HIDE DEF S, elems, head, meant
<1> DEFINE one == <<head>>
<1>8. /\ ToSend = one \o elems /\ one \in Seq(S) /\ Len(one) = 1 /\ one[1] = head
  BY <1>6, <1>7
<1> HIDE DEF one
<1>9. /\ ToSend \in Seq(S) /\ Len(ToSend) = 1 + Len(result)
      /\ \A i \in 1..1 + Len(result) :
           ToSend[i] = IF i <= 1 THEN one[i] ELSE elems[i - 1]
  <2>1. one \in Seq(S) /\ elems \in Seq(S)
    BY <1>7, <1>8
  <2>2. /\ one \o elems \in Seq(S) /\ Len(one \o elems) = Len(one) + Len(elems)
        /\ \A i \in 1..Len(one) + Len(elems) :
             (one \o elems)[i] = IF i <= Len(one) THEN one[i] ELSE elems[i - Len(one)]
    BY ONLY <2>1, ConcatProperties
  <2>3. ToSend = one \o elems /\ Len(one) = 1 /\ Len(elems) = Len(result)
    BY <1>7, <1>8
  <2> QED
    BY ONLY <2>2, <2>3
<1>10. ToSend = [i \in 1..Len(result) + 1 |-> ToSend[i]]
  BY <1>2, <1>9, LenProperties
<1>11. ASSUME NEW i \in 1..Len(result) + 1
       PROVE  meant(i) = ToSend[i]
  <2>1. CASE i = 1
    BY <1>2, <1>4, <1>8, <1>9, <2>1
  <2>2. CASE i # 1
    <3>1. i - 1 \in 1..Len(result) /\ i - 1 + 1 = i /\ ~(i <= 1) /\ i \in 1..1 + Len(result)
      BY <1>2, <2>2
    <3>2. meant(i - 1 + 1) = elems[i - 1]
      BY <1>5, <3>1
    <3> QED
      BY <1>9, <3>1, <3>2
  <2> QED
    BY <2>1, <2>2
<1> QED
  BY <1>3, <1>10, <1>11

(* The beginning of a sequence grows by its next element.                  *)
LEMMA OneMore ==
  ASSUME NEW S, NEW s \in Seq(S), NEW n \in Nat, n < Len(s)
  PROVE  /\ SubSeq(s, 1, 0) = << >> /\ SubSeq(s, 1, Len(s)) = s
         /\ SubSeq(s, 1, n) \o <<s[n + 1]>> = SubSeq(s, 1, n + 1)
<1>1. Len(s) \in Nat
  BY LenProperties
<1>2. \A m \in 0..Len(s) : /\ SubSeq(s, 1, m) \in Seq(S) /\ Len(SubSeq(s, 1, m)) = m
                           /\ \A i \in 1..m : SubSeq(s, 1, m)[i] = s[i]
  <2> SUFFICES ASSUME NEW m \in 0..Len(s)
               PROVE  /\ SubSeq(s, 1, m) \in Seq(S) /\ Len(SubSeq(s, 1, m)) = m
                      /\ \A i \in 1..m : SubSeq(s, 1, m)[i] = s[i]
    OBVIOUS
  <2>1. \A i \in 1..m : s[i] \in S
    <3>1. \A i \in 1..m : i \in 1..Len(s)
      BY <1>1
    <3> QED
      BY <3>1, ElementOfSeq
  <2>2. /\ SubSeq(s, 1, m) \in Seq(S)
        /\ Len(SubSeq(s, 1, m)) = IF 1 <= m THEN m - 1 + 1 ELSE 0
        /\ \A i \in 1..m - 1 + 1 : SubSeq(s, 1, m)[i] = s[1 + i - 1]
    <3>1. 1 \in Int /\ m \in Int
      BY <1>1
    <3> QED
      BY <2>1, <3>1, SubSeqProperties
  <2>3. m - 1 + 1 = m /\ \A i \in 1..m : 1 + i - 1 = i
    BY <1>1
  <2> QED
    BY <1>1, <2>2, <2>3
<1>3. SubSeq(s, 1, 0) = << >>
  <2>1. 0 \in 0..Len(s)
    BY <1>1
  <2> QED
    BY <1>2, <2>1, EmptySeq
<1>4. SubSeq(s, 1, Len(s)) = s
  <2>1. Len(s) \in 0..Len(s)
    BY <1>1
  <2> QED
    BY <1>2, <2>1, SeqEqual
<1>5. SubSeq(s, 1, n) \o <<s[n + 1]>> = SubSeq(s, 1, n + 1)
  <2> DEFINE a == SubSeq(s, 1, n)
             c == s[n + 1]
             b == <<c>>
             d == SubSeq(s, 1, n + 1)
  <2>1. n \in 0..Len(s) /\ n + 1 \in 0..Len(s) /\ n + 1 \in 1..Len(s)
    BY <1>1
  <2>2. c \in S
    BY <2>1, ElementOfSeq
  <2>3. /\ a \in Seq(S) /\ Len(a) = n /\ \A i \in 1..n : a[i] = s[i]
        /\ d \in Seq(S) /\ Len(d) = n + 1 /\ \A i \in 1..n + 1 : d[i] = s[i]
    BY <1>2, <2>1
  <2> HIDE DEF a, d, c
  <2>4. b \in Seq(S) /\ Len(b) = 1 /\ b[1] = c
    BY <2>2
  <2> HIDE DEF b
  <2>5. /\ a \o b \in Seq(S) /\ Len(a \o b) = Len(a) + Len(b)
        /\ \A i \in 1..Len(a) + Len(b) :
             (a \o b)[i] = IF i <= Len(a) THEN a[i] ELSE b[i - Len(a)]
    BY <2>3, <2>4, ConcatProperties
  <2>6. \A i \in 1..n + 1 : (a \o b)[i] = d[i]
    <3> SUFFICES ASSUME NEW i \in 1..n + 1
                 PROVE  (a \o b)[i] = d[i]
      OBVIOUS
    <3>1. CASE i <= n
      <4>1. i \in 1..n /\ i \in 1..Len(a) + Len(b)
        BY <2>3, <2>4, <3>1
      <4> QED
        BY <2>3, <2>5, <3>1, <4>1
    <3>2. CASE i = n + 1
      <4>1. i \in 1..Len(a) + Len(b) /\ ~(i <= Len(a)) /\ i - Len(a) = 1
        BY <2>3, <2>4, <3>2
      <4>2. (a \o b)[i] = b[1]
        BY <2>5, <4>1
      <4>3. d[n + 1] = s[n + 1]
        BY <2>3
      <4>4. c = s[n + 1]
        BY DEF c
      <4> QED
        BY ONLY <2>4, <3>2, <4>2, <4>3, <4>4
    <3>3. i <= n \/ i = n + 1
      OBVIOUS
    <3> QED
      BY ONLY <3>1, <3>2, <3>3
  <2>7. Len(a \o b) = n + 1
    BY <2>3, <2>4, <2>5
  <2>8. a \o b = d
    BY <2>3, <2>5, <2>6, <2>7, SeqEqual
  <2> QED
    BY <2>8 DEF a, b, c, d
<1> QED
  BY <1>3, <1>4, <1>5

LEMMA CommandFirst == PromptInit => CommandInv
<1> SUFFICES ASSUME PromptInit
             PROVE  CommandInv
  OBVIOUS
<1>1. next = 0 /\ arrived = << >> /\ pc = "prompt"
  BY DEF PromptInit, Init
<1> QED
  BY <1>1 DEF CommandInv

(* A command that is under way grows by what has arrived.                  *)
LEMMA CommandStep ==
  ASSUME CommandInv, WireInv, WireInv => MessagesArrive, ParserInv, WithinModel, OrderOK,
         handleCommand
  PROVE  CommandInv'
<1>1. /\ pc = "done" /\ next < Len(ToSend) /\ next' = next + 1 /\ UNCHANGED vars
      /\ make(ToSend[next']) /\ arrived' = arrived \o received
  BY DEF handleCommand
<1>2. /\ phase = "none" \/ Arrived
      /\ phase' = "made" /\ msg' = ToSend[next + 1]
  BY <1>1 DEF make
<1>3. ToSend' = ToSend /\ pc' = "done"
  BY <1>1 DEF vars, ToSend
<1>4. ToSend \in Seq(Message) /\ Len(ToSend) \in Nat /\ next \in Nat
  <2>1. ToSend \in Seq(Message)
    BY <1>1, CommandIsMessages
  <2> QED
    BY <2>1, LenProperties DEF OrderOK
<1>5. /\ SubSeq(ToSend, 1, 0) = << >>
      /\ next > 0 => SubSeq(ToSend, 1, next - 1) \o <<ToSend[next]>>
                       = SubSeq(ToSend, 1, next)
  <2>1. SubSeq(ToSend, 1, 0) = << >>
    BY <1>1, <1>4, OneMore
  <2>2. ASSUME next > 0
        PROVE  SubSeq(ToSend, 1, next - 1) \o <<ToSend[next]>> = SubSeq(ToSend, 1, next)
    <3> DEFINE n == next - 1
    <3>1. n \in Nat /\ n < Len(ToSend) /\ next = n + 1
      BY <1>1, <1>4, <2>2
    <3> HIDE DEF n
    <3>2. SubSeq(ToSend, 1, n) \o <<ToSend[n + 1]>> = SubSeq(ToSend, 1, n + 1)
      BY <1>4, <3>1, OneMore
    <3> QED
      BY <3>1, <3>2 DEF n
  <2> QED
    BY <2>1, <2>2
<1>6. ASSUME \A i \in 1..next : ~Defective(ToSend[i])
      PROVE  arrived' = SubSeq(ToSend, 1, next)
  <2>1. CASE next = 0
    <3>1. phase = "none" /\ arrived = << >>
      BY <1>1, <2>1 DEF CommandInv
    <3>2. received = << >>
      BY <3>1 DEF WireInv
    <3>3. arrived' = << >> \o << >>
      BY <1>1, <3>1, <3>2
    <3>4. << >> \o << >> = << >>
      OBVIOUS
    <3> QED
      BY <1>5, <2>1, <3>3, <3>4
  <2>2. CASE next > 0
    <3>1. /\ phase # "none" /\ msg = ToSend[next]
          /\ (\A i \in 1..next - 1 : ~Defective(ToSend[i])) =>
               arrived = SubSeq(ToSend, 1, next - 1)
      BY <2>2 DEF CommandInv
    <3>2. Arrived /\ next \in 1..next /\ \A i \in 1..next - 1 : i \in 1..next
      BY <1>2, <1>4, <2>2, <3>1
    <3>3. arrived = SubSeq(ToSend, 1, next - 1) /\ ~Defective(msg)
      BY <1>6, <3>1, <3>2
    <3>4. received = <<msg>>
      BY <3>2, <3>3 DEF MessagesArrive, OthersArrive
    <3> QED
      BY <1>1, <1>5, <2>2, <3>1, <3>3, <3>4
  <2> QED
    BY <1>4, <2>1, <2>2
<1>7. /\ next' > 0 /\ next' <= Len(ToSend') /\ next' - 1 = next /\ next' # 0
  BY <1>1, <1>3, <1>4
<1>8. (\A i \in 1..next' - 1 : ~Defective(ToSend[i])') =>
        arrived' = SubSeq(ToSend', 1, next' - 1)
  BY <1>3, <1>6, <1>7
<1> QED
  BY <1>1, <1>2, <1>3, <1>7, <1>8 DEF CommandInv

(* CommandArrives: whoever receives a command gets the header and the      *)
(* elements that the line means, unless one of them has a known defect.    *)
THEOREM CommandsAlwaysArrive == ProgramSpec /\ []WithinModel => []CommandArrives
<1>1. ProgramInit => CommandInv
  BY CommandFirst DEF ProgramInit
<1>2. /\ CommandInv /\ WireInv /\ (WireInv => MessagesArrive) /\ ParserInv
      /\ WithinModel /\ OrderOK /\ [main]_programVars
      => CommandInv'
  <2> SUFFICES ASSUME CommandInv, WireInv, WireInv => MessagesArrive, ParserInv,
                      WithinModel, OrderOK, [main]_programVars
               PROVE  CommandInv'
    OBVIOUS
  <2>1. ASSUME UNCHANGED <<vars, next, arrived, msg>>, phase' # "none" <=> phase # "none"
        PROVE  CommandInv'
    <3>1. ToSend' = ToSend /\ UNCHANGED <<pc, next, arrived, msg>>
      BY <2>1 DEF vars, ToSend
    <3>2. \A i \in 1..next - 1 : Defective(ToSend[i])' <=> Defective(ToSend[i])
      BY <3>1
    <3> QED
      BY <2>1, <3>1, <3>2 DEF CommandInv
  <2>2. CASE handleCommand
    BY <2>2, CommandStep
  <2>3. CASE sendOther
    <3>1. /\ pc = "prompt" /\ phase = "none" /\ UNCHANGED <<vars, next, arrived>>
      BY <2>3 DEF sendOther
    <3>2. next = 0 /\ next' = 0 /\ pc' = "prompt" /\ arrived' = << >>
      BY <3>1 DEF CommandInv, OrderOK, vars
    <3> QED
      BY <3>2 DEF CommandInv
  <2>4. CASE Typing
    <3>1. phase = "none" /\ UNCHANGED <<wireVars, next, arrived>>
      BY <2>4 DEF Typing
    <3>2. next = 0 /\ next' = 0 /\ phase' = "none" /\ arrived' = << >>
      BY <3>1 DEF CommandInv, OrderOK, wireVars
    <3> QED
      BY <3>2 DEF CommandInv
  <2>5. CASE Transmit /\ UNCHANGED <<vars, next, arrived>>
    <3>1. UNCHANGED msg /\ (phase' # "none" <=> phase # "none")
      BY <2>5 DEF Transmit, sendMessage, push, fetchMessageFromBuffer
    <3> QED
      BY <2>1, <2>5, <3>1
  <2>6. CASE UNCHANGED promptVars \/ UNCHANGED programVars
    <3>1. UNCHANGED <<vars, next, arrived, msg>> /\ phase' = phase
      BY <2>6 DEF programVars, promptVars, wireVars
    <3> QED
      BY <2>1, <3>1
  <2> QED
    BY <2>2, <2>3, <2>4, <2>5, <2>6 DEF main, PromptNext
<1>3. CommandInv /\ MessagesArrive /\ ParserInv /\ WithinModel /\ AcceptsTheGrammar
        => CommandArrives
  <2> SUFFICES ASSUME CommandInv, MessagesArrive, ParserInv, WithinModel, AcceptsTheGrammar,
                      pc = "done", next = Len(ToSend), Arrived,
                      \A i \in DOMAIN Meant : ~Defective(Meant[i])
               PROVE  arrived \o received = Meant
    BY DEF CommandArrives
  <2>1. Meant = ToSend
    BY MeantIsSent
  <2>2. ToSend \in Seq(Message)
    BY CommandIsMessages
  <2>3. Len(ToSend) \in Nat /\ DOMAIN ToSend = 1..Len(ToSend)
    BY <2>2, LenProperties
  <2>4. next > 0
    BY DEF CommandInv, Arrived
  <2>5. next - 1 \in Nat /\ next - 1 < Len(ToSend) /\ next - 1 + 1 = next
        /\ next \in 1..Len(ToSend) /\ \A i \in 1..next - 1 : i \in 1..Len(ToSend)
    BY <2>3, <2>4
  <2>6. arrived = SubSeq(ToSend, 1, next - 1) /\ msg = ToSend[next] /\ ~Defective(msg)
    BY <2>1, <2>3, <2>4, <2>5 DEF CommandInv
  <2>7. received = <<msg>>
    BY <2>6 DEF MessagesArrive, OthersArrive
  <2> DEFINE n == next - 1
  <2>8. n \in Nat /\ n < Len(ToSend) /\ n + 1 = next /\ n + 1 = Len(ToSend)
    BY <2>5
  <2> HIDE DEF n
  <2>9. /\ SubSeq(ToSend, 1, Len(ToSend)) = ToSend
        /\ SubSeq(ToSend, 1, n) \o <<ToSend[n + 1]>> = SubSeq(ToSend, 1, n + 1)
    BY <2>2, <2>8, OneMore
  <2> QED
    BY <2>1, <2>6, <2>7, <2>8, <2>9 DEF n
<1>4. WireInv => MessagesArrive
  BY ArrivedIsSent
<1> QED
  BY <1>1, <1>2, <1>3, <1>4, LinesAreParsed, GrammarIsFollowed, MessagesAreCarried, PTL
     DEF ProgramSpec

=============================================================================
