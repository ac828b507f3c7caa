-------------------------- MODULE ProgramInvariant --------------------------
(***************************************************************************)
(* The inductive invariants of Program that ProgramProofs proves: how far  *)
(* the log is set up, what the parser has made of the line, and what       *)
(* becomes of the message that is under way.                               *)
(***************************************************************************)
EXTENDS Program

Arg == [flag : BOOLEAN, text : STRING]

(* "to" begins with those m of the first n elements of "from" that are not *)
(* taken, in their order.                                                  *)
Kept(n, m, taken, from, to) ==
  \E origin \in [1..m -> (1..n) \ taken] :
    /\ \A i, j \in 1..m : i < j => origin[i] < origin[j]
    /\ \A k \in (1..n) \ taken : \E i \in 1..m : origin[i] = k
    /\ \A i \in 1..m : to[i] = from[origin[i]]

KeptInOrder(n, m) == Kept(n, m, Setup!Taken, args, argv)

(* The last level that the first n arguments give is that of stderr.       *)
LevelIsSet(n) ==
  \A k \in Setup!Taken :
    k <= n /\ (\A j \in Setup!Taken : j <= n => j <= k) =>
      Setup!Level(args[k].text) = {g_stderr_verbosity}

(* init() has read n arguments and kept m of them in front.                *)
Reading(n, m) ==
  /\ n \in 0..Len(args) /\ m \in 0..n
  /\ Len(argv) = Len(args)
  /\ out_argc = m + Len(args) - n
  /\ \A i \in (n + 1)..Len(args) : argv[i] = args[i]
  /\ n < Len(args) => (n + 1 \in Setup!Taken <=> args[n + 1].flag)
  /\ KeptInOrder(n, m)
  /\ LevelIsSet(n)

ArgumentsOK ==
  /\ args \in Seq(Arg) /\ argv \in Seq(Arg)
  /\ arg_it \in Nat /\ arg_dest \in Nat /\ arg_dest <= arg_it
  /\ out_argc \in Int
  /\ stage = "parse_args" => Reading(arg_it - 1, arg_dest - 1)
  /\ stage \notin {"parse_args", "aborted"} =>
       /\ out_argc \in 0..Len(args)
       /\ KeptInOrder(Len(args), Len(argv))
  /\ stage \in {"create_directories", "open", "set_verbosity"} => LevelIsSet(Len(args))

(* The file is the only sink besides stderr.                               *)
SinksOK ==
  /\ \/ callbacks = << >> /\ s_max_out_verbosity = Setup!Verbosity_OFF
     \/ callbacks = <<Setup!Verbosity_MAX>> /\ s_max_out_verbosity = Setup!Verbosity_MAX
  /\ stage \in {"parse_args", "create_directories", "open"} => callbacks = << >>
  /\ g_stderr_verbosity \in {Setup!Verbosity_OFF} \cup Setup!Verbosities
  /\ left \in 0..Depth
  /\ log_to_console \in BOOLEAN
  /\ stage \in {"parse_args", "create_directories", "open", "set_verbosity", "ready",
                "aborted"}

SetupInv == ArgumentsOK /\ SinksOK

-----------------------------------------------------------------------------
(* The elements of a tuple and of a pattern as the parser makes them.      *)
TupleValue ==
  [elem_type : {ELEM_INT}, value : 0..INT_MAX]
    \cup [elem_type : {ELEM_FLOAT}, value : Nat]
    \cup [elem_type : {ELEM_STRING}, value : Seq(Nat)]

Word == {ReadWord, InputWord, OutputWord}

ParserInv ==
  /\ pc \in {"prompt", "parse", "loop", "done", "failed"}
  /\ line \in Seq(Nat)
  /\ found \in 0..Len(line)
  /\ astray \in BOOLEAN
  /\ pc = "prompt" => found = npos
  /\ pc \in {"prompt", "parse"} => result = << >>
  /\ pc \in {"loop", "done"} => line # << >> /\ line[1] \in Word
  /\ \/ pc # "prompt" /\ line # << >> /\ IsTuple /\ result \in Seq(TupleValue)
     \/ result \in Seq(PatternElem) /\ (pc \in {"loop", "done"} => ~IsTuple)

(* The line begins with a keyword, and "(" is what follows at o.           *)
Begins(l, o) ==
  /\ l # << >> /\ l[1] \in Word
  /\ o = find_first_not_of(l, {Blank}, 2) /\ o # npos /\ l[o] = Open

(* What is between two separators, without the blanks around it.           *)
Piece(l, c, s) == Stripped(SubSeq(l, c + 1, s - 1))

(* The elements are those between the places of "cut": after "(" at each   *)
(* free comma, and perhaps at ")".                                         *)
Path(l, cut, elems) ==
  LET n == Len(elems) + 1 IN
  /\ \A i, j \in 1..n : i < j => cut[i] < cut[j]
  /\ Begins(l, cut[1])
  /\ \A i \in 1..n : ~Quoted(l, cut[i])
  /\ \A i \in 2..n - 1 : l[cut[i]] = Comma
  /\ n > 1 => l[cut[n]] \in {Comma, Close}
  /\ \A i \in 1..n - 1 : elems[i] \in Meaning(l, Piece(l, cut[i], cut[i + 1]))
  /\ \A y \in Free(l, Comma) : y <= cut[n] => \E i \in 2..n : y = cut[i]
  /\ l[1] = OutputWord => \A y \in Free(l, Close) : cut[n] <= y

(* The parser has read these elements and has come to the place c.         *)
Reached(l, elems, c) ==
  \E cut \in [1..Len(elems) + 1 -> DOMAIN l] :
    Path(l, cut, elems) /\ cut[Len(elems) + 1] = c

(* Where the parser goes on behind that place.                             *)
Behind(l, c) == IF l[c] = Close THEN c ELSE find_first_not_of(l, {Blank}, c + 1)

(* What has been read of the line is what its pieces mean up to there; the *)
(* parser runs off the line only behind a last comma, and then refuses it. *)
GrammarInv ==
  /\ AcceptsTheGrammar
  /\ pc = "loop" =>
       \E c \in DOMAIN line : Reached(line, result, c) /\ found = Behind(line, c)
  /\ astray => (pc = "loop" /\ found = npos) \/ pc = "failed"

(* Nothing is sent before a line is parsed or while one is.                *)
OrderOK ==
  /\ pc # "prompt" \/ phase # "none" => stage = "ready"
  /\ next \in Nat

-----------------------------------------------------------------------------
(* What a message may become: nothing, or one that its bytes stand for.    *)
Fetched(bytes) ==
  {<<m>> : m \in deserialize(bytes)}
    \cup {s \in {<< >>} : deserialize(bytes) = {}}

WireInv ==
  /\ phase \in {"none", "made", "sent", "cut"}
  /\ phase = "none" => wire = << >>
  /\ phase # "none" => msg \in Message
  /\ phase # "cut" => queue_ = << >> /\ received = << >>
  /\ phase = "made" => wire = << >>
  /\ phase = "sent" => wire = Append(serialize(msg), MESSAGE_TERM_CHAR)
  /\ phase = "cut" /\ ~Damaged(msg) =>
       \/ queue_ = <<serialize(msg)>> /\ received = << >>
       \/ queue_ = << >> /\ received \in Fetched(serialize(msg))
  /\ WireTypeOK
  /\ received \in Seq(ToSet(received))

(* What has arrived of a command is what was sent of it before the message *)
(* under way, unless that had a defect; the line is not touched meanwhile. *)
CommandInv ==
  /\ next = 0 => arrived = << >>
  /\ next > 0 <=> pc = "done" /\ phase # "none"
  /\ next > 0 =>
       /\ next <= Len(ToSend)
       /\ msg = ToSend[next]
       /\ (\A i \in 1..next - 1 : ~Defective(ToSend[i])) =>
            arrived = SubSeq(ToSend, 1, next - 1)

(* Where the model ends: longer texts, a keyword inside a text, which is   *)
(* one symbol instead of its letters, doubles that are not exact to 10^-7, *)
(* and doubles that are not eight bytes.                                   *)
WithinModel ==
  \A i \in DOMAIN result :
    /\ result[i].elem_type = ELEM_STRING => result[i].value \in String
    /\ result[i].elem_type = ELEM_FLOAT =>
         /\ result[i].value \in Double
         /\ DoubleBytes(result[i].value) \in [1..8 -> Byte]

=============================================================================
