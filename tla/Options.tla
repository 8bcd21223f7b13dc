------------------------------ MODULE Options ------------------------------
(***************************************************************************)
(* The command line of the demo and benchmark programs: parse_options and   *)
(* option_or_default.  An element of OptionName as a word of the command    *)
(* line is the text "--" followed by that name.                             *)
(***************************************************************************)
EXTENDS Naturals, Sequences, FiniteSetsExt

CONSTANTS
  OptionName,   \* option_names
  OptionWord,   \* other words
  Default,      \* the default value of an option
  MaxArgs       \* bound on the words of a command line

Token == OptionName \cup OptionWord

VARIABLES
  argv,      \* without argv[0]; argv[Len(argv) + 1] is the null pointer
  i,
  options,   \* a function on the names found so far
  state      \* "loop", "done", or "undefined": a std::string from a null pointer

options_vars == <<argv, i, options, state>>

OptionsInit ==
  /\ argv \in UNION {[1..n -> Token] : n \in 0..MaxArgs}
  /\ i = 1
  /\ options = <<>>
  /\ state = "loop"

\* Mutant: the value is looked at again as a word of its own.
NextWord_1(k) == k + 1
NextWord(k) == k + 2

Recognized ==
  /\ state = "loop" /\ i <= Len(argv) /\ argv[i] \in OptionName
  /\ IF i < Len(argv)
     THEN /\ options' = [o \in DOMAIN options \cup {argv[i]} |->
                           IF o = argv[i] THEN argv[i + 1] ELSE options[o]]
          /\ i' = NextWord(i)
          /\ UNCHANGED state
     ELSE state' = "undefined" /\ UNCHANGED <<i, options>>
  /\ UNCHANGED argv

Unknown ==
  /\ state = "loop" /\ i <= Len(argv) /\ argv[i] \notin OptionName
  /\ i' = i + 1
  /\ UNCHANGED <<argv, options, state>>

Return ==
  /\ state = "loop" /\ i > Len(argv)
  /\ state' = "done"
  /\ UNCHANGED <<argv, i, options>>

OptionsNext == Recognized \/ Unknown \/ Return

OptionsSpec == OptionsInit /\ [][OptionsNext]_options_vars

option_or_default(option_name, default) ==
  IF option_name \in DOMAIN options THEN options[option_name] ELSE default
-----------------------------------------------------------------------------
(***************************************************************************)
(* Which words of a command line are options and which are values can be    *)
(* said without a loop: in a run of option words every second one is a      *)
(* value, and so is the word after a run of odd length.                     *)
(***************************************************************************)
RunBefore(k) ==
  Max({n \in 0..(k - 1) : \A j \in (k - n)..(k - 1) : argv[j] \in OptionName})
IsName(k) == argv[k] \in OptionName /\ RunBefore(k) % 2 = 0
Names(o) == {k \in DOMAIN argv : argv[k] = o /\ IsName(k)}

(***************************************************************************)
(* A program gets for every option the last value it was given, also if a   *)
(* value looks like an option and whatever unknown words are between, or    *)
(* else the default.  A null pointer is read only if the last word is the   *)
(* name of an option without a value.                                       *)
(***************************************************************************)
LastValueWins ==
  /\ state = "done" =>
       \A o \in OptionName :
         option_or_default(o, Default) =
           IF Names(o) = {} THEN Default ELSE argv[Max(Names(o)) + 1]
  /\ state = "undefined" => IsName(Len(argv))
=============================================================================
