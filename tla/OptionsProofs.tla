---------------------------- MODULE OptionsProofs ----------------------------
(***************************************************************************)
(* Proof that parse_options() reads every command line, of any length, the  *)
(* way LastValueWins says without a loop.  The longest run of option words  *)
(* before a word is followed word by word along with the loop, so that no   *)
(* induction is needed but the one over the steps of the program.           *)
(***************************************************************************)
EXTENDS Options, SequenceTheorems, TLAPS

IsRun(k, n) == n \in 0..(k - 1) /\ \A j \in (k - n)..(k - 1) : argv[j] \in OptionName
LongestRun(k, r) == IsRun(k, r) /\ \A n \in 0..(k - 1) : IsRun(k, n) => n <= r

\* The names of option o that the loop has passed.
Seen(o) == {k \in Names(o) : k < i}

\* What the loop has stored of option o is the word after the last name it has passed.
Stored(o) ==
  IF o \in DOMAIN options
  THEN \E k \in Seen(o) : options[o] = argv[k + 1] /\ \A j \in Seen(o) : j <= k
  ELSE Seen(o) = {}

LoopInv ==
  /\ argv \in Seq(Token)
  /\ i \in 1..(Len(argv) + 1)
  /\ DOMAIN options \subseteq OptionName
  /\ \E r \in Nat : LongestRun(i, 2 * r)
  /\ \A o \in OptionName : Stored(o)
  /\ state = "done" => i > Len(argv)
  /\ state = "undefined" => i = Len(argv) /\ argv[i] \in OptionName
-----------------------------------------------------------------------------
LEMMA RunIs ==
  ASSUME NEW k \in Nat, NEW r, LongestRun(k, r)
  PROVE  RunBefore(k) = r
  <1> DEFINE S == {n \in 0..(k - 1) : \A j \in (k - n)..(k - 1) : argv[j] \in OptionName}
  <1>1. r \in S /\ \A n \in S : r >= n
    BY DEF LongestRun, IsRun
  <1>2. \A x \in S : (\A n \in S : x >= n) => x = r
    BY <1>1
  <1> QED BY <1>1, <1>2 DEF RunBefore, Max

\* The run before the next word: one longer after an option word, else empty.
LEMMA RunGrows ==
  ASSUME NEW k \in Nat \ {0}, NEW r, LongestRun(k, r)
  PROVE  LongestRun(k + 1, IF argv[k] \in OptionName THEN r + 1 ELSE 0)
  <1>1. r \in 0..(k - 1) /\ \A j \in (k - r)..(k - 1) : argv[j] \in OptionName
    BY DEF LongestRun, IsRun
  <1>2. CASE argv[k] \in OptionName
    <2>1. IsRun(k + 1, r + 1)
      BY <1>1, <1>2 DEF IsRun
    <2>2. ASSUME NEW n \in 0..((k + 1) - 1), IsRun(k + 1, n), ~(n <= r + 1) PROVE FALSE
      <3>1. n - 1 \in 0..(k - 1)
        BY <1>1, <2>2
      <3>2. IsRun(k, n - 1)
        BY <2>2, <3>1 DEF IsRun
      <3> QED BY <1>1, <2>2, <3>1, <3>2 DEF LongestRun
    <2> QED BY <1>2, <2>1, <2>2 DEF LongestRun
  <1>3. CASE argv[k] \notin OptionName
    <2>1. IsRun(k + 1, 0)
      BY DEF IsRun
    <2>2. ASSUME NEW n \in 0..((k + 1) - 1), IsRun(k + 1, n), ~(n <= 0) PROVE FALSE
      <3>1. k \in ((k + 1) - n)..((k + 1) - 1)
        BY <2>2
      <3> QED BY <1>3, <2>2, <3>1 DEF IsRun
    <2> QED BY <1>3, <2>1, <2>2 DEF LongestRun
  <1> QED BY <1>2, <1>3

\* At the start of a turn of the loop an option word is a name.
LEMMA AtName ==
  ASSUME LoopInv, i <= Len(argv)
  PROVE  IsName(i) <=> argv[i] \in OptionName
  <1>1. PICK r \in Nat : LongestRun(i, 2 * r)
    BY DEF LoopInv
  <1>2. i \in Nat
    BY DEF LoopInv
  <1>3. RunBefore(i) = 2 * r
    BY <1>1, <1>2, RunIs
  <1>4. (2 * r) % 2 = 0
    OBVIOUS
  <1> QED BY <1>3, <1>4 DEF IsName
-----------------------------------------------------------------------------
LEMMA UnknownKeeps ==
  ASSUME LoopInv, Unknown PROVE LoopInv'
  <1>1. /\ i \in Nat \ {0} /\ i <= Len(argv) /\ Len(argv) \in Nat /\ argv[i] \notin OptionName
        /\ i' = i + 1 /\ argv' = argv /\ options' = options /\ state' = state /\ state = "loop"
    BY LenProperties DEF LoopInv, Unknown
  <1>2. LongestRun(i, 2 * 0)'
    <2>1. PICK r \in Nat : LongestRun(i, 2 * r)
      BY DEF LoopInv
    <2>2. LongestRun(i + 1, 0)
      BY <1>1, <2>1, RunGrows
    <2> QED BY <1>1, <2>2 DEF LongestRun, IsRun
  <1>3. ASSUME NEW o \in OptionName PROVE Stored(o)'
    <2>1. Names(o)' = Names(o) /\ i \notin Names(o)
      BY <1>1 DEF Names, IsName, RunBefore
    <2>2. Names(o) \subseteq Nat
      BY LenProperties DEF Names, LoopInv
    <2>3. Seen(o)' = Seen(o)
      BY <1>1, <2>1, <2>2 DEF Seen
    <2> QED BY <1>1, <2>3 DEF LoopInv, Stored
  <1> QED BY <1>1, <1>2, <1>3 DEF LoopInv

LEMMA RecognizedKeeps ==
  ASSUME LoopInv, Recognized PROVE LoopInv'
  <1>1. /\ i \in Nat \ {0} /\ i <= Len(argv) /\ Len(argv) \in Nat /\ argv[i] \in OptionName
        /\ argv' = argv /\ state = "loop" /\ DOMAIN argv = 1..Len(argv)
    BY LenProperties DEF LoopInv, Recognized
  <1>2. \A o : Names(o)' = Names(o) /\ Names(o) \subseteq Nat
    BY <1>1 DEF Names, IsName, RunBefore
  <1>3. CASE i < Len(argv)
    <2>1. /\ options' = [o \in DOMAIN options \cup {argv[i]} |->
                           IF o = argv[i] THEN argv[i + 1] ELSE options[o]]
          /\ i' = i + 2 /\ state' = state
      BY <1>3 DEF Recognized, NextWord
    <2>2. PICK r \in Nat : LongestRun(i, 2 * r)
      BY DEF LoopInv
    <2>3. LongestRun(i + 1, 2 * r + 1)
      BY <1>1, <2>2, RunGrows
    <2>4. LongestRun((i + 1) + 1, IF argv[i + 1] \in OptionName THEN (2 * r + 1) + 1 ELSE 0)
      BY <1>1, <2>3, RunGrows
    <2>5. \E q \in Nat : LongestRun(i + 2, 2 * q)
      <3>1. (i + 1) + 1 = i + 2 /\ (2 * r + 1) + 1 = 2 * (r + 1) /\ 0 = 2 * 0
        BY <1>1
      <3>2. CASE argv[i + 1] \in OptionName
        <4>1. LongestRun(i + 2, 2 * (r + 1)) /\ r + 1 \in Nat
          BY <2>4, <3>1, <3>2
        <4> QED BY <4>1
      <3>3. CASE argv[i + 1] \notin OptionName
        BY <2>4, <3>1, <3>3
      <3> QED BY <3>2, <3>3
    <2>6. (\E q \in Nat : LongestRun(i, 2 * q))'
      BY <1>1, <2>1, <2>5 DEF LongestRun, IsRun
    <2>7. ~IsName(i + 1)
      <3>1. RunBefore(i + 1) = 2 * r + 1
        BY <1>1, <2>3, RunIs
      <3>2. (2 * r + 1) % 2 = 1
        OBVIOUS
      <3> QED BY <3>1, <3>2 DEF IsName
    <2>8. i \in Names(argv[i])
      BY <1>1, AtName DEF Names
    <2>9. \A o : i + 1 \notin Names(o) /\ (o # argv[i] => i \notin Names(o))
      BY <2>7 DEF Names
    <2>10. ASSUME NEW o \in OptionName PROVE Stored(o)'
      <3>1. CASE o = argv[i]
        <4>1. i \in Seen(o)' /\ \A j \in Seen(o)' : j <= i
          BY <1>1, <1>2, <2>1, <2>8, <2>9, <3>1 DEF Seen
        <4>2. o \in DOMAIN options' /\ options'[o] = argv'[i + 1]
          BY <1>1, <2>1, <3>1
        <4> QED BY <4>1, <4>2 DEF Stored
      <3>2. CASE o # argv[i]
        <4>1. Seen(o)' = Seen(o)
          <5>1. ASSUME NEW k \in Names(o), k < i + 2 PROVE k < i
            BY <1>1, <1>2, <2>9, <3>2, <5>1
          <5>2. \A k \in Names(o) : k < i => k < i + 2
            BY <1>1, <1>2
          <5> QED BY <1>2, <2>1, <5>1, <5>2 DEF Seen
        <4>2. /\ o \in DOMAIN options' <=> o \in DOMAIN options
              /\ o \in DOMAIN options => options'[o] = options[o]
          BY <2>1, <3>2
        <4> QED BY <1>1, <4>1, <4>2 DEF LoopInv, Stored
      <3> QED BY <3>1, <3>2
    <2>11. DOMAIN options' \subseteq OptionName
      BY <1>1, <2>1 DEF LoopInv
    <2> QED BY <1>1, <1>3, <2>1, <2>6, <2>10, <2>11 DEF LoopInv
  <1>4. CASE ~(i < Len(argv))
    <2>1. state' = "undefined" /\ i' = i /\ options' = options
      BY <1>4 DEF Recognized
    <2>2. i = Len(argv)
      <3>1. \A a, b \in Nat : a <= b /\ ~(a < b) => a = b
        OBVIOUS
      <3> QED BY ONLY <1>1, <1>4, <3>1
    <2>3. (\E q \in Nat : LongestRun(i, 2 * q))'
      BY <1>1, <2>1 DEF LoopInv, LongestRun, IsRun
    <2>4. \A o \in OptionName : Stored(o)'
      BY <1>1, <1>2, <2>1 DEF LoopInv, Stored, Seen
    <2> QED BY <1>1, <2>1, <2>2, <2>3, <2>4 DEF LoopInv
  <1> QED BY <1>3, <1>4

LEMMA UnchangedKeeps ==
  ASSUME LoopInv, UNCHANGED <<argv, i, options>>, state' = state \/ (state' = "done" /\ i > Len(argv))
  PROVE  LoopInv'
  <1>1. (\E q \in Nat : LongestRun(i, 2 * q))'
    BY DEF LoopInv, LongestRun, IsRun
  <1>2. \A o : Seen(o)' = Seen(o)
    BY DEF Seen, Names, IsName, RunBefore
  <1> QED BY <1>1, <1>2 DEF LoopInv, Stored

\* When the loop is over it has passed every word.
LEMMA LoopInvLast ==
  ASSUME LoopInv PROVE LastValueWins
  <1>1. ASSUME state = "done", NEW o \in OptionName
        PROVE  option_or_default(o, Default) =
                 IF Names(o) = {} THEN Default ELSE argv[Max(Names(o)) + 1]
    <2>1. Seen(o) = Names(o)
      BY <1>1, LenProperties DEF LoopInv, Seen, Names
    <2>2. CASE o \in DOMAIN options
      <3>1. PICK k \in Names(o) : options[o] = argv[k + 1] /\ \A j \in Names(o) : j <= k
        BY <2>1, <2>2 DEF LoopInv, Stored
      <3>2. \A j \in Names(o) : j \in Nat
        BY LenProperties DEF Names, LoopInv
      <3>3. \A x \in Names(o) : (\A j \in Names(o) : x >= j) => x = k
        BY <3>1, <3>2
      <3>4. \A j \in Names(o) : k >= j
        BY <3>1, <3>2
      <3>5. Max(Names(o)) = k
        BY <3>3, <3>4 DEF Max
      <3> QED BY <2>2, <3>1, <3>5 DEF option_or_default
    <2>3. CASE o \notin DOMAIN options
      BY <2>1, <2>3 DEF LoopInv, Stored, option_or_default
    <2> QED BY <2>2, <2>3
  <1>2. ASSUME state = "undefined" PROVE IsName(Len(argv))
    <2>1. i = Len(argv) /\ argv[i] \in OptionName /\ i <= Len(argv)
      BY <1>2, LenProperties DEF LoopInv
    <2> QED BY <2>1, AtName
  <1> QED BY <1>1, <1>2 DEF LastValueWins

LEMMA LoopStarts ==
  ASSUME OptionsInit PROVE LoopInv
  <1>1. argv \in Seq(Token)
    <2>1. PICK n \in 0..MaxArgs : argv \in [1..n -> Token]
      BY DEF OptionsInit
    <2>2. n \in Nat
      OBVIOUS
    <2> QED BY <2>1, <2>2, SeqDef
  <1>2. i = 1 /\ options = <<>> /\ state = "loop" /\ Len(argv) \in Nat /\ DOMAIN argv = 1..Len(argv)
    BY <1>1, LenProperties DEF OptionsInit
  <1>3. LongestRun(i, 2 * 0)
    BY <1>2 DEF LongestRun, IsRun
  <1>4. DOMAIN options = {}
    BY <1>2
  <1>5. \A o : Seen(o) = {}
    BY <1>2 DEF Seen, Names
  <1> QED BY <1>1, <1>2, <1>3, <1>4, <1>5 DEF LoopInv, Stored

(***************************************************************************)
(* For every set of options and every command line, parse_options() returns *)
(* for each option the last value it was given, and reads past the command  *)
(* line only if its last word is the name of an option.                     *)
(***************************************************************************)
THEOREM LastValueAlwaysWins == OptionsSpec => []LastValueWins
<1>1. OptionsInit => LoopInv
  BY LoopStarts
<1>2. LoopInv /\ [OptionsNext]_options_vars => LoopInv'
  <2> SUFFICES ASSUME LoopInv, [OptionsNext]_options_vars PROVE LoopInv'
    OBVIOUS
  <2>1. CASE Recognized
    BY <2>1, RecognizedKeeps
  <2>2. CASE Unknown
    BY <2>2, UnknownKeeps
  <2>3. CASE Return
    BY <2>3, UnchangedKeeps DEF Return
  <2>4. CASE UNCHANGED options_vars
    BY <2>4, UnchangedKeeps DEF options_vars
  <2> QED BY <2>1, <2>2, <2>3, <2>4 DEF OptionsNext
<1>3. LoopInv => LastValueWins
  BY LoopInvLast
<1> QED BY <1>1, <1>2, <1>3, PTL DEF OptionsSpec
=============================================================================
