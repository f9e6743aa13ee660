---------------------------- MODULE ConfigProofs ----------------------------
(***************************************************************************)
(* Proofs about Config, for any arguments, environments and files: the     *)
(* server starts exactly if its arguments are options with their values,   *)
(* and then every field has the value of the source that comes first.      *)
(***************************************************************************)
EXTENDS Config, TLAPS

-----------------------------------------------------------------------------
(* The scan for options is always at an odd place, and every option before   *)
(* it was known: that is why a value is never taken for an option.  It goes  *)
(* two places past the end when a last -c has no value, and never farther.   *)

Known == DOMAIN FieldOfOption \union {"-c"}

AtOption ==
    /\ \E n \in 0..Len(argv) + 1 : i = 2 * n + 1
    /\ i <= Len(argv) + 2
    /\ i = Len(argv) + 2 => argv[Len(argv)] = "-c"
    /\ \A k \in 1..Len(argv) : 2 * k - 1 < i /\ 2 * k - 1 <= Len(argv) => argv[2 * k - 1] \in Known

ScanInv ==
    /\ argv \in Argvs
    /\ pc \in {"path", "file", "env", "args", "done"}
    /\ pc = "env" \/ (pc = "file" /\ lib) => i = 1
    /\ pc = "args" => AtOption
    /\ OnlyOptionsStart

\* The options that take a value.
LEMMA Options == DOMAIN FieldOfOption = {"-p", "-a", "-t"}
    BY DEF FieldOfOption

\* What the arguments are told by their places.
LEMMA Places ==
    ASSUME NEW len \in Nat
    PROVE  /\ len \div 2 \in Nat /\ len % 2 \in 0..1
           /\ len = 2 * (len \div 2) + (len % 2)
    OBVIOUS

\* At the end of the scan every option is known, and a last one that has no
\* value is -c.
LEMMA EndOfScan ==
    ASSUME argv \in Seq(STRING), AtOption, i > Len(argv)
    PROVE  /\ \A k \in DOMAIN Pairs : Pairs[k].option \in Known
           /\ Len(argv) % 2 = 1 => argv[Len(argv)] = "-c"
<1>1. PICK len \in Nat, d \in Nat, m \in 0..1 :
        len = Len(argv) /\ d = len \div 2 /\ m = len % 2 /\ len = 2 * d + m
    BY Places
<1>2. PICK n \in 0..len + 1 : i = 2 * n + 1
    BY <1>1 DEF AtOption
<1>3. ASSUME NEW k \in 1..d PROVE Pairs[k].option \in Known
    <2>1. 2 * k - 1 < i /\ 2 * k - 1 <= len /\ k \in 1..len
        BY <1>1, <1>2
    <2>2. argv[2 * k - 1] \in Known
        BY <1>1, <2>1 DEF AtOption
    <2> QED
        BY <1>1, <2>2 DEF Pairs, Pair
<1>4. m = 1 => argv[len] = "-c"
    <2>1. m = 1 => i = len + 2
        <3>1. i > len /\ i <= len + 2
            BY <1>1 DEF AtOption
        <3> QED
            BY <1>1, <1>2, <3>1
    <2> QED
        BY <1>1, <2>1 DEF AtOption
<1> QED
    BY <1>1, <1>3, <1>4 DEF Pairs

\* An unknown option at the place of an option is one of the pairs, or the
\* last argument, and then not -c.
LEMMA Unknown ==
    ASSUME argv \in Seq(STRING), AtOption, i <= Len(argv), argv[i] # "-c",
           i = Len(argv) \/ argv[i] \notin Known
    PROVE  ~ /\ \A k \in DOMAIN Pairs : Pairs[k].option \in Known
             /\ Len(argv) % 2 = 1 => argv[Len(argv)] = "-c"
<1>1. PICK len \in Nat, d \in Nat, m \in 0..1 :
        len = Len(argv) /\ d = len \div 2 /\ m = len % 2 /\ len = 2 * d + m
    BY Places
<1>2. PICK n \in 0..len + 1 : i = 2 * n + 1
    BY <1>1 DEF AtOption
<1>3. CASE i = len
    <2>1. m = 1
        BY <1>1, <1>2, <1>3
    <2> QED
        BY <1>1, <1>3, <2>1
<1>4. CASE i < len
    <2>1. n + 1 \in 1..d /\ 2 * (n + 1) - 1 = i
        BY <1>1, <1>2, <1>4
    <2>2. argv[i] \notin Known
        BY <1>1, <1>4
    <2>3. n + 1 \in DOMAIN Pairs /\ Pairs[n + 1].option = argv[i]
        BY <1>1, <2>1 DEF Pairs, Pair
    <2> QED
        BY <2>2, <2>3
<1> QED
    BY <1>1, <1>2, <1>3, <1>4

\* Taking an option, with its value or without, keeps AtOption.
LEMMA ScanGoesOn ==
    ASSUME argv \in Seq(STRING), AtOption, i <= Len(argv), argv' = argv, i' = i + 2,
           argv[i] \in Known, i = Len(argv) => argv[i] = "-c"
    PROVE  AtOption'
<1>1. PICK len \in Nat : len = Len(argv)
    OBVIOUS
<1>2. PICK n \in 0..len + 1 : i = 2 * n + 1
    BY <1>1 DEF AtOption
<1>3. n + 1 \in 0..len + 1 /\ i' = 2 * (n + 1) + 1
    BY <1>1, <1>2
<1>4. i' <= len + 2 /\ (i' = len + 2 => argv[len] = "-c")
    BY <1>1, <1>2
<1>5. ASSUME NEW k \in 1..len, 2 * k - 1 < i', 2 * k - 1 <= len PROVE argv[2 * k - 1] \in Known
    <2>1. 2 * k - 1 < i \/ 2 * k - 1 = i
        BY <1>2, <1>5
    <2> QED
        BY <1>1, <1>5, <2>1 DEF AtOption
<1> QED
    BY <1>1, <1>3, <1>4, <1>5 DEF AtOption

\* Every step keeps ScanInv.
LEMMA StepScanInv == ASSUME ScanInv, [Next]_vars PROVE ScanInv'
<1>1. argv \in Seq(STRING) /\ argv' = argv /\ inputs' = inputs
    BY ConfigAssumption
    DEF ScanInv, Next, cfg_read_config_path, OpenFile, ReadWithLibconfig, ReadLine,
        cfg_apply_env, cfg_apply_args, vars, inputs
<1>2. argv' \in Argvs
    BY <1>1 DEF ScanInv
<1>3. CASE cfg_read_config_path \/ OpenFile \/ ReadWithLibconfig \/ ReadLine
    <2>1. pc' \in {"path", "file", "env"} /\ (pc' = "env" \/ (pc' = "file" /\ lib') => i' = 1)
        <3>1. CASE cfg_read_config_path
            BY <3>1 DEF cfg_read_config_path
        <3>2. CASE OpenFile
            BY <3>2 DEF OpenFile
        <3>3. CASE ReadWithLibconfig
            BY <3>3 DEF ReadWithLibconfig, ScanInv
        <3>4. CASE ReadLine
            BY <1>1, <3>4 DEF ReadLine, inputs
        <3> QED
            BY <1>3, <3>1, <3>2, <3>3, <3>4
    <2> QED
        BY <1>2, <2>1 DEF ScanInv, OnlyOptionsStart
<1>4. CASE cfg_apply_env
    <2>1. pc' = "args" /\ i' = 1
        BY <1>4 DEF cfg_apply_env, ScanInv
    <2>2. AtOption'
        <3>1. PICK len \in Nat : len = Len(argv)
            BY <1>1
        <3>2. 0 \in 0..len + 1 /\ 1 = 2 * 0 + 1 /\ 1 <= len + 2 /\ 1 # len + 2
            BY <3>1
        <3>3. \A k \in 1..len : ~(2 * k - 1 < 1)
            OBVIOUS
        <3> QED
            BY <1>1, <2>1, <3>1, <3>2, <3>3 DEF AtOption
    <2> QED
        BY <1>2, <2>1, <2>2 DEF ScanInv, OnlyOptionsStart
<1>5. CASE cfg_apply_args
    <2>1. pc = "args" /\ AtOption /\ i \in Nat
        BY <1>1, <1>5 DEF cfg_apply_args, ScanInv, AtOption
    <2>2. CASE i > Len(argv) /\ Return(0)
        <3>1. OnlyOptionsStart'
            BY <1>1, <2>1, <2>2, EndOfScan
            DEF OnlyOptionsStart, Return, Known, Pairs, Pair
        <3> QED
            BY <1>2, <2>2, <3>1 DEF ScanInv, Return
    <2>3. CASE /\ i <= Len(argv)
               /\ \/ argv[i] = "-c"
                  \/ i < Len(argv) /\ argv[i] \in DOMAIN FieldOfOption
               /\ i' = i + 2 /\ UNCHANGED pc
        <3>1. argv[i] \in Known /\ (i = Len(argv) => argv[i] = "-c")
            BY <2>3 DEF Known
        <3>2. AtOption'
            BY <1>1, <2>1, <2>3, <3>1, ScanGoesOn
        <3> QED
            BY <1>2, <2>1, <2>3, <3>2 DEF ScanInv, OnlyOptionsStart
    <2>4. CASE /\ i <= Len(argv) /\ argv[i] # "-c"
               /\ i = Len(argv) \/ argv[i] \notin Known
               /\ Return(1) \/ Return(-1)
        <3>1. pc' = "done" /\ status' # 0
            BY <2>4 DEF Return
        <3>2. OnlyOptionsStart'
            BY <1>1, <2>1, <2>4, <3>1, Unknown
            DEF OnlyOptionsStart, Known, Pairs, Pair
        <3> QED
            BY <1>2, <3>1, <3>2 DEF ScanInv
    <2> QED
        <3>1. CASE i > Len(argv) /\ Return(0)
            BY <3>1, <2>2
        <3>2. CASE i <= Len(argv) /\ argv[i] = "-h" /\ Return(1)
            BY <3>2, <2>4, Options DEF Known
        <3>3. CASE i <= Len(argv) /\ argv[i] = "-c" /\ i' = i + 2 /\ UNCHANGED pc
            BY <3>3, <2>3
        <3>4. CASE /\ i < Len(argv) /\ argv[i] \in DOMAIN FieldOfOption
                   /\ i' = i + 2 /\ UNCHANGED pc
            <4>1. i <= Len(argv)
                BY <1>1, <2>1, <3>4
            <4> QED
                BY <3>4, <2>3, <4>1
        <3>5. CASE /\ i <= Len(argv) /\ argv[i] \notin {"-h", "-c"}
                   /\ i = Len(argv) \/ argv[i] \notin DOMAIN FieldOfOption
                   /\ misused
            BY <3>5, <2>4 DEF Known, misused
        <3> QED
            BY <1>5, <3>1, <3>2, <3>3, <3>4, <3>5 DEF cfg_apply_args
<1>6. CASE UNCHANGED vars
    BY <1>6 DEF ScanInv, AtOption, OnlyOptionsStart, Known, Pairs, Pair, vars, inputs
<1> QED
    BY <1>3, <1>4, <1>5, <1>6 DEF Next

\* The server starts exactly if its arguments are options with their values: a
\* value is never taken for an option, nor an option for the value of another
\* but by its place (cfg_apply_args).
THEOREM OnlyOptionsStarted == Spec => []OnlyOptionsStart
<1>1. Init => ScanInv
    BY DEF Init, ScanInv, OnlyOptionsStart
<1>2. ScanInv /\ [Next]_vars => ScanInv'
    BY StepScanInv
<1>3. ScanInv => OnlyOptionsStart
    BY DEF ScanInv
<1> QED
    BY <1>1, <1>2, <1>3, PTL DEF Spec

-----------------------------------------------------------------------------
(* How far cfg_load has come: at every step each field has the value of the  *)
(* last valid text among the places read so far, in the source being read or *)
(* in one before it.                                                         *)

Keys == Fields \union {"config_path"}

\* The places of a scan of the options, and of a file, that lie before n.
OptionsBefore(S, n) == {k \in S : 2 * k - 1 < n}
LinesBefore(S, n) == {k \in S : k < n}

PathOfEnv ==
    IF "CONFIG_PATH" \in DOMAIN env /\ env["CONFIG_PATH"] # "" THEN env["CONFIG_PATH"]
    ELSE "config.cfg"
PathIn(S) == IF S # {} THEN Pairs[Max(S)].text ELSE PathOfEnv
FileIn(f, S) == IF S # {} THEN Number[files[PathChosen][Max(S)].text] ELSE cfg_defaults[f]
EnvIn(f) ==
    IF ByEnv(f) # {} THEN Number[env[CHOOSE v \in ByEnv(f) : TRUE]] ELSE FileIn(f, ByFile(f))
ArgsIn(f, S) == IF S # {} THEN Number[Pairs[Max(S)].text] ELSE EnvIn(f)

FieldInv(f) ==
    /\ pc = "path" => cfg[f] = cfg_defaults[f]
    /\ pc = "file" => cfg[f] = FileIn(f, IF lib THEN {} ELSE LinesBefore(ByFile(f), i))
    /\ pc = "env" => cfg[f] = FileIn(f, ByFile(f))
    /\ pc = "args" => cfg[f] = ArgsIn(f, OptionsBefore(ByArgs(f), i))
    /\ pc = "done" /\ status = 0 => cfg[f] = InForce(f)

PathInv ==
    cfg.config_path = IF pc = "path" THEN PathIn(OptionsBefore(PathsGiven, i)) ELSE PathChosen

LoadInv ==
    /\ files \in FileSystems /\ lib \in BOOLEAN
    /\ cfg = [f \in Keys |-> cfg[f]]
    /\ pc = "path" \/ (pc = "file" /\ ~lib) => i \in Nat \ {0}
    /\ pc = "file" => cfg.config_path \in DOMAIN files
    /\ Plain => PathInv /\ \A f \in Fields : FieldInv(f)

\* The last of some places is the one that no other exceeds.
LEMMA MaxIs ==
    ASSUME NEW S, S \subseteq Int, NEW k \in S, \A y \in S : k >= y
    PROVE  Max(S) = k
<1>1. Max(S) \in S /\ \A y \in S : Max(S) >= y
    BY DEF Max
<1>2. k \in Int /\ Max(S) \in Int /\ k >= Max(S) /\ Max(S) >= k
    BY <1>1
<1> QED
    BY <1>2

\* One option further, with a place that counts: it is the last one.
LEMMA OptionTaken ==
    ASSUME NEW S, S \subseteq Nat, NEW n \in Nat, n + 1 \in S
    PROVE  /\ OptionsBefore(S, 2 * n + 3) # {}
           /\ Max(OptionsBefore(S, 2 * n + 3)) = n + 1
<1> DEFINE T == OptionsBefore(S, 2 * n + 3)
<1>1. \A y : y \in T <=> y \in S /\ 2 * y - 1 < 2 * n + 3
    BY DEF OptionsBefore
<1> HIDE DEF T
<1>2. n + 1 \in T
    BY <1>1
<1>3. \A y \in T : y \in Int /\ n + 1 >= y
    <2> TAKE y \in T
    <2>1. y \in Nat /\ 2 * y - 1 < 2 * n + 3
        BY <1>1
    <2> QED
        BY <2>1
<1>4. Max(T) = n + 1
    BY <1>2, <1>3, MaxIs
<1> QED
    BY <1>2, <1>4 DEF T

\* One option further, with a place that does not count.
LEMMA OptionPassed ==
    ASSUME NEW S, S \subseteq Nat, NEW n \in Nat, n + 1 \notin S
    PROVE  OptionsBefore(S, 2 * n + 3) = OptionsBefore(S, 2 * n + 1)
<1>1. \A k \in S : 2 * k - 1 < 2 * n + 3 <=> 2 * k - 1 < 2 * n + 1
    <2> TAKE k \in S
    <2>1. k \in Nat /\ k # n + 1
        OBVIOUS
    <2> QED
        BY <2>1
<1> QED
    BY <1>1 DEF OptionsBefore

\* One argument further, from a place where no option stands.
LEMMA ValuePassed ==
    ASSUME NEW S, S \subseteq Nat, NEW n \in Nat
    PROVE  OptionsBefore(S, 2 * n + 1) = OptionsBefore(S, 2 * n)
<1>1. \A k \in S : 2 * k - 1 < 2 * n + 1 <=> 2 * k - 1 < 2 * n
    <2> TAKE k \in S
    <2>1. k \in Nat
        OBVIOUS
    <2> QED
        BY <2>1
<1> QED
    BY <1>1 DEF OptionsBefore

\* One line further: it is the last one that counts, or it does not count.
LEMMA LineTaken ==
    ASSUME NEW S, S \subseteq Nat, NEW n \in Nat
    PROVE  /\ n \in S => LinesBefore(S, n + 1) # {} /\ Max(LinesBefore(S, n + 1)) = n
           /\ n \notin S => LinesBefore(S, n + 1) = LinesBefore(S, n)
<1>1. ASSUME n \in S
      PROVE  LinesBefore(S, n + 1) # {} /\ Max(LinesBefore(S, n + 1)) = n
    <2> DEFINE T == LinesBefore(S, n + 1)
    <2>1. \A y : y \in T <=> y \in S /\ y < n + 1
        BY DEF LinesBefore
    <2> HIDE DEF T
    <2>2. n \in T
        BY <1>1, <2>1
    <2>3. \A y \in T : y \in Int /\ n >= y
        <3> TAKE y \in T
        <3>1. y \in Nat /\ y < n + 1
            BY <2>1
        <3> QED
            BY <3>1
    <2>4. Max(T) = n
        BY <2>2, <2>3, MaxIs
    <2> QED
        BY <2>2, <2>4 DEF T
<1>2. ASSUME n \notin S PROVE LinesBefore(S, n + 1) = LinesBefore(S, n)
    <2>1. \A k \in S : k < n + 1 <=> k < n
        <3> TAKE k \in S
        <3>1. k \in Nat /\ k # n
            BY <1>2
        <3> QED
            BY <3>1
    <2> QED
        BY <2>1 DEF LinesBefore
<1> QED
    BY <1>1, <1>2

\* At the end of a scan every place has been read, and at its start none.
LEMMA WholeScan ==
    ASSUME argv \in Seq(STRING), NEW S, S \subseteq DOMAIN Pairs, NEW n \in Nat
    PROVE  /\ S \subseteq Nat
           /\ n > Len(argv) => OptionsBefore(S, n) = S
           /\ OptionsBefore(S, 1) = {}
<1>1. PICK len \in Nat, d \in Nat, m \in 0..1 :
        len = Len(argv) /\ d = len \div 2 /\ m = len % 2 /\ len = 2 * d + m
    BY Places
<1>2. \A k \in S : k \in 1..d
    BY <1>1 DEF Pairs
<1>3. \A k \in S : k \in Nat /\ ~(2 * k - 1 < 1) /\ (n > len => 2 * k - 1 < n)
    BY <1>1, <1>2
<1> QED
    BY <1>1, <1>3 DEF OptionsBefore

\* At the end of the file every line has been read, and at its start none.
LEMMA WholeFile ==
    ASSUME NEW len \in Nat, NEW S, S \subseteq 1..len, NEW n \in Nat
    PROVE  /\ S \subseteq Nat
           /\ n > len => LinesBefore(S, n) = S
           /\ LinesBefore(S, 1) = {}
<1>1. \A k \in S : k \in Nat /\ ~(k < 1) /\ (n > len => k < n)
    OBVIOUS
<1> QED
    BY <1>1 DEF LinesBefore

\* What the inputs alone decide does not change.
LEMMA InputsDecide ==
    ASSUME UNCHANGED inputs
    PROVE  /\ Pairs' = Pairs /\ PathsGiven' = PathsGiven /\ PathOfEnv' = PathOfEnv
           /\ PathChosen' = PathChosen /\ Plain' = Plain
           /\ \A f \in Fields : /\ ByFile(f)' = ByFile(f) /\ ByEnv(f)' = ByEnv(f)
                               /\ ByArgs(f)' = ByArgs(f) /\ InForce(f)' = InForce(f)
<1>1. argv' = argv /\ env' = env /\ files' = files /\ lib' = lib
    BY DEF inputs
<1>2. Pairs' = Pairs
    BY <1>1 DEF Pairs, Pair
<1>3. PathsGiven' = PathsGiven /\ PathOfEnv' = PathOfEnv
    BY <1>1, <1>2 DEF PathsGiven, PathOfEnv
<1>4. PathChosen' = PathChosen
    BY <1>1, <1>2, <1>3 DEF PathChosen
<1>5. Plain' = Plain
    BY <1>1, <1>2, <1>4 DEF Plain
<1>6. ASSUME NEW f \in Fields
      PROVE  /\ ByFile(f)' = ByFile(f) /\ ByEnv(f)' = ByEnv(f)
             /\ ByArgs(f)' = ByArgs(f)
    <2>1. FileRead' = FileRead
        BY <1>1, <1>4 DEF FileRead
    <2>2. ByFile(f)' = ByFile(f)
        BY <1>1, <1>4, <2>1 DEF ByFile, ValidInFile
    <2> QED
        BY <1>1, <1>2, <2>2 DEF ByEnv, ByArgs
<1>7. \A f \in Fields : InForce(f)' = InForce(f)
    <2> TAKE f \in Fields
    <2>1. /\ ByFile(f)' = ByFile(f) /\ ByEnv(f)' = ByEnv(f) /\ ByArgs(f)' = ByArgs(f)
        BY <1>6
    <2> QED
        BY <1>1, <1>2, <1>4, <2>1 DEF InForce
<1> QED
    BY <1>2, <1>3, <1>4, <1>5, <1>6, <1>7

\* What one value does to the settings: the field it is for takes it if it is
\* valid, and nothing else changes.
LEMMA ValueApplied ==
    ASSUME NEW c, c = [f \in Keys |-> c[f]], NEW g \in Fields, NEW text
    PROVE  LET d == apply_value(c, g, text)
           IN  /\ d = [f \in Keys |-> d[f]]
               /\ d["config_path"] = c["config_path"]
               /\ \A f \in Fields : d[f] = IF f = g /\ Valid(f, text) THEN Number[text] ELSE c[f]
<1> DEFINE d == apply_value(c, g, text)
<1>1. Highest(g) = (IF g \in Ports THEN 65535 ELSE 86400) /\ Highest(g) \in Nat
    BY DEF Highest
<1>2. parse_number(text, Highest(g)) <=> Valid(g, text)
    <2>1. ASSUME text \in DOMAIN Number
          PROVE  Number[text] \in 1..Highest(g) <=> Number[text] > 0 /\ Number[text] <= Highest(g)
        <3>1. Number[text] \in Int
            BY <2>1, ConfigAssumption
        <3> QED
            BY <1>1, <3>1
    <2> QED
        BY <1>1, <2>1 DEF parse_number, Valid
<1>3. g \in Keys /\ g # "config_path" /\ "config_path" \in Keys /\ \A f \in Fields : f \in Keys
    BY DEF Keys, Fields, Ports
<1>4. CASE Valid(g, text)
    <2>1. d = [c EXCEPT ![g] = Number[text]]
        BY <1>2, <1>4 DEF apply_value
    <2>2. d = [f \in Keys |-> IF f = g THEN Number[text] ELSE c[f]]
        BY <1>3, <2>1
    <2> HIDE DEF d
    <2> QED
        BY <1>3, <1>4, <2>2 DEF d
<1>5. CASE ~Valid(g, text)
    <2>1. d = c
        BY <1>2, <1>5 DEF apply_value
    <2> QED
        BY <1>5, <2>1
<1> QED
    BY <1>4, <1>5

\* Every place is one of an option or one of a value.
LEMMA EvenOrOdd == ASSUME NEW p \in Nat PROVE \E n \in Nat : p = 2 * n \/ p = 2 * n + 1
<1>1. p \div 2 \in Nat /\ p % 2 \in 0..1 /\ p = 2 * (p \div 2) + (p % 2)
    BY Places
<1> QED
    BY <1>1

\* A step of the search for the path keeps LoadInv: the path is that of the
\* last -c so far, which Plain says stands at the place of an option.
LEMMA PathStep ==
    ASSUME LoadInv, argv \in Seq(STRING), cfg_read_config_path
    PROVE  LoadInv'
<1>1. UNCHANGED inputs /\ files' = files /\ lib' = lib /\ pc = "path" /\ pc' = "path"
    BY DEF cfg_read_config_path, inputs
<1>2. PICK len \in Nat, d \in Nat, m \in 0..1 :
        len = Len(argv) /\ d = len \div 2 /\ m = len % 2 /\ len = 2 * d + m
    BY Places
<1>3. i \in Nat \ {0} /\ i <= len /\ i' \in Nat \ {0}
    BY <1>1, <1>2 DEF LoadInv, cfg_read_config_path
<1>4. /\ cfg' = [f \in Keys |-> cfg'[f]]
      /\ \A f \in Fields : cfg'[f] = cfg[f]
    <2>1. "config_path" \in Keys /\ "config_path" \notin Fields /\ Fields \subseteq Keys
        BY DEF Keys, Fields, Ports
    <2>2. cfg = [f \in Keys |-> cfg[f]]
        BY DEF LoadInv
    <2>3. cfg' = cfg \/ cfg' = [cfg EXCEPT !.config_path = argv[i + 1]]
        BY DEF cfg_read_config_path
    <2> QED
        BY <2>1, <2>2, <2>3
<1>5. ASSUME Plain
      PROVE  cfg'.config_path = PathIn(OptionsBefore(PathsGiven, i'))
    <2>1. cfg.config_path = PathIn(OptionsBefore(PathsGiven, i))
        BY <1>1, <1>5 DEF LoadInv, PathInv
    <2>2. PathsGiven \subseteq Nat
        BY <1>2, WholeScan DEF PathsGiven
    <2>3. \A k : k \in PathsGiven <=> k \in 1..d /\ argv[2 * k - 1] = "-c"
        BY <1>2 DEF PathsGiven, Pairs, Pair
    <2>4. \A k \in 1..d : argv[2 * k] # "-c" /\ Pairs[k].text = argv[2 * k]
        BY <1>2, <1>5 DEF Plain, Pairs, Pair
    <2>5. CASE argv[i] = "-c" /\ i < len
        <3>1. PICK n \in Nat : i = 2 * n \/ i = 2 * n + 1
            BY <1>3, EvenOrOdd
        <3>2. i # 2 * n
            <4>1. i = 2 * n => n \in 1..d
                BY <1>2, <1>3
            <4> QED
                BY <2>4, <2>5, <4>1
        <3>3. i = 2 * n + 1 /\ n + 1 \in 1..d /\ 2 * (n + 1) - 1 = i /\ 2 * (n + 1) = i + 1
            BY <1>2, <1>3, <2>5, <3>1, <3>2
        <3>4. i' = 2 * n + 3 /\ cfg'.config_path = argv[i + 1]
            <4>1. i' = i + 2 /\ cfg' = [cfg EXCEPT !.config_path = argv[i + 1]]
                BY <1>2, <2>5 DEF cfg_read_config_path
            <4>2. cfg = [f \in Keys |-> cfg[f]] /\ "config_path" \in Keys
                BY DEF LoadInv, Keys
            <4> QED
                BY <3>3, <4>1, <4>2
        <3>5. n + 1 \in PathsGiven
            BY <2>3, <2>5, <3>3
        <3>6. /\ OptionsBefore(PathsGiven, i') # {}
              /\ Max(OptionsBefore(PathsGiven, i')) = n + 1
            BY <2>2, <3>4, <3>5, OptionTaken
        <3>7. Pairs[n + 1].text = argv[i + 1]
            BY <2>4, <3>3
        <3> QED
            BY <3>4, <3>6, <3>7 DEF PathIn
    <2>6. CASE ~(argv[i] = "-c" /\ i < len)
        <3>1. i' = i + 1 /\ cfg' = cfg
            BY <1>2, <2>6 DEF cfg_read_config_path
        <3>2. PICK n \in Nat : i = 2 * n \/ i = 2 * n + 1
            BY <1>3, EvenOrOdd
        <3>3. CASE i = 2 * n
            BY <2>1, <2>2, <3>1, <3>3, ValuePassed
        <3>4. CASE i = 2 * n + 1
            <4>1. n + 1 \notin PathsGiven
                <5>1. n + 1 \in 1..d => i < len /\ 2 * (n + 1) - 1 = i
                    BY <1>2, <3>4
                <5> QED
                    BY <2>3, <2>6, <5>1
            <4>2. OptionsBefore(PathsGiven, 2 * n + 3) = OptionsBefore(PathsGiven, i)
                BY <2>2, <3>4, <4>1, OptionPassed
            <4>3. n + 1 \in Nat /\ 2 * (n + 1) + 1 = 2 * n + 3 /\ 2 * (n + 1) = i'
                BY <3>1, <3>4
            <4>4. OptionsBefore(PathsGiven, 2 * n + 3) = OptionsBefore(PathsGiven, i')
                BY <2>2, <4>3, ValuePassed
            <4> QED
                BY <2>1, <3>1, <4>2, <4>4
        <3> QED
            BY <3>2, <3>3, <3>4
    <2> QED
        BY <2>5, <2>6
<1>6. ASSUME Plain PROVE PathInv' /\ \A f \in Fields : FieldInv(f)'
    <2>1. PathInv'
        <3>1. Pairs' = Pairs /\ PathsGiven' = PathsGiven /\ PathOfEnv' = PathOfEnv
            BY <1>1, InputsDecide
        <3> QED
            BY <1>1, <1>5, <1>6, <3>1 DEF PathInv, PathIn, OptionsBefore
    <2>2. \A f \in Fields : FieldInv(f)'
        BY <1>1, <1>4, <1>6 DEF LoadInv, FieldInv
    <2> QED
        BY <2>1, <2>2
<1>7. Plain' = Plain
    BY <1>1, InputsDecide
<1> QED
    BY <1>1, <1>3, <1>4, <1>6, <1>7 DEF LoadInv

\* At the end of the search the path is the one chosen, and no line has been read.
LEMMA OpenStep ==
    ASSUME LoadInv, argv \in Seq(STRING), OpenFile
    PROVE  LoadInv'
<1>1. /\ UNCHANGED inputs /\ files' = files /\ lib' = lib /\ cfg' = cfg
      /\ pc = "path" /\ i > Len(argv) /\ i' = 1 /\ i \in Nat
      /\ pc' = IF Readable THEN "file" ELSE "env"
    BY DEF LoadInv, OpenFile, inputs
<1>2. ASSUME Plain PROVE cfg.config_path = PathChosen
    <2>1. cfg.config_path = PathIn(OptionsBefore(PathsGiven, i))
        BY <1>1, <1>2 DEF LoadInv, PathInv
    <2>2. OptionsBefore(PathsGiven, i) = PathsGiven
        BY <1>1, WholeScan DEF PathsGiven
    <2> QED
        BY <2>1, <2>2 DEF PathIn, PathOfEnv, PathChosen
<1>3. ASSUME Plain, NEW f \in Fields PROVE FieldInv(f)'
    <2>1. cfg'[f] = cfg_defaults[f]
        BY <1>1, <1>3 DEF LoadInv, FieldInv
    <2>2. ByFile(f)' = ByFile(f)
        BY <1>1, InputsDecide
    <2>3. CASE Readable
        <3>1. PathChosen \in DOMAIN files
            BY <1>2, <1>3, <2>3 DEF Readable
        <3>2. PICK len \in Nat : DOMAIN files[PathChosen] = 1..len
            BY <3>1, ConfigAssumption DEF LoadInv
        <3>3. ByFile(f) \subseteq 1..len
            BY <3>2 DEF ByFile
        <3>4. LinesBefore(ByFile(f), 1) = {}
            BY <3>3, WholeFile
        <3>5. LinesBefore(ByFile(f)', i') = {}
            BY <1>1, <2>2, <3>4
        <3> QED
            BY <1>1, <2>1, <2>3, <3>5 DEF FieldInv, FileIn
    <2>4. CASE ~Readable
        <3>1. ByFile(f) = {}
            BY <1>2, <1>3, <2>4 DEF Readable, FileRead, ByFile
        <3> QED
            BY <1>1, <2>1, <2>2, <2>4, <3>1 DEF FieldInv, FileIn
    <2> QED
        BY <2>3, <2>4
<1>4. Plain => PathInv'
    <2>1. PathChosen' = PathChosen
        BY <1>1, InputsDecide
    <2> QED
        BY <1>1, <1>2, <2>1 DEF PathInv
<1>5. Plain' = Plain
    BY <1>1, InputsDecide
<1> QED
    BY <1>1, <1>3, <1>4, <1>5 DEF LoadInv, Readable

\* The fallback parser finds the field that a line is about, although it finds
\* the word "port" in "admin_port" too, and no two keys are of one field.
LEMMA KeysAreFields ==
    ASSUME NEW key \in {"port", "admin_port", "admin_timeout"}
    PROVE  /\ FieldOf(key) = FieldOfKey[key] /\ FieldOfKey[key] \in Fields
           /\ \A other \in {"port", "admin_port", "admin_timeout"} :
                FieldOfKey[other] = FieldOfKey[key] => other = key
    BY DEF FieldOf, FieldOfKey, Found, Fields, Ports

\* A file being read has lines with a key and a text.
LEMMA LinesOfFile ==
    ASSUME LoadInv, pc = "file"
    PROVE  \E len \in Nat : /\ len = Len(Lines) /\ DOMAIN Lines = 1..len
                            /\ \A k \in 1..len : Lines[k].key \in DOMAIN FieldOfKey
<1> DEFINE Record == [key : {"port", "admin_port", "admin_timeout"}, text : STRING,
                      commented : BOOLEAN]
<1>1. cfg.config_path \in DOMAIN files /\ files \in FileSystems
    BY DEF LoadInv
<1>2. Lines \in Seq(Record)
    BY <1>1, ConfigAssumption DEF Lines
<1>3. DOMAIN FieldOfKey = {"port", "admin_port", "admin_timeout"}
    BY DEF FieldOfKey
<1>4. \A line \in Record : line.key \in DOMAIN FieldOfKey
    BY <1>3
<1> HIDE DEF Record
<1>5. /\ Len(Lines) \in Nat /\ DOMAIN Lines = 1..Len(Lines)
      /\ \A k \in 1..Len(Lines) : Lines[k] \in Record
    BY <1>2
<1> QED
    BY <1>4, <1>5

\* Reading one line keeps LoadInv.
LEMMA LineStep ==
    ASSUME LoadInv, argv \in Seq(STRING), ReadLine
    PROVE  LoadInv'
<1>1. /\ UNCHANGED inputs /\ files' = files /\ lib' = lib /\ pc = "file" /\ ~lib
      /\ i \in Nat \ {0}
    BY DEF LoadInv, ReadLine, inputs
<1>2. PICK len \in Nat : /\ len = Len(Lines) /\ DOMAIN Lines = 1..len
                         /\ \A k \in 1..len : Lines[k].key \in DOMAIN FieldOfKey
    BY <1>1, LinesOfFile
<1>3. DOMAIN FieldOfKey = {"port", "admin_port", "admin_timeout"}
    BY DEF FieldOfKey
<1>4. Plain' = Plain /\ PathChosen' = PathChosen /\ \A f \in Fields : ByFile(f)' = ByFile(f)
    BY <1>1, InputsDecide
<1>5. Plain => /\ cfg.config_path = PathChosen /\ Lines = files[PathChosen]
               /\ PathChosen \in DOMAIN files /\ FileRead
    BY <1>1 DEF LoadInv, PathInv, Lines, FileRead
<1>6. ASSUME Plain, NEW f \in Fields
      PROVE  /\ ByFile(f) = {k \in 1..len : FieldOfKey[Lines[k].key] = f /\ Valid(f, Lines[k].text)}
             /\ ByFile(f) \subseteq 1..len
             /\ cfg[f] = FileIn(f, LinesBefore(ByFile(f), i))
    BY <1>1, <1>2, <1>5, <1>6 DEF ByFile, ValidInFile, LoadInv, FieldInv
<1>7. CASE i <= len
    <2> DEFINE g == FieldOf(Lines[i].key)
               text == Lines[i].text
    <2>1. /\ cfg' = apply_value(cfg, g, text) /\ i' = i + 1 /\ pc' = "file"
        BY <1>1, <1>2, <1>7 DEF ReadLine
    <2>2. i \in 1..len /\ g = FieldOfKey[Lines[i].key] /\ g \in Fields
        BY <1>1, <1>2, <1>3, <1>7, KeysAreFields
    <2>3. cfg = [f \in Keys |-> cfg[f]]
        BY DEF LoadInv
    <2> HIDE DEF g, text
    <2>4. /\ cfg' = [f \in Keys |-> cfg'[f]] /\ cfg'["config_path"] = cfg["config_path"]
          /\ \A f \in Fields : cfg'[f] = IF f = g /\ Valid(f, text) THEN Number[text] ELSE cfg[f]
        BY <2>1, <2>2, <2>3, ValueApplied
    <2>5. ASSUME Plain, NEW f \in Fields PROVE FieldInv(f)'
        <3>1. i \in ByFile(f) <=> f = g /\ Valid(f, text)
            BY <1>6, <2>2, <2>5 DEF text
        <3>2. ByFile(f) \subseteq Nat
            BY <1>6, <2>5
        <3>3. CASE i \in ByFile(f)
            <4>1. cfg'[f] = Number[text]
                BY <2>4, <3>1, <3>3
            <4>2. LinesBefore(ByFile(f), i + 1) # {} /\ Max(LinesBefore(ByFile(f), i + 1)) = i
                BY <1>1, <3>2, <3>3, LineTaken
            <4>3. FileIn(f, LinesBefore(ByFile(f), i + 1)) = Number[text]
                BY <1>5, <2>5, <4>2 DEF FileIn, text
            <4> QED
                BY <1>1, <1>4, <2>1, <4>1, <4>3 DEF FieldInv, FileIn, LinesBefore
        <3>4. CASE i \notin ByFile(f)
            <4>1. cfg'[f] = cfg[f]
                BY <2>4, <3>1, <3>4
            <4>2. LinesBefore(ByFile(f), i + 1) = LinesBefore(ByFile(f), i)
                BY <1>1, <3>2, <3>4, LineTaken
            <4>3. cfg'[f] = FileIn(f, LinesBefore(ByFile(f), i + 1))
                BY <1>6, <2>5, <4>1, <4>2
            <4> QED
                BY <1>1, <1>4, <2>1, <4>3 DEF FieldInv, FileIn, LinesBefore
        <3> QED
            BY <3>3, <3>4
    <2>6. Plain => PathInv'
        BY <1>4, <1>5, <2>1, <2>4 DEF PathInv
    <2> QED
        BY <1>1, <1>4, <2>1, <2>4, <2>5, <2>6 DEF LoadInv
<1>8. CASE ~(i <= len)
    <2>1. i' = 1 /\ pc' = "env" /\ cfg' = cfg
        BY <1>2, <1>8 DEF ReadLine
    <2>2. ASSUME Plain, NEW f \in Fields PROVE FieldInv(f)'
        <3>1. LinesBefore(ByFile(f), i) = ByFile(f)
            <4>1. i > len /\ i \in Nat
                BY <1>1, <1>8
            <4>2. ByFile(f) \subseteq 1..len
                BY <1>6, <2>2
            <4> QED
                BY <4>1, <4>2, WholeFile
        <3>2. cfg'[f] = FileIn(f, ByFile(f))
            BY <1>6, <2>1, <2>2, <3>1
        <3> QED
            BY <1>1, <1>4, <2>1, <3>2 DEF FieldInv, FileIn
    <2>3. Plain => PathInv'
        BY <1>4, <1>5, <2>1 DEF PathInv
    <2> QED
        BY <1>1, <1>4, <2>1, <2>2, <2>3 DEF LoadInv
<1> QED
    BY <1>7, <1>8

\* The library reads the file at once.  A setting occurs once, so the largest
\* value given is the only one, and the last.
LEMMA LibraryStep ==
    ASSUME LoadInv, argv \in Seq(STRING), ReadWithLibconfig
    PROVE  LoadInv'
<1> DEFINE Given(f) == {Number[Lines[k].text] :
                          k \in {m \in Settings(Lines) : FieldOfKey[Lines[m].key] = f}}
           Taken(f) == {n \in Given(f) : libconfig_takes(f, n)}
<1>1. /\ UNCHANGED inputs /\ files' = files /\ lib' = lib /\ pc = "file" /\ lib /\ pc' = "env"
      /\ DOMAIN cfg = Keys
    BY DEF LoadInv, ReadWithLibconfig, inputs
<1>2. cfg' = IF config_read_file(Lines)
             THEN [f \in Keys |->
                     IF f \in Fields /\ Taken(f) # {} THEN Max(Taken(f)) ELSE cfg[f]]
             ELSE cfg
    BY <1>1 DEF ReadWithLibconfig
<1> HIDE DEF Taken
<1>3. /\ cfg' = [f \in Keys |-> cfg'[f]]
      /\ cfg'.config_path = cfg.config_path
    <2>1. "config_path" \in Keys /\ "config_path" \notin Fields
        BY DEF Keys, Fields, Ports
    <2>2. cfg = [f \in Keys |-> cfg[f]]
        BY DEF LoadInv
    <2> QED
        BY <1>2, <2>1, <2>2
<1>4. PICK len \in Nat : /\ len = Len(Lines) /\ DOMAIN Lines = 1..len
                         /\ \A k \in 1..len : Lines[k].key \in DOMAIN FieldOfKey
    BY <1>1, LinesOfFile
<1>5. Plain' = Plain /\ PathChosen' = PathChosen /\ \A f \in Fields : ByFile(f)' = ByFile(f)
    BY <1>1, InputsDecide
<1>6. ASSUME Plain
      PROVE  /\ cfg.config_path = PathChosen /\ Lines = files[PathChosen]
             /\ PathChosen \in DOMAIN files /\ FileRead = config_read_file(Lines)
             /\ Settings(Lines) = 1..len
    <2>1. /\ cfg.config_path = PathChosen /\ Lines = files[PathChosen]
          /\ PathChosen \in DOMAIN files
        BY <1>1, <1>6 DEF LoadInv, PathInv, Lines
    <2>2. \A k \in 1..len : ~Lines[k].commented
        BY <1>4, <1>6, <2>1 DEF Plain
    <2>3. Settings(Lines) = 1..len
        BY <1>4, <2>2 DEF Settings
    <2> QED
        BY <1>1, <2>1, <2>3 DEF FileRead, config_read_file
<1>7. ASSUME Plain, NEW f \in Fields PROVE cfg'[f] = FileIn(f, ByFile(f))
    <2>1. f \in Keys /\ cfg[f] = cfg_defaults[f]
        BY <1>1, <1>7 DEF Keys, LoadInv, FieldInv, FileIn
    <2>2. CASE ~config_read_file(Lines)
        BY <1>2, <1>6, <1>7, <2>1, <2>2 DEF ByFile, FileIn
    <2>3. CASE config_read_file(Lines)
        <3>1. \A k \in 1..len : Lines[k].text \in DOMAIN Number /\ Number[Lines[k].text] \in Int
            BY <1>6, <1>7, <2>3, ConfigAssumption DEF config_read_file
        <3>2. \A k, m \in 1..len : Lines[k].key = Lines[m].key => k = m
            BY <1>6, <1>7, <2>3 DEF config_read_file
        <3>3. \A k \in 1..len : libconfig_takes(f, Number[Lines[k].text])
                                  <=> ValidInFile(f, Lines[k].text)
            <4> TAKE k \in 1..len
            <4>1. PICK n \in Int : n = Number[Lines[k].text]
                BY <3>1
            <4> QED
                BY <1>1, <3>1, <4>1 DEF libconfig_takes, ValidInFile, Valid
        <3>4. ByFile(f) = {k \in 1..len : /\ FieldOfKey[Lines[k].key] = f
                                          /\ ValidInFile(f, Lines[k].text)}
            BY <1>4, <1>6, <1>7, <2>3 DEF ByFile
        <3>5. \A n : n \in Taken(f) <=> \E k \in ByFile(f) : n = Number[Lines[k].text]
            <4>1. \A n : n \in Taken(f) <=>
                           \E k \in 1..len : /\ FieldOfKey[Lines[k].key] = f
                                             /\ n = Number[Lines[k].text]
                                             /\ libconfig_takes(f, n)
                BY <1>6, <1>7 DEF Taken
            <4> QED
                BY <3>3, <3>4, <4>1
        <3>6. cfg'[f] = IF Taken(f) # {} THEN Max(Taken(f)) ELSE cfg[f]
            BY <1>2, <2>1, <2>3
        <3>7. CASE ByFile(f) = {}
            <4>1. Taken(f) = {}
                BY <3>5, <3>7
            <4> QED
                BY <2>1, <3>6, <3>7, <4>1 DEF FileIn
        <3>8. ASSUME NEW k \in ByFile(f) PROVE cfg'[f] = FileIn(f, ByFile(f))
            <4>1. k \in 1..len /\ FieldOfKey[Lines[k].key] = f
                BY <3>4, <3>8
            <4>2. ASSUME NEW m \in ByFile(f) PROVE m = k
                <5>1. m \in 1..len /\ FieldOfKey[Lines[m].key] = f
                    BY <3>4, <4>2
                <5>2. Lines[m].key = Lines[k].key
                    <6>1. DOMAIN FieldOfKey = {"port", "admin_port", "admin_timeout"}
                        BY DEF FieldOfKey
                    <6>2. /\ Lines[k].key \in {"port", "admin_port", "admin_timeout"}
                          /\ Lines[m].key \in {"port", "admin_port", "admin_timeout"}
                        BY <1>4, <4>1, <5>1, <6>1
                    <6> QED
                        BY <4>1, <5>1, <6>2, KeysAreFields
                <5> QED
                    BY <3>2, <4>1, <5>1, <5>2
            <4>3. ByFile(f) = {k}
                BY <3>8, <4>2
            <4>4. Taken(f) = {Number[Lines[k].text]}
                BY <3>5, <4>3
            <4>5. Max(ByFile(f)) = k
                BY <4>1, <4>3, MaxIs
            <4>6. Max(Taken(f)) = Number[Lines[k].text]
                <5>1. PICK n \in Int : n = Number[Lines[k].text]
                    BY <3>1, <4>1
                <5>2. Taken(f) = {n} /\ n >= n
                    BY <4>4, <5>1
                <5> QED
                    BY <5>1, <5>2, MaxIs
            <4> QED
                BY <1>6, <1>7, <3>6, <4>3, <4>4, <4>5, <4>6 DEF FileIn
        <3> QED
            BY <3>7, <3>8
    <2> QED
        BY <2>2, <2>3
<1>8. ASSUME Plain, NEW f \in Fields PROVE FieldInv(f)'
    BY <1>1, <1>5, <1>7, <1>8 DEF FieldInv, FileIn
<1>9. Plain => PathInv'
    BY <1>1, <1>3, <1>5, <1>6 DEF PathInv
<1> QED
    BY <1>1, <1>3, <1>5, <1>8, <1>9 DEF LoadInv

\* Of the variables one at most is for a field.
LEMMA VariablesOfField ==
    ASSUME NEW f \in Fields, NEW v \in DOMAIN FieldOfVariable, FieldOfVariable[v] = f
    PROVE  IF v \in DOMAIN env /\ Valid(f, env[v])
           THEN EnvIn(f) = Number[env[v]] ELSE EnvIn(f) = FileIn(f, ByFile(f))
<1>1. \A w \in DOMAIN FieldOfVariable : FieldOfVariable[w] = f => w = v
    BY DEF FieldOfVariable
<1>2. ByEnv(f) = IF v \in DOMAIN env /\ Valid(f, env[v]) THEN {v} ELSE {}
    BY <1>1 DEF ByEnv
<1>3. (CHOOSE w \in {v} : TRUE) = v
    OBVIOUS
<1> QED
    BY <1>2, <1>3 DEF EnvIn

\* The environment keeps LoadInv, whatever the order of its variables.
LEMMA EnvStep ==
    ASSUME LoadInv, ScanInv, argv \in Seq(STRING), cfg_apply_env
    PROVE  LoadInv'
<1> DEFINE Apply(c, v) ==
             IF v \in DOMAIN env THEN apply_value(c, FieldOfVariable[v], env[v]) ELSE c
           c1 == Apply(cfg, "SERVER_PORT")
           c2 == Apply(c1, "ADMIN_PORT")
           c3 == Apply(c2, "ADMIN_TIMEOUT")
           Gives(v) == v \in DOMAIN env /\ Valid(FieldOfVariable[v], env[v])
<1>1. /\ UNCHANGED inputs /\ files' = files /\ lib' = lib /\ pc = "env" /\ pc' = "args"
      /\ cfg' = c3 /\ i' = 1
    BY DEF cfg_apply_env, inputs, ScanInv
<1>2. /\ DOMAIN FieldOfVariable = {"SERVER_PORT", "ADMIN_PORT", "ADMIN_TIMEOUT"}
      /\ FieldOfVariable["SERVER_PORT"] = "server_port"
      /\ FieldOfVariable["ADMIN_PORT"] = "admin_port"
      /\ FieldOfVariable["ADMIN_TIMEOUT"] = "admin_timeout_sec"
      /\ Fields = {"server_port", "admin_port", "admin_timeout_sec"}
    BY DEF FieldOfVariable, Fields, Ports
<1>3. ASSUME NEW c, c = [f \in Keys |-> c[f]], NEW v \in DOMAIN FieldOfVariable
      PROVE  /\ Apply(c, v) = [f \in Keys |-> Apply(c, v)[f]]
             /\ Apply(c, v)["config_path"] = c["config_path"]
             /\ \A f \in Fields :
                  Apply(c, v)[f] =
                    IF f = FieldOfVariable[v] /\ Gives(v) THEN Number[env[v]] ELSE c[f]
    <2>1. CASE v \in DOMAIN env
        <3>1. FieldOfVariable[v] \in Fields
            BY <1>2, <1>3
        <3>2. Apply(c, v) = apply_value(c, FieldOfVariable[v], env[v])
            BY <2>1
        <3> HIDE DEF Apply
        <3> QED
            BY <1>3, <2>1, <3>1, <3>2, ValueApplied
    <2>2. CASE v \notin DOMAIN env
        BY <1>3, <2>2
    <2> QED
        BY <2>1, <2>2
<1> HIDE DEF Apply, Gives
<1>4. cfg = [f \in Keys |-> cfg[f]]
    BY DEF LoadInv
<1>5. /\ c1 = [f \in Keys |-> c1[f]] /\ c1["config_path"] = cfg["config_path"]
      /\ \A f \in Fields :
           c1[f] = IF f = "server_port" /\ Gives("SERVER_PORT")
                   THEN Number[env["SERVER_PORT"]] ELSE cfg[f]
    BY <1>2, <1>3, <1>4
<1> HIDE DEF c1
<1>6. /\ c2 = [f \in Keys |-> c2[f]] /\ c2["config_path"] = c1["config_path"]
      /\ \A f \in Fields :
           c2[f] = IF f = "admin_port" /\ Gives("ADMIN_PORT")
                   THEN Number[env["ADMIN_PORT"]] ELSE c1[f]
    BY <1>2, <1>3, <1>5
<1> HIDE DEF c2
<1>7. /\ c3 = [f \in Keys |-> c3[f]] /\ c3["config_path"] = c2["config_path"]
      /\ \A f \in Fields :
           c3[f] = IF f = "admin_timeout_sec" /\ Gives("ADMIN_TIMEOUT")
                   THEN Number[env["ADMIN_TIMEOUT"]] ELSE c2[f]
    BY <1>2, <1>3, <1>6
<1> HIDE DEF c3
<1>8. ASSUME NEW v \in DOMAIN FieldOfVariable
      PROVE  /\ FieldOfVariable[v] \in Fields
             /\ c3[FieldOfVariable[v]] =
                  IF Gives(v) THEN Number[env[v]] ELSE cfg[FieldOfVariable[v]]
    <2>1. CASE v = "SERVER_PORT"
        BY <1>2, <1>5, <1>6, <1>7, <2>1
    <2>2. CASE v = "ADMIN_PORT"
        BY <1>2, <1>5, <1>6, <1>7, <2>2
    <2>3. CASE v = "ADMIN_TIMEOUT"
        BY <1>2, <1>5, <1>6, <1>7, <2>3
    <2> QED
        BY <1>2, <2>1, <2>2, <2>3
<1>9. ASSUME Plain, NEW f \in Fields PROVE cfg'[f] = EnvIn(f)
    <2>1. PICK v \in DOMAIN FieldOfVariable : FieldOfVariable[v] = f
        BY <1>2
    <2>2. c3[f] = IF Gives(v) THEN Number[env[v]] ELSE cfg[f]
        BY <1>8, <2>1
    <2>3. cfg[f] = FileIn(f, ByFile(f))
        BY <1>1, <1>9 DEF LoadInv, FieldInv
    <2>4. IF Gives(v) THEN EnvIn(f) = Number[env[v]] ELSE EnvIn(f) = FileIn(f, ByFile(f))
        BY <2>1, VariablesOfField DEF Gives
    <2> QED
        BY <1>1, <2>2, <2>3, <2>4
<1>10. Plain' = Plain /\ PathChosen' = PathChosen /\ Pairs' = Pairs
       /\ \A f \in Fields : /\ ByFile(f)' = ByFile(f) /\ ByEnv(f)' = ByEnv(f)
                            /\ ByArgs(f)' = ByArgs(f)
    BY <1>1, InputsDecide
<1>11. ASSUME Plain, NEW f \in Fields PROVE FieldInv(f)'
    <2>1. OptionsBefore(ByArgs(f), 1) = {}
        BY WholeScan DEF ByArgs
    <2>2. OptionsBefore(ByArgs(f)', i') = {}
        BY <1>1, <1>10, <2>1
    <2>3. EnvIn(f)' = EnvIn(f)
        <3>1. /\ env' = env /\ files' = files /\ PathChosen' = PathChosen
              /\ ByEnv(f)' = ByEnv(f) /\ ByFile(f)' = ByFile(f)
            BY <1>1, <1>10 DEF inputs
        <3>2. FileIn(f, ByFile(f))' = FileIn(f, ByFile(f))
            BY <3>1 DEF FileIn
        <3> QED
            BY <3>1, <3>2 DEF EnvIn
    <2> QED
        BY <1>1, <1>9, <1>11, <2>2, <2>3 DEF FieldInv, ArgsIn
<1>12. Plain => PathInv'
    BY <1>1, <1>5, <1>6, <1>7, <1>10 DEF LoadInv, PathInv
<1>13. cfg' = [f \in Keys |-> cfg'[f]]
    BY <1>1, <1>7
<1> QED
    BY <1>1, <1>10, <1>11, <1>12, <1>13 DEF LoadInv

\* An option keeps LoadInv: if it has a valid value its field takes that, and its
\* place becomes the last one that counts for the field.
LEMMA ArgStep ==
    ASSUME LoadInv, ScanInv, argv \in Seq(STRING), cfg_apply_args
    PROVE  LoadInv'
<1>1. /\ UNCHANGED inputs /\ files' = files /\ lib' = lib /\ argv' = argv /\ env' = env
      /\ pc = "args" /\ AtOption /\ pc' \in {"args", "done"}
    BY DEF cfg_apply_args, inputs, ScanInv, Return, misused
<1>2. PICK len \in Nat, d \in Nat, m \in 0..1 :
        len = Len(argv) /\ d = len \div 2 /\ m = len % 2 /\ len = 2 * d + m
    BY Places
<1>3. PICK n \in Nat : i = 2 * n + 1
    BY <1>1, <1>2 DEF AtOption
<1>4. cfg = [f \in Keys |-> cfg[f]]
    BY DEF LoadInv
<1>5. /\ Plain' = Plain /\ PathChosen' = PathChosen /\ Pairs' = Pairs
      /\ \A f \in Fields : /\ ByFile(f)' = ByFile(f) /\ ByEnv(f)' = ByEnv(f)
                           /\ ByArgs(f)' = ByArgs(f) /\ InForce(f)' = InForce(f)
    BY <1>1, InputsDecide
<1>6. ASSUME NEW f \in Fields
      PROVE  /\ \A S : ArgsIn(f, S)' = ArgsIn(f, S)
             /\ ByArgs(f) \subseteq Nat
             /\ n + 1 \in ByArgs(f) <=>
                  /\ i < len /\ argv[i] \in DOMAIN FieldOfOption
                  /\ FieldOfOption[argv[i]] = f /\ Valid(f, argv[i + 1])
             /\ Plain => cfg[f] = ArgsIn(f, OptionsBefore(ByArgs(f), 2 * n + 1))
    <2>1. EnvIn(f)' = EnvIn(f)
        <3>1. ByEnv(f)' = ByEnv(f) /\ ByFile(f)' = ByFile(f)
            BY <1>5, <1>6
        <3>2. FileIn(f, ByFile(f))' = FileIn(f, ByFile(f))
            BY <1>1, <1>5, <3>1 DEF FileIn
        <3> QED
            BY <1>1, <3>1, <3>2 DEF EnvIn
    <2>2. \A S : ArgsIn(f, S)' = ArgsIn(f, S)
        BY <1>5, <2>1 DEF ArgsIn
    <2>3. ByArgs(f) \subseteq Nat
        BY <1>2, WholeScan DEF ByArgs
    <2>4. n + 1 \in 1..d <=> i < len
        BY <1>2, <1>3
    <2>5. 2 * (n + 1) - 1 = i /\ 2 * (n + 1) = i + 1
        BY <1>3
    <2>6. DOMAIN Pairs = 1..d
        BY <1>2 DEF Pairs
    <2>7. n + 1 \in 1..d => Pairs[n + 1].option = argv[i] /\ Pairs[n + 1].text = argv[i + 1]
        BY <1>2, <2>5 DEF Pairs, Pair
    <2>8. n + 1 \in ByArgs(f) <=>
            /\ i < len /\ argv[i] \in DOMAIN FieldOfOption
            /\ FieldOfOption[argv[i]] = f /\ Valid(f, argv[i + 1])
        BY <2>4, <2>6, <2>7 DEF ByArgs
    <2>9. Plain => cfg[f] = ArgsIn(f, OptionsBefore(ByArgs(f), 2 * n + 1))
        BY <1>1, <1>3, <1>6 DEF LoadInv, FieldInv
    <2> QED
        BY <2>2, <2>3, <2>8, <2>9
<1>7. Plain => cfg.config_path = PathChosen
    BY <1>1 DEF LoadInv, PathInv
<1>8. CASE i > Len(argv) /\ Return(0)
    <2>1. cfg' = cfg /\ pc' = "done"
        BY <1>8 DEF Return
    <2>2. ASSUME Plain, NEW f \in Fields PROVE cfg[f] = InForce(f)
        <3>1. OptionsBefore(ByArgs(f), i) = ByArgs(f)
            <4>1. i \in Nat /\ ByArgs(f) \subseteq DOMAIN Pairs
                BY <1>3 DEF ByArgs
            <4> QED
                BY <1>8, <4>1, WholeScan
        <3>2. cfg[f] = ArgsIn(f, ByArgs(f))
            BY <1>3, <1>6, <2>2, <3>1
        <3> QED
            BY <3>2 DEF ArgsIn, EnvIn, FileIn, InForce
    <2>3. Plain => PathInv' /\ \A f \in Fields : FieldInv(f)'
        BY <1>5, <1>7, <2>1, <2>2 DEF PathInv, FieldInv
    <2> QED
        BY <1>1, <1>4, <1>5, <2>1, <2>3 DEF LoadInv
<1>9. CASE pc' = "done" /\ status' # 0 /\ cfg' = cfg
    <2>1. Plain => PathInv' /\ \A f \in Fields : FieldInv(f)'
        BY <1>5, <1>7, <1>9 DEF PathInv, FieldInv
    <2> QED
        BY <1>1, <1>4, <1>5, <1>9, <2>1 DEF LoadInv
<1>10. ASSUME i' = i + 2, pc' = "args", cfg' = [f \in Keys |-> cfg'[f]],
              cfg'["config_path"] = cfg["config_path"],
              \A f \in Fields : cfg'[f] = IF n + 1 \in ByArgs(f)
                                          THEN Number[Pairs[n + 1].text] ELSE cfg[f]
       PROVE  LoadInv'
    <2>1. i' = 2 * n + 3
        BY <1>3, <1>10
    <2>2. ASSUME Plain, NEW f \in Fields
          PROVE  cfg'[f] = ArgsIn(f, OptionsBefore(ByArgs(f), 2 * n + 3))
        <3>1. CASE n + 1 \in ByArgs(f)
            <4>1. /\ OptionsBefore(ByArgs(f), 2 * n + 3) # {}
                  /\ Max(OptionsBefore(ByArgs(f), 2 * n + 3)) = n + 1
                BY <1>6, <3>1, OptionTaken
            <4> QED
                BY <1>10, <3>1, <4>1 DEF ArgsIn
        <3>2. CASE n + 1 \notin ByArgs(f)
            <4>1. OptionsBefore(ByArgs(f), 2 * n + 3) = OptionsBefore(ByArgs(f), 2 * n + 1)
                BY <1>6, <3>2, OptionPassed
            <4> QED
                BY <1>6, <1>10, <2>2, <3>2, <4>1
        <3> QED
            BY <3>1, <3>2
    <2>3. ASSUME Plain, NEW f \in Fields PROVE FieldInv(f)'
        <3>1. ByArgs(f)' = ByArgs(f) /\ EnvIn(f)' = EnvIn(f)
            <4>1. ByArgs(f)' = ByArgs(f) /\ ByEnv(f)' = ByEnv(f) /\ ByFile(f)' = ByFile(f)
                BY <1>5
            <4>2. FileIn(f, ByFile(f))' = FileIn(f, ByFile(f))
                BY <1>1, <1>5, <4>1 DEF FileIn
            <4> QED
                BY <1>1, <4>1, <4>2 DEF EnvIn
        <3> QED
            BY <1>5, <1>10, <2>1, <2>2, <2>3, <3>1 DEF FieldInv, ArgsIn, OptionsBefore
    <2>4. Plain => PathInv'
        BY <1>5, <1>7, <1>10 DEF PathInv
    <2> QED
        BY <1>1, <1>5, <1>10, <2>3, <2>4 DEF LoadInv
<1>11. CASE i <= Len(argv) /\ argv[i] = "-c" /\ i' = i + 2 /\ UNCHANGED <<pc, status, cfg>>
    <2>1. \A f \in Fields : n + 1 \notin ByArgs(f)
        BY <1>6, <1>11, Options
    <2> QED
        BY <1>1, <1>4, <1>10, <1>11, <2>1
<1>12. CASE /\ i < Len(argv) /\ argv[i] \in DOMAIN FieldOfOption
            /\ cfg' = apply_value(cfg, FieldOfOption[argv[i]], argv[i + 1])
            /\ i' = i + 2 /\ UNCHANGED <<pc, status>>
    <2>1. FieldOfOption[argv[i]] \in Fields
        BY <1>12 DEF FieldOfOption, Fields, Ports
    <2>2. /\ cfg' = [f \in Keys |-> cfg'[f]] /\ cfg'["config_path"] = cfg["config_path"]
          /\ \A f \in Fields :
               cfg'[f] = IF f = FieldOfOption[argv[i]] /\ Valid(f, argv[i + 1])
                         THEN Number[argv[i + 1]] ELSE cfg[f]
        BY <1>4, <1>12, <2>1, ValueApplied
    <2>3. Pairs[n + 1].text = argv[i + 1]
        <3>1. n + 1 \in 1..d /\ 2 * (n + 1) = i + 1
            BY <1>2, <1>3, <1>12
        <3> QED
            BY <1>2, <3>1 DEF Pairs, Pair
    <2>4. \A f \in Fields : cfg'[f] = IF n + 1 \in ByArgs(f)
                                      THEN Number[Pairs[n + 1].text] ELSE cfg[f]
        BY <1>2, <1>6, <1>12, <2>2, <2>3
    <2> QED
        BY <1>1, <1>10, <1>12, <2>2, <2>4
<1> QED
    BY <1>1, <1>8, <1>9, <1>11, <1>12 DEF cfg_apply_args, Return, misused

\* Every step keeps LoadInv.
LEMMA StepLoadInv == ASSUME LoadInv, ScanInv, [Next]_vars PROVE LoadInv'
<1>1. argv \in Seq(STRING)
    BY ConfigAssumption DEF ScanInv
<1>2. CASE UNCHANGED vars
    <2>1. UNCHANGED inputs /\ pc' = pc /\ i' = i /\ cfg' = cfg /\ status' = status
        BY <1>2 DEF vars
    <2>2. /\ Plain' = Plain /\ PathChosen' = PathChosen /\ Pairs' = Pairs
          /\ PathsGiven' = PathsGiven /\ PathOfEnv' = PathOfEnv
          /\ \A f \in Fields : /\ ByFile(f)' = ByFile(f) /\ ByEnv(f)' = ByEnv(f)
                               /\ ByArgs(f)' = ByArgs(f) /\ InForce(f)' = InForce(f)
        BY <2>1, InputsDecide
    <2>3. files' = files /\ lib' = lib /\ env' = env
        BY <2>1 DEF inputs
    <2>4. PathInv' = PathInv
        BY <2>1, <2>2 DEF PathInv, PathIn, OptionsBefore
    <2>5. ASSUME NEW f \in Fields, FieldInv(f) PROVE FieldInv(f)'
        <3>1. /\ ByFile(f)' = ByFile(f) /\ ByEnv(f)' = ByEnv(f)
              /\ ByArgs(f)' = ByArgs(f) /\ InForce(f)' = InForce(f)
            BY <2>2
        <3>2. FileIn(f, ByFile(f))' = FileIn(f, ByFile(f))
            BY <2>2, <2>3, <3>1 DEF FileIn
        <3>3. EnvIn(f)' = EnvIn(f)
            BY <2>3, <3>1, <3>2 DEF EnvIn
        <3>4. pc = "file" =>
                cfg[f]' = FileIn(f, IF lib THEN {} ELSE LinesBefore(ByFile(f), i))'
            BY <2>1, <2>2, <2>3, <2>5, <3>1 DEF FieldInv, FileIn, LinesBefore
        <3>5. pc = "args" => cfg[f]' = ArgsIn(f, OptionsBefore(ByArgs(f), i))'
            BY <2>1, <2>2, <2>5, <3>1, <3>3 DEF FieldInv, ArgsIn, OptionsBefore
        <3>6. pc = "env" => cfg[f]' = FileIn(f, ByFile(f))'
            BY <2>1, <2>5, <3>2 DEF FieldInv
        <3> QED
            BY <2>1, <2>5, <3>1, <3>4, <3>5, <3>6 DEF FieldInv
    <2> QED
        BY <2>1, <2>2, <2>3, <2>4, <2>5 DEF LoadInv
<1> QED
    BY <1>1, <1>2, PathStep, OpenStep, LibraryStep, LineStep, EnvStep, ArgStep DEF Next

\* At the start no place has been read.
LEMMA InitLoadInv == ASSUME Init PROVE LoadInv
<1>1. argv \in Seq(STRING) /\ pc = "path" /\ i = 1
    BY ConfigAssumption DEF Init
<1>2. cfg = [cfg_defaults EXCEPT !.config_path = PathOfEnv]
    <2>1. cfg_defaults.config_path = "config.cfg"
        BY DEF cfg_defaults
    <2> QED
        BY <2>1 DEF Init, PathOfEnv
<1>3. /\ cfg = [f \in Keys |-> cfg[f]] /\ cfg.config_path = PathOfEnv
      /\ \A f \in Fields : cfg[f] = cfg_defaults[f]
    BY <1>2 DEF cfg_defaults, Keys, Fields, Ports
<1>4. OptionsBefore(PathsGiven, 1) = {}
    BY <1>1, WholeScan DEF PathsGiven
<1>5. PathInv /\ \A f \in Fields : FieldInv(f)
    BY <1>1, <1>3, <1>4 DEF PathInv, PathIn, FieldInv
<1>6. files \in FileSystems /\ lib \in BOOLEAN
    BY DEF Init
<1> QED
    BY <1>1, <1>3, <1>5, <1>6 DEF LoadInv

\* The server that starts has, in every field, the value of the source of the
\* highest priority that gives a valid one: defaults, file, environment,
\* arguments (cfg_load).
THEOREM PrecedenceIsKept == Spec => []PrecedenceKept
<1>1. Init => LoadInv /\ ScanInv
    BY InitLoadInv DEF Init, ScanInv, OnlyOptionsStart
<1>2. LoadInv /\ ScanInv /\ [Next]_vars => (LoadInv /\ ScanInv)'
    BY StepLoadInv, StepScanInv
<1>3. LoadInv => PrecedenceKept
    <2> SUFFICES ASSUME LoadInv, pc = "done", status = 0, Plain
                 PROVE  cfg = [f \in DOMAIN cfg |-> IF f \in Fields THEN InForce(f)
                                                    ELSE PathChosen]
        BY DEF PrecedenceKept
    <2>1. cfg = [f \in Keys |-> cfg[f]]
        BY DEF LoadInv
    <2>2. \A f \in Fields : cfg[f] = InForce(f)
        BY DEF LoadInv, FieldInv
    <2>3. cfg.config_path = PathChosen
        BY DEF LoadInv, PathInv
    <2>4. \A f \in Keys : f \in Fields \/ f = "config_path"
        BY DEF Keys
    <2> QED
        BY <2>1, <2>2, <2>3, <2>4
<1> QED
    BY <1>1, <1>2, <1>3, PTL DEF Spec

=============================================================================
