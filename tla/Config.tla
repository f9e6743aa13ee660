------------------------------- MODULE Config -------------------------------
(***************************************************************************)
(* How the server finds its configuration (cfg_load): the defaults, then   *)
(* the file, the environment and the arguments, read one line and one      *)
(* argument at a time, each value checked before it is taken.  The         *)
(* arguments are scanned twice, once for the path of the file.  Texts are  *)
(* strings, of which Number knows the numeric ones; a long option is       *)
(* written as its short form.                                              *)
(***************************************************************************)
EXTENDS Integers, Sequences, FiniteSetsExt

CONSTANTS
    Number,     \* what strtol makes of the texts that are numbers
    Argvs,      \* the arguments of a run, sequences of texts
    Envs,       \* its environment: a text for each variable that is set
    FileSystems \* the files it can read: sequences of lines

ASSUME ConfigAssumption ==
    /\ \A n \in DOMAIN Number : Number[n] \in Int
    /\ Argvs \subseteq Seq(STRING)
    /\ \A fs \in FileSystems : \A path \in DOMAIN fs :
         fs[path] \in Seq([key : {"port", "admin_port", "admin_timeout"}, text : STRING,
                          commented : BOOLEAN])

VARIABLES argv, env, files,
          lib,          \* built with HAVE_LIBCONFIG
          pc, i, cfg, status

inputs == <<argv, env, files, lib>>
vars == <<inputs, pc, i, cfg, status>>

Ports == {"server_port", "admin_port"}
Fields == Ports \union {"admin_timeout_sec"}

cfg_defaults == [server_port |-> 18081, admin_port |-> 18082, admin_timeout_sec |-> 60,
                 config_path |-> "config.cfg"]

Init ==
    /\ argv \in Argvs /\ env \in Envs /\ files \in FileSystems /\ lib \in BOOLEAN
    /\ pc = "path" /\ i = 1 /\ status = 0
    /\ cfg = [cfg_defaults EXCEPT !.config_path =
                IF "CONFIG_PATH" \in DOMAIN env /\ env["CONFIG_PATH"] # ""
                THEN env["CONFIG_PATH"] ELSE @]

-----------------------------------------------------------------------------

Highest(f) == IF f \in Ports THEN 65535 ELSE 86400

parse_number(text, max) == text \in DOMAIN Number /\ Number[text] \in 1..max

\* apply_port_value and apply_timeout_value: a value that is not valid is ignored.
apply_value(c, f, text) ==
    IF parse_number(text, Highest(f)) THEN [c EXCEPT ![f] = Number[text]] ELSE c

\* cfg_read_config_path, one argument: the last -c that has a value.
cfg_read_config_path ==
    /\ pc = "path" /\ i <= Len(argv)
    /\ IF argv[i] = "-c" /\ i < Len(argv)
       THEN cfg' = [cfg EXCEPT !.config_path = argv[i + 1]] /\ i' = i + 2
       ELSE cfg' = cfg /\ i' = i + 1
    /\ UNCHANGED <<inputs, pc, status>>

Readable == cfg.config_path \in DOMAIN files
Lines == files[cfg.config_path]

OpenFile ==
    /\ pc = "path" /\ i > Len(argv) /\ i' = 1
    /\ pc' = IF Readable THEN "file" ELSE "env"
    /\ UNCHANGED <<inputs, cfg, status>>

FieldOfKey == [port |-> "server_port", admin_port |-> "admin_port",
               admin_timeout |-> "admin_timeout_sec"]
Settings(lines) == {k \in DOMAIN lines : ~lines[k].commented}

\* The library's part, as cfg_load_file uses it: a file with a text that is no
\* value, or with a setting twice, is refused as a whole.
config_read_file(lines) ==
    /\ \A k \in Settings(lines) : lines[k].text \in DOMAIN Number
    /\ \A k, m \in Settings(lines) : lines[k].key = lines[m].key => k = m

\* The timeout has no upper limit here.
libconfig_takes(f, n) == n > 0 /\ (f \in Ports => n <= 65535)

ReadWithLibconfig ==
    /\ pc = "file" /\ lib /\ pc' = "env"
    /\ LET Given(f) == {Number[Lines[k].text] :
                          k \in {m \in Settings(Lines) : FieldOfKey[Lines[m].key] = f}}
           Taken(f) == {n \in Given(f) : libconfig_takes(f, n)}
       IN  cfg' = IF config_read_file(Lines)
                  THEN [f \in DOMAIN cfg |->
                          IF f \in Fields /\ Taken(f) # {} THEN Max(Taken(f)) ELSE cfg[f]]
                  ELSE cfg
    /\ UNCHANGED <<inputs, i, status>>

\* The words that strstr finds in a line; it looks at comments too.
Found(key) == IF key = "admin_port" THEN {"admin_port", "port"} ELSE {key}

\* Mutant: the shorter word is tried first.
FieldOf_PortFirst(key) ==
    CASE "port" \in Found(key) -> "server_port"
      [] "admin_port" \in Found(key) -> "admin_port"
      [] OTHER -> "admin_timeout_sec"

FieldOf(key) ==
    IF "admin_port" \in Found(key) THEN "admin_port"
    ELSE IF "admin_timeout" \in Found(key) THEN "admin_timeout_sec" ELSE "server_port"

\* The fallback parser, one line.
ReadLine ==
    /\ pc = "file" /\ ~lib
    /\ IF i <= Len(Lines)
       THEN /\ cfg' = apply_value(cfg, FieldOf(Lines[i].key), Lines[i].text)
            /\ i' = i + 1 /\ pc' = pc
       ELSE i' = 1 /\ pc' = "env" /\ cfg' = cfg
    /\ UNCHANGED <<inputs, status>>

FieldOfVariable == [SERVER_PORT |-> "server_port", ADMIN_PORT |-> "admin_port",
                    ADMIN_TIMEOUT |-> "admin_timeout_sec"]

cfg_apply_env ==
    LET Apply(c, v) == IF v \in DOMAIN env THEN apply_value(c, FieldOfVariable[v], env[v]) ELSE c
    IN  /\ pc = "env" /\ pc' = "args"
        /\ cfg' = Apply(Apply(Apply(cfg, "SERVER_PORT"), "ADMIN_PORT"), "ADMIN_TIMEOUT")
        /\ UNCHANGED <<inputs, i, status>>

FieldOfOption ==
    [o \in {"-p", "-a", "-t"} |->
       CASE o = "-p" -> "server_port"
         [] o = "-a" -> "admin_port"
         [] o = "-t" -> "admin_timeout_sec"]

\* main goes on only if the status is 0.
Return(s) == pc' = "done" /\ status' = s /\ UNCHANGED <<i, cfg>>

\* Mutant: an argument that is not understood is skipped.
misused_Skipped == i' = i + 1 /\ UNCHANGED <<pc, status, cfg>>

misused == Return(-1)

\* cfg_apply_args, one argument.
cfg_apply_args ==
    /\ pc = "args"
    /\ \/ i > Len(argv) /\ Return(0)
       \/ i <= Len(argv) /\ argv[i] = "-h" /\ Return(1)
       \/ i <= Len(argv) /\ argv[i] = "-c" /\ i' = i + 2 /\ UNCHANGED <<pc, status, cfg>>
       \/ /\ i < Len(argv) /\ argv[i] \in DOMAIN FieldOfOption
          /\ cfg' = apply_value(cfg, FieldOfOption[argv[i]], argv[i + 1])
          /\ i' = i + 2 /\ UNCHANGED <<pc, status>>
       \/ /\ i <= Len(argv) /\ argv[i] \notin {"-h", "-c"}
          /\ i = Len(argv) \/ argv[i] \notin DOMAIN FieldOfOption
          /\ misused
    /\ UNCHANGED inputs

Next == cfg_read_config_path \/ OpenFile \/ ReadWithLibconfig \/ ReadLine
          \/ cfg_apply_env \/ cfg_apply_args

Spec == Init /\ [][Next]_vars

-----------------------------------------------------------------------------

\* The order of the sources, stated at once: of the valid values given for a
\* field the last one counts, the file's before the environment's before the
\* arguments'.
Pair(k) == [option |-> argv[2 * k - 1], text |-> argv[2 * k]]
Pairs == [k \in 1..(Len(argv) \div 2) |-> Pair(k)]
PathsGiven == {k \in DOMAIN Pairs : Pairs[k].option = "-c"}
PathChosen ==
    IF PathsGiven # {} THEN Pairs[Max(PathsGiven)].text
    ELSE IF "CONFIG_PATH" \in DOMAIN env /\ env["CONFIG_PATH"] # "" THEN env["CONFIG_PATH"]
    ELSE "config.cfg"

Valid(f, text) ==
    text \in DOMAIN Number /\ Number[text] > 0
      /\ Number[text] <= (IF f \in Ports THEN 65535 ELSE 86400)
ValidInFile(f, text) ==
    Valid(f, text) \/ (lib /\ f \notin Ports /\ text \in DOMAIN Number /\ Number[text] > 0)

FileRead == PathChosen \in DOMAIN files /\ (lib => config_read_file(files[PathChosen]))
ByFile(f) ==
    IF ~FileRead THEN {}
    ELSE LET lines == files[PathChosen]
         IN  {k \in DOMAIN lines : FieldOfKey[lines[k].key] = f /\ ValidInFile(f, lines[k].text)}
ByEnv(f) ==
    {v \in DOMAIN env \intersect DOMAIN FieldOfVariable :
       FieldOfVariable[v] = f /\ Valid(f, env[v])}
ByArgs(f) ==
    {k \in DOMAIN Pairs : /\ Pairs[k].option \in DOMAIN FieldOfOption
                          /\ FieldOfOption[Pairs[k].option] = f /\ Valid(f, Pairs[k].text)}

InForce(f) ==
    IF ByArgs(f) # {} THEN Number[Pairs[Max(ByArgs(f))].text]
    ELSE IF ByEnv(f) # {} THEN Number[env[CHOOSE v \in ByEnv(f) : TRUE]]
    ELSE IF ByFile(f) # {} THEN Number[files[PathChosen][Max(ByFile(f))].text]
    ELSE cfg_defaults[f]

\* A limit of the property: the two scans of the arguments agree unless -c is
\* given as a value, and both parsers read the file alike unless a setting is
\* commented out.
Plain ==
    /\ \A k \in DOMAIN Pairs : Pairs[k].text # "-c"
    /\ PathChosen \in DOMAIN files =>
         LET lines == files[PathChosen] IN \A k \in DOMAIN lines : ~lines[k].commented

\* The server that starts has, in every field, the value of the source of the
\* highest priority that gives a valid one: defaults, file, environment,
\* arguments (cfg_load).
PrecedenceKept ==
    pc = "done" /\ status = 0 /\ Plain =>
        cfg = [f \in DOMAIN cfg |-> IF f \in Fields THEN InForce(f) ELSE PathChosen]

\* The server starts exactly if its arguments are options with their values; a
\* value is never taken for an option, nor an option for the value of another
\* but by its place.
OnlyOptionsStart ==
    pc = "done" =>
        (status = 0 <=>
           /\ \A k \in DOMAIN Pairs : Pairs[k].option \in DOMAIN FieldOfOption \union {"-c"}
           /\ Len(argv) % 2 = 1 => argv[Len(argv)] = "-c")
=============================================================================
