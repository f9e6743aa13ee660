------------------------------ MODULE MC_Config ------------------------------
(***************************************************************************)
(* Arguments of up to three texts, and pairs of options with values; files *)
(* with good and bad values, a setting twice or commented out.             *)
(***************************************************************************)
EXTENDS Config, TLC

MC_Number == ("0" :> 0) @@ ("80" :> 80) @@ ("90" :> 90) @@ ("443" :> 443)
               @@ ("65536" :> 65536) @@ ("86401" :> 86401)

Options == {"-c", "-p", "-a", "-t"}
MC_Argvs ==
    UNION {[1..n -> Options \union {"-h", "f", "80", "0"}] : n \in 0..3}
      \union {<<o1, v1, o2, v2>> : o1 \in Options, v1 \in {"f", "80", "65536"},
                                   o2 \in Options, v2 \in {"f", "443", "-c", "-h"}}

MC_Envs ==
    {<<>>,
     [CONFIG_PATH |-> "f", SERVER_PORT |-> "90", ADMIN_TIMEOUT |-> "86401"],
     [CONFIG_PATH |-> "", ADMIN_PORT |-> "90", SERVER_PORT |-> "x"],
     [CONFIG_PATH |-> "lost", ADMIN_TIMEOUT |-> "90", ADMIN_PORT |-> "0"]}

Line(key, text) == [key |-> key, text |-> text, commented |-> FALSE]
Comment(key, text) == [key |-> key, text |-> text, commented |-> TRUE]
Good == <<Line("admin_port", "443"), Line("port", "90"), Line("admin_timeout", "86401")>>
Twice == <<Line("port", "80"), Line("admin_port", "65536"), Line("port", "443")>>
Odd == <<Line("admin_timeout", "90"), Line("port", "x")>>

MC_FileSystems ==
    {("config.cfg" :> Good) @@ ("f" :> Twice),
     ("config.cfg" :> Odd) @@ ("f" :> Good),
     ("f" :> <<Comment("admin_port", "90"), Line("port", "0")>>)}
=============================================================================
