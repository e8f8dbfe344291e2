----------------------------- MODULE MCConfig ------------------------------
(* Config for TLC: what can be found in each source.                        *)
EXTENDS Config, TLC

MCDocs ==
  [s \in {"system", "cmdline", "local", "cloud", "userdata", "config.d"} |->
     CASE s = "system" -> {[modules |-> {"wg"}]}
       [] s = "cmdline" -> {[hostname |-> "cmd", sources |-> "aws"]}
       [] s = "local" -> {[hostname |-> "one", keys |-> {"k1", "url"}, k3s |-> "server"],
                          [env |-> [x |-> "1"], dns |-> "1.1.1.1"],
                          Malformed}
       [] s = "cloud" -> {}
       [] s = "userdata" -> {[keys |-> {"k3"}, files |-> "script", runcmd |-> {"script"}]}
       [] s = "config.d" -> {[password |-> "p"]}]
=============================================================================
