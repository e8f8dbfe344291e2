------------------------------- MODULE MCBoot -------------------------------
(* Boot for TLC: the disks and the requests of the checked instances.      *)
EXTENDS Boot

Blank == [loader |-> "none", foreign |-> "absent", sbin |-> "none", init |-> "none",
          labelled |-> FALSE, data |-> {}]

\* An empty file system with the label, and a machine that boots from the network.
Netboot == [Blank EXCEPT !.loader = "net", !.labelled = TRUE]

\* A Linux host: sbin merged into usr, or a directory whose init is a link
\* (absolute, so that the initrd does not find what it names, or relative) or a
\* file of its own.
Host(s, i) == [loader |-> "foreign", foreign |-> "complete", sbin |-> s, init |-> i,
               labelled |-> FALSE, data |-> {"old"}]

AllDisks == {Blank, Netboot, Host("link", "dangling"), Host("link", "resolving"),
             Host("dir", "dangling"), Host("dir", "resolving"), Host("dir", "file")}

\* Images are built with --takeover --no-format, with or without --poweroff;
\* everyone else lets the installer format the disk.
AllRequests ==
  {[format |-> TRUE, takeover |-> FALSE, poweroff |-> FALSE]} \cup
  {[format |-> FALSE, takeover |-> TRUE, poweroff |-> off] : off \in BOOLEAN}
=============================================================================
