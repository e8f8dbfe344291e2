----------------------------- MODULE MCUpgrade -----------------------------
(* Upgrade for TLC: what runs are asked for, and the checked instances.    *)
EXTENDS Upgrade, TLC

\* The arguments of the k3s plan macula-latest: everything, from one image.
Plan(v) ==
  [parts |-> Component, remount |-> TRUE, sync |-> TRUE, reboot |-> TRUE,
   source |-> [c \in Component |-> v]]

\* An operator's `maculaos upgrade --k3s`, from an image that has k3s only.
Operator(v) ==
  [parts |-> {"k3s"}, remount |-> FALSE, sync |-> FALSE, reboot |-> FALSE,
   source |-> [c \in Component |-> IF c = "k3s" THEN v ELSE None]]

OverlayInstall == {"macula", "k3s"}
\* Runs are alike.
Runs == Permutations(Process)

AllRequests == {Plan(v) : v \in Version} \cup {Operator(v) : v \in Version}
=============================================================================
