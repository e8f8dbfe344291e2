--------------------------- MODULE MCUpgradeRetry ---------------------------
(* One plan, run any number of times - by hand, by the controller's job after *)
(* a run that ended in a Fatal error, or for a new plan: what it comes to.   *)
EXTENDS Upgrade

CONSTANT Latest   \* the version the plan's channel resolves to

Plan ==
  [parts |-> Component, remount |-> TRUE, sync |-> TRUE, reboot |-> TRUE,
   source |-> [c \in Component |-> Latest]]

PlanOnly == {Plan}
OverlayInstall == {"macula", "k3s"}

\* CopyComponent ends up "moving the `current` symlink to the version from
\* `src`" (component.go:46): if the plan is run again and again, every component
\* the destination holds comes to run the plan's version and keeps it, whatever
\* failed on the way - but for one whose current.tmp could not be removed, and
\* one that was already activated over a copy of itself.  The code itself sees
\* to no second run: Run only logs a component that failed and exits 0.
Converges ==
  ([]<>\E p \in Process : pc[p] = "flock") =>
    <>[](\A c \in Installed :
           \/ current[c] = Latest
           \/ <<"unlink", c>> \in dropped
           \/ Frozen(c, Latest))

\* A run that had nothing to copy asks for no reboot, so the plan's retries do
\* not keep rebooting the node.
RebootsStop == <>[](~rebooting)
=============================================================================
