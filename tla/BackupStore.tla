----------------------------- MODULE BackupStore -----------------------------
(***************************************************************************)
(* What `maculaos backup` promises of the backups in its directory,        *)
(* without saying how a tarball is written: a backup appears at once when  *)
(* its creation ends and never changes; it goes because someone takes its  *)
(* name away, or because there were enough newer names to stay when        *)
(* retention looked.                                                       *)
(***************************************************************************)
EXTENDS Naturals, FiniteSets

CONSTANTS
  Name,      \* names of backups
  Order,     \* the pairs of names of which the first is the older one
  Contents   \* what a backup can hold

VARIABLES
  store,     \* the complete backups: pairs of a name and what it holds
  listed,    \* the names there are, complete or not
  making,    \* the names under which one creation, and no other, is at work
  doomed,    \* the names that retention is about to remove
  keep,      \* how many retention leaves; 0 for all
  asked      \* how many commands somebody has given

vars == <<store, listed, making, doomed, keep, asked>>

Init == store = {} /\ listed = {} /\ making = {} /\ doomed = {} /\ keep = 0 /\ asked = 0

Without(S) == {b \in store : b[1] \notin S}

\* Whatever had the name is lost.  A creation that is begun under the name of one
\* at work spoils both.
Begin(n) ==
  /\ asked' = asked + 1
  /\ store' = Without({n})
  /\ listed' = listed \cup {n}
  /\ making' \in {making \cup {n}, making \ {n}}
  /\ n \in making => n \notin making'
  /\ UNCHANGED <<doomed, keep>>

Complete(n) ==
  /\ n \in making /\ making' = making \ {n}
  /\ \E c \in Contents : store' = store \cup {<<n, c>>}
  /\ UNCHANGED <<listed, doomed, keep, asked>>

\* A creation or its retention fails, or its machine goes down.
Abandon ==
  /\ making' \subseteq making /\ doomed' \subseteq doomed
  /\ UNCHANGED <<store, listed, keep, asked>>

Take(n) ==
  /\ store' = Without({n})
  /\ listed' = listed \ {n}
  /\ making' = making \ {n}

\* Retention looks: so many newer ones will be left.
Doom(S) ==
  /\ keep # 0
  /\ \A n \in S : Cardinality({m \in listed \ S : <<n, m>> \in Order}) >= keep
  /\ doomed' = doomed \cup S
  /\ UNCHANGED <<store, listed, making, keep, asked>>

\* Nobody asks for what retention removes.
Expire(n) ==
  /\ n \in doomed
  /\ Take(n) /\ doomed' \subseteq doomed
  /\ UNCHANGED <<keep, asked>>

Delete(n) ==
  /\ n \in listed
  /\ Take(n) /\ asked' = asked + 1
  /\ UNCHANGED <<doomed, keep>>

Configure == keep' \in Nat /\ UNCHANGED <<store, listed, making, doomed, asked>>

\* A command that the store is not concerned with.
Other == asked' = asked + 1 /\ UNCHANGED <<store, listed, making, doomed, keep>>

Next ==
  \/ Abandon \/ Configure \/ Other
  \/ \E n \in Name : Begin(n) \/ Complete(n) \/ Expire(n) \/ Delete(n)
  \/ \E S \in SUBSET listed : Doom(S)

Spec == Init /\ [][Next]_vars
=============================================================================
