-------------------------- MODULE AtomicActivation --------------------------
(***************************************************************************)
(* What `maculaos upgrade` promises about a system root, without saying    *)
(* how: every component has at most one active version, activation happens *)
(* in a single step that makes a whole version active, and a version that  *)
(* was whole is never lost - at most it is kept under another name.  The   *)
(* active version is not even that, unless the system took it for another. *)
(*                                                                         *)
(* The version a component falls back to (`previous`) is promised much     *)
(* less: it is forgotten, or it is what was active.                        *)
(***************************************************************************)
CONSTANTS
  Component,   \* the parts a system root is made of
  Version,     \* names of versions
  None,        \* "no version"
  Shipped      \* [Component -> Version \cup {None}]: what the installer wrote

VARIABLES
  active,      \* the version each component runs after the next boot
  fallback,    \* the version each component can be taken back to
  whole,       \* per component, the versions present in full
  kept,        \* per component, those present in full, but not by their name
  mistaken     \* components whose active version was not recognised

vars == <<active, fallback, whole, kept, mistaken>>

Init ==
  /\ active = Shipped
  /\ fallback = [c \in Component |-> None]
  /\ whole = [c \in Component |-> {Shipped[c]} \ {None}]
  /\ kept = [c \in Component |-> {}]
  /\ mistaken = {}

\* A version is written, in full before it has its name.
Provide(c, v) ==
  /\ v \notin whole[c]
  /\ whole' = [whole EXCEPT ![c] = @ \cup {v}]
  /\ UNCHANGED <<active, fallback, kept, mistaken>>

\* The active version is not recognised, and will be brought like any other.
Mistake(c) ==
  /\ mistaken' = mistaken \cup {c}
  /\ UNCHANGED <<active, fallback, whole, kept>>

Replaceable(c, v) == v # active[c] \/ c \in mistaken

\* A version gives up its name, and gets it back.
SetAside(c, v) ==
  /\ v \in whole[c] \ kept[c]
  /\ Replaceable(c, v)
  /\ whole' = [whole EXCEPT ![c] = @ \ {v}]
  /\ kept' = [kept EXCEPT ![c] = @ \cup {v}]
  /\ UNCHANGED <<active, fallback, mistaken>>

PutBack(c, v) ==
  /\ v \in kept[c] \ whole[c]
  /\ whole' = [whole EXCEPT ![c] = @ \cup {v}]
  /\ kept' = [kept EXCEPT ![c] = @ \ {v}]
  /\ UNCHANGED <<active, fallback, mistaken>>

\* The fallback is forgotten, then takes the value of what is still active.
Forget(c) ==
  /\ fallback' = [fallback EXCEPT ![c] = None]
  /\ UNCHANGED <<active, whole, kept, mistaken>>

Remember(c) ==
  /\ fallback[c] = None
  /\ fallback' = [fallback EXCEPT ![c] = active[c]]
  /\ UNCHANGED <<active, whole, kept, mistaken>>

\* The switch: one step, to a version that is there in full.
Activate(c, v) ==
  /\ v \in whole[c]
  /\ Replaceable(c, v)
  /\ active' = [active EXCEPT ![c] = v]
  /\ mistaken' = mistaken \ {c}
  /\ UNCHANGED <<fallback, whole, kept>>

Next ==
  \E c \in Component :
    \/ Forget(c) \/ Remember(c) \/ Mistake(c)
    \/ \E v \in Version :
         Provide(c, v) \/ SetAside(c, v) \/ PutBack(c, v) \/ Activate(c, v)

Spec == Init /\ [][Next]_vars
=============================================================================
