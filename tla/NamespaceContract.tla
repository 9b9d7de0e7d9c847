-------------------------- MODULE NamespaceContract --------------------------
(***************************************************************************)
(* What the vsphere-supervisor builder promises the namespace it works in:  *)
(* it holds objects only while it runs, and when it ends it holds none but  *)
(* those it has been told to keep or has lost control of.                   *)
(***************************************************************************)
CONSTANT Objects

VARIABLES
  held,      \* objects of this build that exist in the namespace
  excused,   \* objects the build is not expected to delete
  outcome    \* how the build ended

vars == <<held, excused, outcome>>

Init == held = {} /\ excused \subseteq Objects /\ outcome = "pending"

\* A creation that reports failure may leave an object nobody answers for.
Acquire ==
  /\ outcome = "pending"
  /\ \E k \in Objects \ held :
       held' = held \cup {k} /\ excused' \in {excused, excused \cup {k}}
  /\ UNCHANGED outcome

\* Some objects are deleted, others resist deletion.
Release ==
  /\ outcome = "pending"
  /\ held' \subseteq held
  /\ excused \subseteq excused' /\ excused' \subseteq excused \cup held
  /\ UNCHANGED outcome

Finish ==
  /\ outcome = "pending"
  /\ held \subseteq excused
  /\ outcome' \in {"nil", "error", "panic"}
  /\ UNCHANGED <<held, excused>>

Next == Acquire \/ Release \/ Finish

Spec == Init /\ [][Next]_vars
=============================================================================
