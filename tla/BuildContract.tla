---------------------------- MODULE BuildContract ----------------------------
(***************************************************************************)
(* What a builder promises Packer about the image it builds: there is at   *)
(* most one, it is destroyed only when the build was stopped or asked to    *)
(* destroy it, and the outcome matches it.                                  *)
(***************************************************************************)
VARIABLES
  image,    \* "none" yet, "present" in vCenter, or "gone" again
  stop,     \* the build was interrupted, has failed, or is to drop the image
  outcome   \* what Builder.Run has returned

vars == <<image, stop, outcome>>

Init == image = "none" /\ ~stop /\ outcome = "pending"

\* A build that fails while it creates the image may leave it behind.
Create ==
  /\ outcome = "pending" /\ image = "none"
  /\ image' = "present"
  /\ stop' \in {stop, TRUE}
  /\ UNCHANGED outcome

Stop ==
  /\ outcome = "pending"
  /\ stop' = TRUE
  /\ UNCHANGED <<image, outcome>>

Destroy ==
  /\ outcome = "pending" /\ image = "present" /\ stop
  /\ image' = "gone"
  /\ UNCHANGED <<stop, outcome>>

\* No image and no error is the outcome of an interrupted build only.
Finish ==
  /\ outcome = "pending"
  /\ \/ outcome' = "error"
     \/ image = "none" /\ stop /\ outcome' = "nil"
     \/ image # "none" /\ outcome' = "artifact"
  /\ UNCHANGED <<image, stop>>

\* Packer gives the artifact up.
Discard ==
  /\ outcome = "artifact" /\ image = "present"
  /\ image' = "gone"
  /\ UNCHANGED <<stop, outcome>>

Next == Create \/ Stop \/ Destroy \/ Finish \/ Discard

Spec == Init /\ [][Next]_vars

\* A build that was started returns.
FairSpec == Spec /\ WF_vars(Finish)
=============================================================================
