------------------------ MODULE SupervisorBuildProofs ------------------------
(***************************************************************************)
(* Proofs about SupervisorBuild, for every set of configurations and every  *)
(* choice of the objects other users hold.                                  *)
(***************************************************************************)
EXTENDS SupervisorBuild, TLAPS

\* The step whose clean-up deletes the object.
Cleaner(k) ==
  IF k = "importRequest" THEN "StepImportImage"
  ELSE IF k = "publishRequest" THEN "StepPublishSource"
  ELSE "StepCreateSource"

\* The clean-up that deletes the object is still to come.
CleanupDue(k) ==
  \E i \in 1 .. Len(Steps) :
    /\ Steps[i] = Cleaner(k)
    /\ \/ phase \in {"step", "cleanup"} /\ i <= pc
       \/ phase = "loop" /\ i < pc

-----------------------------------------------------------------------------
(* The inductive invariant *)

\* How the control state, the outcome and the places of the steps go together.
ControlInv ==
  /\ phase \in {"loop", "step"} => ~broke /\ ~panicking
  /\ at # "start" => phase = "step"
  /\ phase # "done" <=> result = "pending"
  /\ phase = "done" => result = IF panicking THEN "panic"
                                ELSE IF "error" \in bag THEN "error" ELSE "nil"
  /\ broke /\ ~ctxDone /\ imageType # "unsupported" => "error" \in bag \/ panicking
  /\ panicking => broke

\* Every object of this build is excused, or has its flag in the bag and its
\* clean-up still to come; the flag of an object is never put for another's.
TrackedInv ==
  /\ \A k \in Ledger : owner[k] = "packer" =>
       \/ k \in ToKeep \cup untracked \cup undeleted
       \/ Flag[k] \in bag /\ CleanupDue(k)
  /\ \A k \in Ledger \ {"publishRequest"} : Flag[k] \in bag => owner[k] # "other"
  /\ owner["image"] # "other"

\* The same of the imported image, once the build knows its name.
ImageInv ==
  /\ at = "watch import" => Flag["importRequest"] \in bag
  /\ "item name" \in fields =>
       stage["importRequest"] >= 1 /\ Flag["importRequest"] \in bag
  /\ /\ Opt("clean_imported_image") /\ "item name" \in fields
     /\ owner["image"] = "packer"
     => "image" \in undeleted \/ CleanupDue("importRequest")

\* What a step has achieved once the build has gone past it.
Achieved(i) ==
  /\ Steps[i] = "StepConnectSupervisor" => ConnectionStates \subseteq bag
  /\ Steps[i] = "StepValidatePublish" => "publish_location_name" \in bag
  /\ Steps[i] = "StepCreateSource" =>
       /\ SourceStates \cup {"vm_image_type"} \subseteq bag
       /\ Communicates => Flag["service"] \in bag
  /\ Steps[i] = "StepWatchSource" =>
       /\ stage["vm"] = 2
       /\ Communicates => "ip" \in bag /\ stage["service"] = 1
  /\ Steps[i] = "StepProvision" => provisioned
  /\ Steps[i] = "StepPublishSource" /\ Opt("publish_location") => published

PassedInv ==
  /\ phase \in {"loop", "step"} => \A i \in 1 .. pc - 1 : Achieved(i)
  /\ phase \notin {"loop", "step"} /\ ~broke =>
       \A i \in 1 .. Len(Steps) : Achieved(i)

\* What a step knows at its places, and what the controllers have done for it.
PlacesInv ==
  /\ at \in {"create disk", "create secret", "create vm", "create service"}
       => "vm_image_type" \in bag
  /\ seen <= stage["vm"]
  /\ at = "wait ingress" => stage["vm"] = 2
  /\ stage["service"] <= 1
  /\ stage["publishRequest"] >= 1 => published
  /\ phase \in {"loop", "step"} =>
       \A k \in {"vm", "service"} : stage[k] >= 1 => owner[k] = "packer"
  /\ owner["publishRequest"] = "packer" /\ Communicates => provisioned

\* The first four are inductive by themselves, and all six together.
Inv == TypeOK /\ ControlInv /\ TrackedInv /\ ImageInv

IInv == Inv /\ PassedInv /\ PlacesInv

-----------------------------------------------------------------------------
(* The step lists *)

StepNames ==
  { "StepSSHKeyGen", "StepConnectSupervisor", "StepValidatePublish",
    "StepImportImage", "StepCreateSource", "StepWatchSource",
    "StepConnectCommunicator", "StepProvision", "StepApplyTags",
    "StepPublishSource" }

Precedes(step, j) == \E i \in 1 .. j - 1 : Steps[i] = step

\* The order of two steps that the properties depend on.
StepsOrdered ==
  /\ Steps \in Seq(StepNames)
  /\ \A j \in 1 .. Len(Steps) :
       /\ Steps[j] \in DOMAIN RequiredStates => Precedes("StepConnectSupervisor", j)
       /\ Steps[j] = "StepWatchSource" => Precedes("StepCreateSource", j)
       /\ Steps[j] \in {"StepConnectCommunicator", "StepProvision"} =>
            Precedes("StepWatchSource", j) /\ Communicates
       /\ Steps[j] = "StepPublishSource" =>
            /\ Precedes("StepValidatePublish", j)
            /\ Precedes("StepCreateSource", j)
            /\ Communicates => Precedes("StepProvision", j)
  /\ \E j \in 1 .. Len(Steps) : Steps[j] = "StepPublishSource"
  /\ Communicates => \E j \in 1 .. Len(Steps) : Steps[j] = "StepProvision"

LEMMA Concat ==
  ASSUME NEW S, NEW s \in Seq(S), NEW t \in Seq(S)
  PROVE  /\ s \o t \in Seq(S)
         /\ Len(s \o t) = Len(s) + Len(t)
         /\ \A i \in 1 .. Len(s) : (s \o t)[i] = s[i]
         /\ \A i \in 1 .. Len(t) : (s \o t)[Len(s) + i] = t[i]
  OBVIOUS

LEMMA AppendTwo ==
  ASSUME NEW S, NEW s \in Seq(S), NEW x \in S, NEW y \in S
  PROVE  /\ s \o << x, y >> \in Seq(S)
         /\ Len(s \o << x, y >>) = Len(s) + 2
         /\ \A i \in 1 .. Len(s) : (s \o << x, y >>)[i] = s[i]
         /\ (s \o << x, y >>)[Len(s) + 1] = x
         /\ (s \o << x, y >>)[Len(s) + 2] = y
  <1> DEFINE t == << x, y >>
  <1>1. t \in Seq(S) /\ Len(t) = 2 /\ t[1] = x /\ t[2] = y
    OBVIOUS
  <1> HIDE DEF t
  <1>2. 1 \in 1 .. Len(t) /\ 2 \in 1 .. Len(t)
    BY <1>1
  <1>3. /\ s \o t \in Seq(S)
        /\ Len(s \o t) = Len(s) + Len(t)
        /\ \A i \in 1 .. Len(s) : (s \o t)[i] = s[i]
        /\ \A i \in 1 .. Len(t) : (s \o t)[Len(s) + i] = t[i]
    BY <1>1, Concat
  <1>4. QED BY <1>1, <1>2, <1>3 DEF t

LEMMA OptionalOne ==
  ASSUME NEW S, NEW condition, NEW x \in S
  PROVE  /\ When(condition, << x >>) \in Seq(S)
         /\ Len(When(condition, << x >>)) \in {0, 1}
         /\ Len(When(condition, << x >>)) = 1 => When(condition, << x >>)[1] = x
  <1>1. << x >> \in Seq(S) /\ Len(<< x >>) = 1 /\ << x >>[1] = x
    OBVIOUS
  <1>2. << >> \in Seq(S) /\ Len(<< >>) = 0
    OBVIOUS
  <1>3. QED BY <1>1, <1>2 DEF When

LEMMA OptionalTwo ==
  ASSUME NEW S, NEW condition, NEW x \in S, NEW y \in S
  PROVE  /\ When(condition, << x, y >>) \in Seq(S)
         /\ Len(When(condition, << x, y >>)) \in {0, 2}
         /\ condition <=> Len(When(condition, << x, y >>)) = 2
         /\ Len(When(condition, << x, y >>)) = 2 =>
              /\ When(condition, << x, y >>)[1] = x
              /\ When(condition, << x, y >>)[2] = y
  <1>1. << x, y >> \in Seq(S) /\ Len(<< x, y >>) = 2
        /\ << x, y >>[1] = x /\ << x, y >>[2] = y
    OBVIOUS
  <1>2. << >> \in Seq(S) /\ Len(<< >>) = 0
    OBVIOUS
  <1>3. QED BY <1>1, <1>2 DEF When

\* Every step at its index: h, m and c are the numbers of optional steps before.
LEMMA StepsIndexed ==
  \E h \in {0, 1}, m \in {0, 1}, c \in {0, 2} :
    /\ Communicates <=> c = 2
    /\ Steps \in Seq(StepNames)
    /\ Len(Steps) = h + m + c + 6
    /\ h = 1 => Steps[1] = "StepSSHKeyGen"
    /\ Steps[h + 1] = "StepConnectSupervisor"
    /\ Steps[h + 2] = "StepValidatePublish"
    /\ m = 1 => Steps[h + 3] = "StepImportImage"
    /\ Steps[h + m + 3] = "StepCreateSource"
    /\ Steps[h + m + 4] = "StepWatchSource"
    /\ c = 2 => /\ Steps[h + m + 5] = "StepConnectCommunicator"
                /\ Steps[h + m + 6] = "StepProvision"
    /\ Steps[h + m + c + 5] = "StepApplyTags"
    /\ Steps[h + m + c + 6] = "StepPublishSource"
  <1> DEFINE a == When(config.communicator = "ssh", << "StepSSHKeyGen" >>)
             b == << "StepConnectSupervisor", "StepValidatePublish" >>
             d == When(Opt("import"), << "StepImportImage" >>)
             e == << "StepCreateSource", "StepWatchSource" >>
             f == When(Communicates, << "StepConnectCommunicator", "StepProvision" >>)
             g == << "StepApplyTags", "StepPublishSource" >>
             s2 == a \o b
             s3 == s2 \o d
             s4 == s3 \o e
             s5 == s4 \o f
  <1> DEFINE h == Len(a)
             m == Len(d)
             c == Len(f)
  <1>1. /\ a \in Seq(StepNames) /\ h \in {0, 1}
        /\ h = 1 => a[1] = "StepSSHKeyGen"
    <2>1. "StepSSHKeyGen" \in StepNames
      BY DEF StepNames
    <2>2. QED BY <2>1, OptionalOne
  <1>2. /\ d \in Seq(StepNames) /\ m \in {0, 1}
        /\ m = 1 => d[1] = "StepImportImage"
    <2>1. "StepImportImage" \in StepNames
      BY DEF StepNames
    <2>2. QED BY <2>1, OptionalOne
  <1>3. /\ f \in Seq(StepNames) /\ c \in {0, 2}
        /\ Communicates <=> c = 2
        /\ c = 2 => f[1] = "StepConnectCommunicator" /\ f[2] = "StepProvision"
    <2>1. "StepConnectCommunicator" \in StepNames /\ "StepProvision" \in StepNames
      BY DEF StepNames
    <2>2. QED BY <2>1, OptionalTwo
  <1>4. { "StepConnectSupervisor", "StepValidatePublish", "StepCreateSource",
          "StepWatchSource", "StepApplyTags", "StepPublishSource" }
          \subseteq StepNames
    BY DEF StepNames
  <1>5. Steps = s5 \o g
    BY DEF Steps
  <1> HIDE DEF a, d, f
  <1>0. h \in {0, 1} /\ m \in {0, 1} /\ c \in {0, 2}
    BY <1>1, <1>2, <1>3
  <1>00. Len(a) = h /\ Len(d) = m /\ Len(f) = c
    OBVIOUS
  <1> HIDE DEF h, m, c
  <1>6. /\ s2 \in Seq(StepNames) /\ Len(s2) = h + 2
        /\ h = 1 => s2[1] = "StepSSHKeyGen"
        /\ s2[h + 1] = "StepConnectSupervisor" /\ s2[h + 2] = "StepValidatePublish"
    BY <1>0, <1>00, <1>1, <1>4, AppendTwo
  <1> HIDE DEF s2
  <1>7. /\ s3 \in Seq(StepNames) /\ Len(s3) = h + m + 2
        /\ \A i \in 1 .. h + 2 : s3[i] = s2[i]
        /\ m = 1 => s3[h + 3] = "StepImportImage"
    BY <1>0, <1>00, <1>2, <1>6, Concat
  <1> HIDE DEF s3
  <1>8. /\ s4 \in Seq(StepNames) /\ Len(s4) = h + m + 4
        /\ \A i \in 1 .. h + m + 2 : s4[i] = s3[i]
        /\ s4[h + m + 3] = "StepCreateSource" /\ s4[h + m + 4] = "StepWatchSource"
    BY <1>0, <1>00, <1>4, <1>7, AppendTwo
  <1> HIDE DEF s4
  <1>9. /\ s5 \in Seq(StepNames) /\ Len(s5) = h + m + c + 4
        /\ \A i \in 1 .. h + m + 4 : s5[i] = s4[i]
        /\ c = 2 => /\ s5[h + m + 5] = "StepConnectCommunicator"
                    /\ s5[h + m + 6] = "StepProvision"
    BY <1>0, <1>00, <1>3, <1>8, Concat
  <1> HIDE DEF s5
  <1>10. /\ Steps \in Seq(StepNames) /\ Len(Steps) = h + m + c + 6
         /\ \A i \in 1 .. h + m + c + 4 : Steps[i] = s5[i]
         /\ Steps[h + m + c + 5] = "StepApplyTags"
         /\ Steps[h + m + c + 6] = "StepPublishSource"
    BY <1>0, <1>00, <1>4, <1>5, <1>9, AppendTwo
  <1>11. /\ h = 1 => Steps[1] = "StepSSHKeyGen"
         /\ Steps[h + 1] = "StepConnectSupervisor"
         /\ Steps[h + 2] = "StepValidatePublish"
    BY <1>0, <1>6, <1>7, <1>8, <1>9, <1>10
  <1>12. /\ m = 1 => Steps[h + 3] = "StepImportImage"
         /\ Steps[h + m + 3] = "StepCreateSource"
         /\ Steps[h + m + 4] = "StepWatchSource"
    BY <1>0, <1>7, <1>8, <1>9, <1>10
  <1>13. c = 2 => /\ Steps[h + m + 5] = "StepConnectCommunicator"
                  /\ Steps[h + m + 6] = "StepProvision"
    BY <1>0, <1>9, <1>10
  <1>14. QED BY <1>0, <1>3, <1>10, <1>11, <1>12, <1>13

LEMMA StepsOrder == StepsOrdered
  <1>1. PICK h \in {0, 1}, m \in {0, 1}, c \in {0, 2} :
          /\ Communicates <=> c = 2
          /\ Steps \in Seq(StepNames)
          /\ Len(Steps) = h + m + c + 6
          /\ h = 1 => Steps[1] = "StepSSHKeyGen"
          /\ Steps[h + 1] = "StepConnectSupervisor"
          /\ Steps[h + 2] = "StepValidatePublish"
          /\ m = 1 => Steps[h + 3] = "StepImportImage"
          /\ Steps[h + m + 3] = "StepCreateSource"
          /\ Steps[h + m + 4] = "StepWatchSource"
          /\ c = 2 => /\ Steps[h + m + 5] = "StepConnectCommunicator"
                      /\ Steps[h + m + 6] = "StepProvision"
          /\ Steps[h + m + c + 5] = "StepApplyTags"
          /\ Steps[h + m + c + 6] = "StepPublishSource"
    BY StepsIndexed
  <1>2. \A j \in 1 .. Len(Steps) :
          \/ j = 1 /\ h = 1
          \/ j \in {h + 1, h + 2, h + m + 3, h + m + 4, h + m + c + 5, h + m + c + 6}
          \/ j = h + 3 /\ m = 1
          \/ j \in {h + m + 5, h + m + 6} /\ c = 2
    BY <1>1
  <1>3. ASSUME NEW j \in 1 .. Len(Steps)
        PROVE  /\ Steps[j] \in DOMAIN RequiredStates => Precedes("StepConnectSupervisor", j)
               /\ Steps[j] = "StepWatchSource" => Precedes("StepCreateSource", j)
               /\ Steps[j] \in {"StepConnectCommunicator", "StepProvision"} =>
                    Precedes("StepWatchSource", j) /\ Communicates
               /\ Steps[j] = "StepPublishSource" =>
                    /\ Precedes("StepValidatePublish", j)
                    /\ Precedes("StepCreateSource", j)
                    /\ Communicates => Precedes("StepProvision", j)
    BY <1>1, <1>2 DEF Precedes, RequiredStates
  <1>4. QED BY <1>1, <1>3 DEF StepsOrdered

-----------------------------------------------------------------------------
(* Facts the proofs share *)

LEMMA StepsConstant == ASSUME config' = config PROVE Steps' = Steps
  BY DEF Steps, Opt, Communicates, When

LEMMA StepsType ==
  /\ Len(Steps) \in Nat
  /\ \A i \in 1 .. Len(Steps) : Steps[i] \in StepNames
  BY StepsOrder DEF StepsOrdered

LEMMA Flags ==
  /\ DOMAIN Flag = Ledger
  /\ \A k \in Ledger : Flag[k] \in Keys
  /\ \A k \in Ledger : Flag[k] \notin
       ConnectionStates \cup SourceStates
       \cup { "publish_location_name", "imported_image_name", "vm_image_type",
              "vm_ip", "ip", "error" }
  /\ \A k, l \in Ledger : Flag[k] = Flag[l] => k = l
  BY DEF Flag, Ledger, Objects, SourceObjects, Keys, ConnectionStates, SourceStates

LEMMA KeysKnown ==
  ConnectionStates \cup SourceStates
    \cup { "publish_location_name", "imported_image_name", "vm_image_type",
           "vm_ip", "ip", "error" } \subseteq Keys
  BY DEF Keys
-----------------------------------------------------------------------------
(* What one action of a step may do, whichever step it is *)

\* How the action ends.
Outcome ==
  \/ /\ phase' = "step" /\ pc' = pc /\ UNCHANGED <<broke, panicking>>
  \/ /\ phase' = "loop" /\ pc' = pc + 1 /\ at' = "start"
     /\ UNCHANGED <<broke, panicking>>
  \/ /\ phase' = "cleanup" /\ pc' = pc /\ at' = "start"
     /\ broke' = TRUE /\ UNCHANGED panicking
     /\ "error" \in bag' \/ ctxDone \/ imageType' = "unsupported"
  \/ /\ phase' = "cleanup" /\ pc' = pc - 1 /\ at' = "start"
     /\ broke' = TRUE /\ panicking' = TRUE
     /\ Steps[pc] = "StepApplyTags"

\* At most one object is created.
Acquires ==
  \/ UNCHANGED <<owner, untracked>>
  \/ \E k \in Objects \ {"image"} :
       /\ owner[k] = "nobody"
       /\ owner' = [owner EXCEPT ![k] = "packer"]
       /\ untracked' \in {untracked, untracked \cup {k}}

\* What becomes of the objects: one that the action creates is untold or has its
\* flag, and its clean-up is that of the step.
Holdings ==
  /\ Acquires
  /\ owner' \in [Objects -> {"nobody", "packer", "other"}]
  /\ untracked \subseteq untracked' /\ untracked' \subseteq Objects
  /\ bag \subseteq bag' /\ bag' \subseteq Keys
  /\ owner'["image"] = owner["image"]
  /\ \A k \in Objects : owner'[k] # owner[k] =>
       owner[k] = "nobody" /\ owner'[k] = "packer"
  /\ \A k \in Ledger : owner'[k] # owner[k] =>
       Steps[pc] = Cleaner(k) /\ (k \in untracked' \/ Flag[k] \in bag')
  /\ \A k \in Ledger : Flag[k] \in bag' => Flag[k] \in bag \/ owner'[k] = "packer"

\* The variables of the steps.
Locals ==
  /\ at' \in Places
  /\ imageType' \in ImageTypes \cup {"unknown"}
  /\ seen' \in 0 .. 2
  /\ fields \subseteq fields' /\ fields' \subseteq {"item name", "console shown"}
  /\ provisioned' \in BOOLEAN /\ (provisioned => provisioned')
  /\ at' = "watch import" => at = "watch import" \/ Flag["importRequest"] \in bag'
  /\ "item name" \in fields' =>
       \/ "item name" \in fields
       \/ /\ at = "watch import" /\ stage["importRequest"] >= 1
          /\ Steps[pc] = "StepImportImage"

RunEffect ==
  /\ phase = "step"
  /\ UNCHANGED <<config, ctxDone, stage, published, result, undeleted>>
  /\ Outcome /\ Holdings /\ Locals

\* The ways of an action to end that are not a panic.
Ends(b) ==
  \/ Continues(b) \/ Fails(b)
  \/ (ctxDone \/ imageType' = "unsupported") /\ Halts(b)
  \/ \E place \in Places : Stays(place, b)

LEMMA EndsEffect ==
  ASSUME TypeOK, phase = "step", NEW b, Ends(b)
  PROVE  /\ UNCHANGED <<config, ctxDone, result, undeleted>>
         /\ Outcome /\ at' \in Places
         /\ bag' = b \/ bag' = b \cup {"error"}
  BY DEF Ends, Outcome, Continues, Fails, Halts, Stays, runner, Places

LEMMA SameLocals ==
  ASSUME TypeOK, at' \in Places, at' # "watch import", UNCHANGED local,
         provisioned' \in BOOLEAN, provisioned => provisioned'
  PROVE  Locals
  BY DEF Locals, TypeOK, local

\* An action that creates nothing.
LEMMA PlainEffect ==
  ASSUME TypeOK, phase = "step", Locals, UNCHANGED <<cluster, untracked>>,
         NEW more, more \subseteq Keys, \A k \in Ledger : Flag[k] \notin more,
         Ends(bag \cup more)
  PROVE  RunEffect
  <1>1. /\ UNCHANGED <<config, ctxDone, result, undeleted>>
        /\ Outcome
        /\ bag' = bag \cup more \/ bag' = bag \cup more \cup {"error"}
    BY EndsEffect
  <1>2. UNCHANGED <<stage, published, owner, untracked>>
    BY DEF cluster
  <1>3. Holdings
    <2>1. bag \subseteq bag' /\ bag' \subseteq Keys
          /\ \A k \in Ledger : Flag[k] \in bag' => Flag[k] \in bag
      BY <1>1, KeysKnown, Flags DEF TypeOK
    <2>2. Acquires
      BY <1>2 DEF Acquires
    <2>3. QED BY <1>2, <2>1, <2>2 DEF Holdings, TypeOK
  <1>4. QED BY <1>1, <1>2, <1>3 DEF RunEffect

\* An action that asks for the creation of an object and then goes on.
LEMMA CreateEffect ==
  ASSUME TypeOK, phase = "step", Locals,
         NEW k \in Objects \ {"image"},
         k = "consoleRequest" \/ Steps[pc] = Cleaner(k),
         NEW more, more \subseteq Keys,
         k \in Ledger => Flag[k] \in more,
         \A l \in Ledger : Flag[l] \in more => l = k,
         (Creates(k) /\ Ends(bag \cup more)) \/ CreateFails(k)
  PROVE  RunEffect
  <1>1. CASE Creates(k) /\ Ends(bag \cup more)
    <2>1. /\ UNCHANGED <<config, ctxDone, result, undeleted>>
          /\ Outcome
          /\ bag' = bag \cup more \/ bag' = bag \cup more \cup {"error"}
      BY <1>1, EndsEffect
    <2>2. /\ UNCHANGED <<stage, published, untracked>>
          /\ owner[k] = "nobody"
          /\ owner' = [owner EXCEPT ![k] = "packer"]
      BY <1>1 DEF Creates
    <2>3. bag \subseteq bag' /\ bag' \subseteq Keys
          /\ \A l \in Ledger : Flag[l] \in bag' => Flag[l] \in bag \/ l = k
      BY <2>1, KeysKnown, Flags DEF TypeOK
    <2>4. /\ owner' \in [Objects -> {"nobody", "packer", "other"}]
          /\ \A l \in Objects : owner'[l] = IF l = k THEN "packer" ELSE owner[l]
      BY <2>2 DEF TypeOK
    <2>5. Holdings
      <3>1. \A l \in Ledger : owner'[l] # owner[l] =>
              l = k /\ Flag[l] \in bag' /\ Steps[pc] = Cleaner(l)
        BY <2>1, <2>2, <2>4 DEF Ledger
      <3>2. \A l \in Ledger : Flag[l] \in bag' =>
              Flag[l] \in bag \/ owner'[l] = "packer"
        BY <2>3, <2>4 DEF Ledger
      <3>3. "image" \in Objects /\ owner'["image"] = owner["image"]
        BY <2>4 DEF Objects
      <3>4. \A l \in Objects : owner'[l] # owner[l] =>
              owner[l] = "nobody" /\ owner'[l] = "packer"
        BY <2>2, <2>4
      <3>5. untracked \subseteq untracked' /\ untracked' \subseteq Objects
        BY <2>2 DEF TypeOK
      <3>6. Acquires
        BY <2>2 DEF Acquires
      <3>7. QED BY <2>3, <2>4, <3>1, <3>2, <3>3, <3>4, <3>5, <3>6 DEF Holdings
    <2>6. QED BY <2>1, <2>2, <2>5 DEF RunEffect
  <1>2. CASE CreateFails(k)
    <2>1. /\ UNCHANGED <<stage, published, config, ctxDone, result, undeleted>>
          /\ Outcome /\ bag' = bag \cup {"error"}
      BY <1>2 DEF CreateFails, Fails, Halts, Outcome
    <2>2. bag \subseteq bag' /\ bag' \subseteq Keys
          /\ \A l \in Ledger : Flag[l] \in bag' => Flag[l] \in bag
      BY <2>1, KeysKnown, Flags DEF TypeOK
    <2>3. \/ UNCHANGED <<owner, untracked>>
          \/ /\ owner[k] = "nobody"
             /\ owner' = [owner EXCEPT ![k] = "packer"]
             /\ untracked' = untracked \cup {k}
      BY <1>2 DEF CreateFails
    <2>4. /\ owner' \in [Objects -> {"nobody", "packer", "other"}]
          /\ untracked \subseteq untracked' /\ untracked' \subseteq Objects
          /\ \A l \in Objects : owner'[l] # owner[l] =>
               l = k /\ owner[l] = "nobody" /\ owner'[l] = "packer" /\ l \in untracked'
      BY <2>3 DEF TypeOK
    <2>5. Holdings
      <3>1. "image" \in Objects /\ Ledger \subseteq Objects /\ "consoleRequest" \notin Ledger
        BY DEF Objects, Ledger
      <3>2. owner'["image"] = owner["image"]
        BY <2>4, <3>1
      <3>3. Acquires
        BY <2>3 DEF Acquires
      <3>4. QED BY <2>2, <2>4, <3>1, <3>2, <3>3 DEF Holdings
    <2>6. QED BY <2>1, <2>5 DEF RunEffect
  <1>3. QED BY <1>1, <1>2

\* Steps that only continue or fail, and waits that only end.
LEMMA QuietEffect ==
  ASSUME TypeOK,
         \/ StepSSHKeyGen \/ GetVMIngressIP \/ GivesUp \/ WatchVMPublish
         \/ StepConnectSupervisor \/ StepValidatePublish
         \/ StepConnectCommunicator \/ StepProvision
  PROVE  RunEffect
  <1> DEFINE news == ConnectionStates \cup {"publish_location_name", "ip"}
  <1>1. news \subseteq Keys /\ \A k \in Ledger : Flag[k] \notin news
    BY KeysKnown, Flags
  <1>2. phase = "step" /\ UNCHANGED <<local, cluster, untracked>>
    BY DEF StepSSHKeyGen, GetVMIngressIP, GivesUp, WatchVMPublish,
           StepConnectSupervisor, StepValidatePublish, StepConnectCommunicator,
           StepProvision, At
  <1>3. provisioned' \in BOOLEAN /\ (provisioned => provisioned')
    BY DEF StepSSHKeyGen, GetVMIngressIP, GivesUp, WatchVMPublish,
           StepConnectSupervisor, StepValidatePublish, StepConnectCommunicator,
           StepProvision, TypeOK
  <1>4. PICK more \in SUBSET news :
           \/ Continues(bag \cup more) \/ Fails(bag \cup more)
           \/ ctxDone /\ Halts(bag \cup more)
    <2>1. bag \cup {} = bag
      OBVIOUS
    <2>2. CASE \/ Continues(bag \cup {}) \/ Fails(bag \cup {})
               \/ ctxDone /\ Halts(bag \cup {})
      BY <2>2
    <2>3. CASE StepConnectSupervisor
      BY <2>1, <2>2, <2>3 DEF StepConnectSupervisor
    <2>4. CASE StepValidatePublish
      BY <2>4 DEF StepValidatePublish
    <2>5. CASE GetVMIngressIP
      BY <2>5 DEF GetVMIngressIP
    <2>6. CASE \/ StepSSHKeyGen \/ GivesUp \/ WatchVMPublish
               \/ StepConnectCommunicator \/ StepProvision
      BY <2>1, <2>2, <2>6 DEF StepSSHKeyGen, GivesUp, WatchVMPublish,
         StepConnectCommunicator, StepProvision
    <2>7. QED BY <2>3, <2>4, <2>5, <2>6
  <1>5. at' = "start" /\ Ends(bag \cup more)
    BY <1>4 DEF Ends, Continues, Fails, Halts
  <1>6. Locals
    BY <1>2, <1>3, <1>5, SameLocals DEF Places
  <1>7. QED BY <1>1, <1>2, <1>5, <1>6, PlainEffect

LEMMA StepImportImageEffect ==
  ASSUME TypeOK, StepImportImage PROVE RunEffect
  <1> DEFINE k == "importRequest"
             more == {Flag[k]}
  <1>1. /\ k \in Objects \ {"image"} /\ k \in Ledger
        /\ phase = "step" /\ Steps[pc] = Cleaner(k) /\ UNCHANGED <<local, provisioned>>
    BY DEF StepImportImage, At, Cleaner, Objects, Ledger
  <1>2. more \subseteq Keys /\ \A l \in Ledger : Flag[l] \in more => l = k
    BY <1>1, Flags
  <1>3. (Creates(k) /\ Ends(bag \cup more)) \/ CreateFails(k)
    BY DEF StepImportImage, Ends, Places, Waits
  <1>4. /\ at' \in Places
        /\ at' = "watch import" => Flag["importRequest"] \in bag'
    BY DEF StepImportImage, Stays, CreateFails, Fails, Halts, Places, Waits
  <1>5. Locals
    BY <1>1, <1>4 DEF Locals, TypeOK, local
  <1>6. QED BY <1>1, <1>2, <1>3, <1>5, CreateEffect

LEMMA WatchItemImportEffect ==
  ASSUME TypeOK, WatchItemImport PROVE RunEffect
  <1> DEFINE news == {"imported_image_name"}
  <1>1. news \subseteq Keys /\ \A k \in Ledger : Flag[k] \notin news
    BY KeysKnown, Flags
  <1>2. /\ phase = "step" /\ UNCHANGED <<cluster, untracked>>
        /\ Steps[pc] = "StepImportImage" /\ at = "watch import"
    BY DEF WatchItemImport, At
  <1>3. PICK more \in SUBSET news : Ends(bag \cup more)
    <2>1. bag \cup {} = bag
      OBVIOUS
    <2>2. CASE Ends(bag \cup {})
      BY <2>2
    <2>3. QED BY <2>1, <2>2 DEF WatchItemImport, Ends, Places, Waits
  <1>4. /\ at' \in Places /\ stage["importRequest"] >= 1
        /\ fields' = fields \cup {"item name"}
        /\ UNCHANGED <<imageType, seen, provisioned>>
    <2>1. "importRequest" \in Objects
      BY DEF Objects
    <2>2. stage["importRequest"] \in 0 .. 2
      BY <2>1 DEF TypeOK
    <2>3. stage["importRequest"] >= 1
      <3>1. PICK s \in 1 .. stage["importRequest"] : TRUE
        BY DEF WatchItemImport
      <3>2. QED BY <2>2, <3>1
    <2>4. at' \in Places
      BY DEF WatchItemImport, Stays, Continues, Places, Waits
    <2>5. QED BY <2>3, <2>4 DEF WatchItemImport
  <1>5. Locals
    BY <1>2, <1>4 DEF Locals, TypeOK
  <1>6. QED BY <1>1, <1>2, <1>3, <1>5, PlainEffect

LEMMA StepCreateSourceEffect ==
  ASSUME TypeOK, StepCreateSource PROVE RunEffect
  <1> DEFINE news == {"vm_image_type"}
  <1>1. news \subseteq Keys /\ \A k \in Ledger : Flag[k] \notin news
    BY KeysKnown, Flags
  <1>2. /\ phase = "step" /\ UNCHANGED <<cluster, untracked, seen, fields, provisioned>>
    BY DEF StepCreateSource, At
  <1>3. PICK more \in SUBSET news : Ends(bag \cup more)
    <2>1. bag \cup {} = bag
      OBVIOUS
    <2>2. CASE Ends(bag \cup {})
      BY <2>2
    <2>3. QED BY <2>1, <2>2 DEF StepCreateSource, Ends, Places
  <1>4. /\ at' \in Places /\ at' # "watch import"
        /\ imageType' \in ImageTypes \cup {"unknown"}
    BY DEF StepCreateSource, Stays, Halts, Fails, Places, TypeOK, ImageTypes
  <1>5. Locals
    BY <1>2, <1>4 DEF Locals, TypeOK
  <1>6. QED BY <1>1, <1>2, <1>3, <1>5, PlainEffect

\* The requests of StepCreateSource.
LEMMA CreateSourceObjectsEffect ==
  ASSUME TypeOK, CreateBootDisk \/ CreateBootstrapSecret \/ CreateVM \/ CreateVMService
  PROVE  RunEffect
  <1>1. /\ phase = "step" /\ Steps[pc] = "StepCreateSource"
        /\ UNCHANGED <<local, provisioned>>
    BY DEF CreateBootDisk, CreateBootstrapSecret, CreateVM, CreateVMService, At
  <1>2. SourceObjects \subseteq Objects \ {"image"} /\ SourceObjects \subseteq Ledger
        /\ \A k \in SourceObjects : Cleaner(k) = "StepCreateSource"
    BY DEF SourceObjects, Objects, Ledger, Cleaner
  <1>3. /\ at' \in Places /\ at' # "watch import"
    BY DEF CreateBootDisk, CreateBootstrapSecret, CreateVM, CreateVMService,
           CreateFails, Stays, Continues, Halts, Fails, Places
  <1>4. Locals
    BY <1>1, <1>3, SameLocals DEF TypeOK
  <1>5. \A k \in SourceObjects :
           /\ {Flag[k]} \cup SourceStates \subseteq Keys
           /\ \A l \in Ledger : Flag[l] \in {Flag[k]} \cup SourceStates => l = k
    BY <1>2, Flags, KeysKnown
  <1>6. PICK k \in SourceObjects, extra \in {{}, SourceStates} :
          (Creates(k) /\ Ends(bag \cup ({Flag[k]} \cup extra))) \/ CreateFails(k)
    <2>1. \A b : /\ Stays("create vm", b) => Ends(b)
                 /\ Stays("create service", b) => Ends(b)
                 /\ Continues(b) => Ends(b)
      BY DEF Ends, Places
    <2>2. \A k : /\ bag \cup {Flag[k]} \cup SourceStates
                      = bag \cup ({Flag[k]} \cup SourceStates)
                 /\ bag \cup {Flag[k]} = bag \cup ({Flag[k]} \cup {})
      OBVIOUS
    <2>3. {"disk", "secret", "vm", "service"} \subseteq SourceObjects
      BY DEF SourceObjects
    <2>4. \E k \in {"disk", "secret", "vm", "service"} :
            \/ Creates(k) /\ Ends(bag \cup {Flag[k]})
            \/ Creates(k) /\ Ends(bag \cup {Flag[k]} \cup SourceStates)
            \/ CreateFails(k)
      BY <2>1 DEF CreateBootDisk, CreateBootstrapSecret, CreateVM, CreateVMService
    <2>5. QED BY <2>2, <2>3, <2>4
  <1>7. {Flag[k]} \cup extra \subseteq Keys
        /\ \A l \in Ledger : Flag[l] \in {Flag[k]} \cup extra => l = k
    BY <1>5
  <1>8. k \in Objects \ {"image"} /\ Steps[pc] = Cleaner(k)
    BY <1>1, <1>2
  <1>9. QED BY <1>1, <1>4, <1>6, <1>7, <1>8, CreateEffect

LEMMA WatchSourceEffect ==
  ASSUME TypeOK, StepWatchSource \/ WaitForVMReady \/ WaitForConsole
  PROVE  RunEffect
  <1> DEFINE news == {"vm_ip"}
  <1>1. news \subseteq Keys /\ \A k \in Ledger : Flag[k] \notin news
    BY KeysKnown, Flags
  <1>2. /\ phase = "step" /\ UNCHANGED <<cluster, untracked, imageType, provisioned>>
    BY DEF StepWatchSource, WaitForVMReady, WaitForConsole, At, local
  <1>3. /\ seen' \in 0 .. 2
        /\ fields' \in {fields, fields \cup {"console shown"}}
    <2>1. stage["vm"] \in 0 .. 2
      BY DEF TypeOK, Objects, SourceObjects
    <2>2. seen' \in 0 .. 2
      <3>1. CASE WaitForVMReady
        <4>1. seen' \in 1 .. stage["vm"]
          BY <3>1 DEF WaitForVMReady
        <4>2. QED BY <2>1, <4>1
      <3>2. CASE seen' = seen
        BY <3>2 DEF TypeOK
      <3>3. QED BY <3>1, <3>2 DEF StepWatchSource, WaitForConsole, local
    <2>3. fields' = fields \/ fields' = fields \cup {"console shown"}
      BY DEF StepWatchSource, WaitForVMReady, WaitForConsole, local
    <2>4. QED BY <2>2, <2>3
  <1>4. PICK more \in SUBSET news :
          \/ Continues(bag \cup more) \/ Fails(bag \cup more)
          \/ \E place \in Places \ {"watch import"} : Stays(place, bag \cup more)
    <2> DEFINE Goal(more) ==
          \/ Continues(bag \cup more) \/ Fails(bag \cup more)
          \/ \E place \in Places \ {"watch import"} : Stays(place, bag \cup more)
    <2>1. {} \in SUBSET news /\ news \in SUBSET news /\ bag \cup {} = bag
      OBVIOUS
    <2>2. {"watch vm", "create console", "wait ingress"} \subseteq Places \ {"watch import"}
      BY DEF Places, Waits
    <2>3. \A s : VMSeen(s) => Goal({}) \/ Goal(news)
      BY <2>1, <2>2 DEF VMSeen
    <2>4. CASE StepWatchSource
      BY <2>1, <2>2, <2>4 DEF StepWatchSource
    <2>5. CASE WaitForVMReady
      <3>1. VMSeen(seen') \/ Stays("create console", bag)
        BY <2>5 DEF WaitForVMReady
      <3>2. QED BY <3>1, <2>1, <2>2, <2>3
    <2>6. CASE WaitForConsole
      <3>1. VMSeen(seen)
        BY <2>6 DEF WaitForConsole
      <3>2. QED BY <3>1, <2>1, <2>3
    <2>7. QED BY <2>4, <2>5, <2>6
  <1>5. Ends(bag \cup more) /\ at' \in Places /\ at' # "watch import"
    BY <1>4 DEF Ends, Continues, Fails, Halts, Stays, Places
  <1>6. Locals
    BY <1>2, <1>3, <1>5 DEF Locals, TypeOK
  <1>7. QED BY <1>1, <1>2, <1>5, <1>6, PlainEffect

LEMMA CreateConsoleRequestEffect ==
  ASSUME TypeOK, CreateConsoleRequest PROVE RunEffect
  <1> DEFINE k == "consoleRequest"
  <1>1. /\ k \in Objects \ {"image"} /\ k \notin Ledger
        /\ phase = "step" /\ UNCHANGED <<local, provisioned>>
    BY DEF CreateConsoleRequest, At, Objects, Ledger
  <1> DEFINE none == {}
  <1>2. none \subseteq Keys /\ bag \cup none = bag /\ \A l \in Ledger : Flag[l] \notin none
    OBVIOUS
  <1> HIDE DEF none
  <1>3. (Creates(k) /\ Ends(bag \cup none)) \/ CreateFails(k)
    BY <1>2 DEF CreateConsoleRequest, Ends, Places, Waits
  <1>4. at' \in Places /\ at' # "watch import"
    BY DEF CreateConsoleRequest, CreateFails, Stays, Halts, Fails, Places, Waits
  <1>5. Locals
    BY <1>1, <1>4, SameLocals DEF TypeOK
  <1>6. QED BY <1>1, <1>2, <1>3, <1>5, CreateEffect

LEMMA StepApplyTagsEffect ==
  ASSUME TypeOK, StepApplyTags PROVE RunEffect
  <1>1. phase = "step" /\ Steps[pc] = "StepApplyTags"
        /\ UNCHANGED <<local, cluster, untracked, provisioned>>
    BY DEF StepApplyTags, At
  <1>2. /\ UNCHANGED <<config, ctxDone, result, undeleted>>
        /\ Outcome /\ at' = "start" /\ bag' = bag
    BY <1>1 DEF StepApplyTags, Outcome, Continues, Panics
  <1>3. Locals
    BY <1>1, <1>2, SameLocals DEF Places, TypeOK
  <1>4. Holdings
    BY <1>1, <1>2 DEF Holdings, Acquires, cluster, TypeOK
  <1>5. QED BY <1>1, <1>2, <1>3, <1>4 DEF RunEffect, cluster

LEMMA StepPublishSourceEffect ==
  ASSUME TypeOK, StepPublishSource PROVE RunEffect
  <1> DEFINE k == "publishRequest"
             more == {Flag[k]}
  <1>1. /\ k \in Objects \ {"image"} /\ k \in Ledger
        /\ phase = "step" /\ Steps[pc] = Cleaner(k) /\ UNCHANGED <<local, provisioned>>
    BY DEF StepPublishSource, At, Cleaner, Objects, Ledger
  <1>2. more \subseteq Keys /\ \A l \in Ledger : Flag[l] \in more => l = k
    BY <1>1, Flags
  <1>3. at' \in Places /\ at' # "watch import"
    BY DEF StepPublishSource, CreateFails, Stays, Continues, Halts, Fails, Places, Waits
  <1>4. Locals
    BY <1>1, <1>3, SameLocals DEF TypeOK
  <1>5. CASE Continues(bag) /\ UNCHANGED <<cluster, untracked>>
    <2> DEFINE none == {}
    <2>1. /\ bag \cup none = bag /\ none \subseteq Keys
          /\ \A l \in Ledger : Flag[l] \notin none
      OBVIOUS
    <2> HIDE DEF none
    <2>2. Ends(bag \cup none)
      BY <1>5, <2>1 DEF Ends
    <2>3. QED BY <1>1, <1>4, <1>5, <2>1, <2>2, PlainEffect
  <1>6. CASE (Creates(k) /\ Stays("watch publish", bag \cup more)) \/ CreateFails(k)
    <2>1. (Creates(k) /\ Ends(bag \cup more)) \/ CreateFails(k)
      BY <1>6 DEF Ends, Places, Waits
    <2>2. QED BY <1>1, <1>2, <1>4, <2>1, CreateEffect
  <1>7. QED BY <1>5, <1>6 DEF StepPublishSource

LEMMA RunStepEffect == ASSUME TypeOK, RunStep PROVE RunEffect
  BY QuietEffect, StepImportImageEffect, WatchItemImportEffect,
     StepCreateSourceEffect, CreateSourceObjectsEffect, WatchSourceEffect,
     CreateConsoleRequestEffect, StepApplyTagsEffect, StepPublishSourceEffect
  DEF RunStep

-----------------------------------------------------------------------------
(* What one clean-up may do *)

CleanupEffect ==
  /\ phase = "cleanup"
  /\ UNCHANGED <<config, ctxDone, broke, panicking, at, bag, local, result,
                 untracked, provisioned, stage, published>>
  /\ \/ pc > 0 /\ pc' = pc - 1 /\ phase' = "cleanup"
     \/ pc = 0 /\ pc' = pc /\ phase' = "return" /\ UNCHANGED <<owner, undeleted>>
  /\ owner' \in [Objects -> {"nobody", "packer", "other"}]
  /\ undeleted \subseteq undeleted' /\ undeleted' \subseteq Objects
  /\ \A k \in undeleted' : k \in undeleted \/ owner[k] = "packer"
  /\ \A k \in Objects : owner'[k] # owner[k] =>
       /\ owner'[k] = "nobody"
       /\ k # "publishRequest" => owner[k] = "packer" /\ k \notin ToKeep
  /\ \A k \in Ledger :
       pc > 0 /\ Steps[pc] = Cleaner(k) /\ Flag[k] \in bag /\ owner'[k] = "packer"
         => k \in ToKeep \cup undeleted'
  /\ /\ pc > 0 /\ Steps[pc] = "StepImportImage" /\ Flag["importRequest"] \in bag
     /\ Opt("clean_imported_image") /\ "item name" \in fields
     => owner'["image"] # "packer" \/ "image" \in undeleted'

\* What the deletion of some objects does to all of them.
LEMMA DeletesEffect ==
  ASSUME TypeOK, NEW ks \in SUBSET Objects, Deletes(ks)
  PROVE  /\ owner' \in [Objects -> {"nobody", "packer", "other"}]
         /\ undeleted \subseteq undeleted' /\ undeleted' \subseteq Objects
         /\ \A k \in undeleted' : k \in undeleted \/ owner[k] = "packer"
         /\ \A k \in Objects : owner'[k] # owner[k] => k \in ks /\ owner'[k] = "nobody"
         /\ \A k \in ks : owner'[k] # "packer" \/ k \in undeleted'
         /\ UNCHANGED <<stage, published>>
  <1>1. PICK failed \in SUBSET {k \in ks : owner[k] # "nobody"} :
          /\ owner' = [k \in Objects |-> IF k \in ks \ failed THEN "nobody" ELSE owner[k]]
          /\ undeleted' = undeleted \cup {k \in failed : owner[k] = "packer"}
    BY DEF Deletes
  <1>2. \A k \in Objects : owner[k] \in {"nobody", "packer", "other"}
    BY DEF TypeOK
  <1>3. undeleted \subseteq Objects
    BY DEF TypeOK
  <1>4. QED BY <1>1, <1>2, <1>3 DEF Deletes

LEMMA CleanupStepEffect ==
  ASSUME TypeOK, TrackedInv, CleanupStep PROVE CleanupEffect
  <1>1. pc \in Nat
    <2>1. pc \in 0 .. Len(Steps) + 1 /\ Len(Steps) \in Nat
      BY StepsType DEF TypeOK
    <2>2. QED BY <2>1
  <1>2. CASE NothingToClean
    <2>1. /\ phase = "cleanup" /\ pc = 0 /\ pc' = pc /\ phase' = "return"
          /\ UNCHANGED <<config, ctxDone, broke, panicking, at, bag, local, owner,
                         stage, published, result, untracked, undeleted, provisioned>>
      BY <1>2 DEF NothingToClean, history, cluster
    <2>2. owner' \in [Objects -> {"nobody", "packer", "other"}] /\ undeleted' \subseteq Objects
      BY <2>1 DEF TypeOK
    <2>3. ~(pc > 0)
      BY <2>1
    <2>4. QED BY <2>1, <2>2, <2>3 DEF CleanupEffect
  <1>3. CASE NoCleanup
    <2>1. \A k \in Ledger : Steps[pc] # Cleaner(k)
      BY <1>3 DEF NoCleanup, Cleaner
    <2>2. QED BY <1>1, <1>3, <2>1
              DEF NoCleanup, Cleaned, CleanupEffect, TypeOK, local, cluster
  <1>4. ASSUME NEW ks \in SUBSET Objects, Deletes(ks), Cleaned,
               phase = "cleanup", pc > 0,
               \A k \in ks \ {"publishRequest"} : owner[k] # "other" /\ k \notin ToKeep,
               \A k \in Ledger : Steps[pc] = Cleaner(k) /\ Flag[k] \in bag
                 => k \in ToKeep \cup ks,
               Steps[pc] = "StepImportImage" /\ Flag["importRequest"] \in bag
                 /\ Opt("clean_imported_image") /\ "item name" \in fields
                 => "image" \in ks
        PROVE  CleanupEffect
    <2>1. /\ owner' \in [Objects -> {"nobody", "packer", "other"}]
          /\ undeleted \subseteq undeleted' /\ undeleted' \subseteq Objects
          /\ \A k \in undeleted' : k \in undeleted \/ owner[k] = "packer"
          /\ \A k \in Objects : owner'[k] # owner[k] => k \in ks /\ owner'[k] = "nobody"
          /\ \A k \in ks : owner'[k] # "packer" \/ k \in undeleted'
          /\ UNCHANGED <<stage, published>>
      BY <1>4, DeletesEffect
    <2>2. /\ pc' = pc - 1 /\ phase' = "cleanup"
          /\ UNCHANGED <<config, ctxDone, broke, panicking, at, bag, local, result,
                         untracked, provisioned>>
      BY <1>4 DEF Cleaned
    <2>3. \A k \in Objects : owner[k] \in {"nobody", "packer", "other"}
      BY DEF TypeOK
    <2>4. \A k \in Objects : owner'[k] # owner[k] /\ k # "publishRequest" =>
            owner[k] = "packer" /\ k \notin ToKeep
      BY <1>4, <2>1, <2>3
    <2>5. \A k \in Ledger :
            Steps[pc] = Cleaner(k) /\ Flag[k] \in bag /\ owner'[k] = "packer"
              => k \in ToKeep \cup undeleted'
      BY <1>4, <2>1
    <2>6. QED BY <1>4, <2>1, <2>2, <2>4, <2>5 DEF CleanupEffect
  <1>5. CASE StepPublishSourceCleanup
    <2> DEFINE ks == IF Opt("keep_input_artifact") THEN {} ELSE {"publishRequest"}
    <2>1. ks \in SUBSET Objects
      BY DEF Objects
    <2>2. /\ Deletes(ks) /\ Cleaned /\ phase = "cleanup" /\ pc > 0
          /\ Steps[pc] = "StepPublishSource"
      BY <1>5 DEF StepPublishSourceCleanup, CleaningUp
    <2>3. \A k \in Ledger : Steps[pc] = Cleaner(k) => k \in ToKeep \cup ks
      BY <2>2 DEF Cleaner, ToKeep, Ledger
    <2>4. ks \subseteq {"publishRequest"}
      OBVIOUS
    <2> HIDE DEF ks
    <2>5. QED BY <1>4, <2>1, <2>2, <2>3, <2>4
  <1>6. CASE StepCreateSourceCleanup
    <2> DEFINE ks == IF Opt("keep_input_artifact") THEN {} ELSE Created
    <2>1. ks \in SUBSET Objects /\ ks \subseteq SourceObjects
      BY DEF Objects, Created
    <2>2. /\ Deletes(ks) /\ Cleaned /\ phase = "cleanup" /\ pc > 0
          /\ Steps[pc] = "StepCreateSource"
      BY <1>6 DEF StepCreateSourceCleanup, CleaningUp
    <2>3. SourceObjects \subseteq Ledger \ {"publishRequest"}
      BY DEF SourceObjects, Ledger, Objects
    <2>4. \A k \in ks : owner[k] # "other" /\ k \notin ToKeep
      <3>1. \A k \in ks : Flag[k] \in bag
        BY DEF Created
      <3>2. \A k \in ks : owner[k] # "other"
        BY <2>1, <2>3, <3>1 DEF TrackedInv
      <3>3. \A k \in ks : k \notin ToKeep
        BY <2>1, <2>3 DEF ToKeep, SourceObjects
      <3>4. QED BY <3>2, <3>3
    <2>5. \A k \in Ledger : Steps[pc] = Cleaner(k) /\ Flag[k] \in bag
            => k \in ToKeep \cup ks
      BY <2>2 DEF Cleaner, ToKeep, Created, Ledger, Objects
    <2> HIDE DEF ks
    <2>6. QED BY <1>4, <2>1, <2>2, <2>4, <2>5
  <1>7. CASE StepImportImageCleanup
    <2> DEFINE ks == IF Flag["importRequest"] \notin bag THEN {}
                     ELSE (IF Opt("keep_import_request") THEN {} ELSE {"importRequest"})
                          \cup (IF Opt("clean_imported_image") /\ "item name" \in fields
                                THEN {"image"} ELSE {})
    <2>1. ks \in SUBSET Objects /\ ks \subseteq {"importRequest", "image"}
      BY DEF Objects
    <2>2. /\ Deletes(ks) /\ Cleaned /\ phase = "cleanup" /\ pc > 0
          /\ Steps[pc] = "StepImportImage"
      BY <1>7 DEF StepImportImageCleanup, CleaningUp
    <2>3. \A k \in ks : owner[k] # "other" /\ k \notin ToKeep
      <3>1. "importRequest" \in Ledger \ {"publishRequest"}
        BY DEF Ledger, Objects
      <3>2. "importRequest" \in ks => Flag["importRequest"] \in bag /\ ~Opt("keep_import_request")
        OBVIOUS
      <3>3. "importRequest" \in ks => owner["importRequest"] # "other"
        BY <3>1, <3>2 DEF TrackedInv
      <3>4. "importRequest" \in ks => "importRequest" \notin ToKeep
        BY <3>2 DEF ToKeep, SourceObjects
      <3>5. owner["image"] # "other" /\ "image" \notin ToKeep
        BY DEF TrackedInv, ToKeep, SourceObjects
      <3> HIDE DEF ks
      <3>6. QED BY <2>1, <3>3, <3>4, <3>5
    <2>4. \A k \in Ledger : Steps[pc] = Cleaner(k) /\ Flag[k] \in bag
            => k \in ToKeep \cup ks
      <3>1. \A k \in Ledger : Steps[pc] = Cleaner(k) => k = "importRequest"
        BY <2>2 DEF Cleaner
      <3>2. Flag["importRequest"] \in bag => "importRequest" \in ToKeep \cup ks
        BY DEF ToKeep
      <3>3. QED BY <3>1, <3>2
    <2>5. /\ Flag["importRequest"] \in bag /\ Opt("clean_imported_image")
          /\ "item name" \in fields
          => "image" \in ks
      OBVIOUS
    <2> HIDE DEF ks
    <2>6. QED BY <1>4, <2>1, <2>2, <2>3, <2>4, <2>5
  <1>8. QED BY <1>2, <1>3, <1>5, <1>6, <1>7 DEF CleanupStep

-----------------------------------------------------------------------------
(* Which clean-ups are due after an action *)

LEMMA CounterType ==
  ASSUME TypeOK
  PROVE  /\ Len(Steps) \in Nat /\ pc \in Nat /\ pc <= Len(Steps) + 1
         /\ phase = "step" => pc \in 1 .. Len(Steps)
         /\ phase = "loop" => pc >= 1
         /\ phase = "cleanup" => pc <= Len(Steps)
  <1>1. Len(Steps) \in Nat
    BY StepsType
  <1>2. /\ pc \in 0 .. Len(Steps) + 1
        /\ phase = "step" => pc \in 1 .. Len(Steps)
        /\ phase = "loop" => pc >= 1
        /\ phase = "cleanup" => pc <= Len(Steps)
    BY DEF TypeOK
  <1>3. QED BY <1>1, <1>2

LEMMA DueAfterStep ==
  ASSUME TypeOK, RunEffect, NEW k
  PROVE  /\ CleanupDue(k) => CleanupDue(k)'
         /\ Steps[pc] = Cleaner(k) => CleanupDue(k)'
  <1>1. Steps' = Steps
    BY StepsConstant DEF RunEffect
  <1>2. Steps[pc] = Cleaner(k) => ~(phase' = "cleanup" /\ pc' = pc - 1)
        \/ Steps[pc] # "StepApplyTags"
    BY DEF Cleaner
  <1>3. Cleaner(k) # "StepApplyTags"
    BY DEF Cleaner
  <1>4. /\ phase = "step" /\ pc \in 1 .. Len(Steps) /\ Len(Steps) \in Nat
        /\ \/ phase' = "step" /\ pc' = pc
           \/ phase' = "loop" /\ pc' = pc + 1
           \/ phase' = "cleanup" /\ pc' = pc
           \/ phase' = "cleanup" /\ pc' = pc - 1 /\ Steps[pc] = "StepApplyTags"
    BY CounterType DEF RunEffect, Outcome
  <1>5. \A i \in 1 .. Len(Steps) : i <= pc /\ Steps[i] = Cleaner(k) => CleanupDue(k)'
    BY <1>1, <1>3, <1>4 DEF CleanupDue, Cleaner
  <1>6. QED BY <1>4, <1>5 DEF CleanupDue

LEMMA DueAfterCleanup ==
  ASSUME TypeOK, CleanupEffect, NEW k, CleanupDue(k)
  PROVE  pc > 0 /\ (Steps[pc] = Cleaner(k) \/ CleanupDue(k)')
  <1>1. Steps' = Steps
    BY StepsConstant DEF CleanupEffect
  <1>2. pc \in Nat /\ phase = "cleanup" /\ pc <= Len(Steps) /\ Len(Steps) \in Nat
    BY CounterType DEF CleanupEffect
  <1>3. PICK i \in 1 .. Len(Steps) : Steps[i] = Cleaner(k) /\ i <= pc
    BY <1>2 DEF CleanupDue
  <1>4. pc > 0 /\ phase' = "cleanup" /\ pc' = pc - 1
    <2>1. pc > 0 /\ pc # 0
      BY <1>2, <1>3
    <2>2. (pc' = pc - 1 /\ phase' = "cleanup") \/ pc = 0
      BY DEF CleanupEffect
    <2>3. QED BY <2>1, <2>2
  <1>5. QED BY <1>1, <1>2, <1>3, <1>4 DEF CleanupDue, Cleaner

LEMMA DueAfterNextStep ==
  ASSUME TypeOK, NextStep, NEW k, CleanupDue(k)
  PROVE  CleanupDue(k)'
  <1>1. Steps' = Steps
    BY StepsConstant DEF NextStep
  <1>2. pc \in Nat /\ Len(Steps) \in Nat /\ phase = "loop"
    BY CounterType DEF NextStep
  <1>3. PICK i \in 1 .. Len(Steps) : Steps[i] = Cleaner(k) /\ i < pc
    BY <1>2 DEF CleanupDue
  <1>4. \/ phase' = "cleanup" /\ pc' = pc - 1
        \/ phase' = "step" /\ pc' = pc
    BY DEF NextStep
  <1>5. QED BY <1>1, <1>2, <1>3, <1>4 DEF CleanupDue, Cleaner

LEMMA DueUnchanged ==
  ASSUME UNCHANGED <<config, phase, pc>>, NEW k
  PROVE  CleanupDue(k)' <=> CleanupDue(k)
  <1>1. Steps' = Steps
    BY StepsConstant
  <1>2. QED BY <1>1 DEF CleanupDue, Cleaner

-----------------------------------------------------------------------------
(* Type correctness *)

LEMMA InitTypeOK == Init => TypeOK
  <1> SUFFICES ASSUME Init PROVE TypeOK
    OBVIOUS
  <1>1. Len(Steps) \in Nat
    BY StepsType
  <1>2. pc \in 0 .. Len(Steps) + 1 /\ pc = 1 /\ phase = "loop"
    BY <1>1 DEF Init
  <1>3. owner \in [Objects -> {"nobody", "packer", "other"}]
    BY DEF Init
  <1>4. stage \in [Objects -> 0 .. 2]
    BY DEF Init
  <1>5. config \in Configs /\ untracked = {} /\ undeleted = {} /\ fields = {}
        /\ bag = {} /\ at = "start" /\ "start" \in Places
    BY DEF Init, Places
  <1>6. /\ ctxDone \in BOOLEAN /\ broke \in BOOLEAN /\ panicking \in BOOLEAN
        /\ published \in BOOLEAN /\ provisioned \in BOOLEAN
        /\ imageType = "unknown" /\ seen = 0 /\ result = "pending"
    BY DEF Init
  <1>7. QED BY <1>2, <1>3, <1>4, <1>5, <1>6 DEF TypeOK

\* One step of a controller.
ControllerEffect ==
  /\ UNCHANGED <<config, runner, at, bag, local, result, history>>
  /\ stage' \in [Objects -> 0 .. 2]
  /\ \A k \in Objects : stage'[k] >= stage[k]
  /\ \A k \in Objects : stage'[k] # stage[k] => owner[k] = "packer"
  /\ \/ UNCHANGED owner
     \/ /\ stage["importRequest"] = 0
        /\ owner' = [owner EXCEPT !["image"] = "packer"]
  /\ published' \in BOOLEAN
  /\ published => published'
  /\ ~published /\ published' => owner["publishRequest"] = "packer"
  /\ stage'["publishRequest"] # stage["publishRequest"] => published'
  /\ stage["service"] <= 1 => stage'["service"] <= 1

LEMMA ReconcilesEffect ==
  ASSUME TypeOK, NEW k \in Objects, NEW s \in 1 .. 2, Reconciles(k, s)
  PROVE  /\ UNCHANGED <<config, runner, at, bag, local, result, history>>
         /\ stage' \in [Objects -> 0 .. 2]
         /\ \A l \in Objects : stage'[l] >= stage[l]
         /\ \A l \in Objects : stage'[l] # stage[l] => owner[l] = "packer"
  <1>1. /\ owner[k] = "packer" /\ stage[k] < s /\ s \in 0 .. 2
        /\ stage' = [stage EXCEPT ![k] = s]
    BY DEF Reconciles
  <1>2. \A l \in Objects : stage[l] \in 0 .. 2
    BY DEF TypeOK
  <1>3. stage' \in [Objects -> 0 .. 2]
    BY <1>1 DEF TypeOK
  <1>4. \A l \in Objects : stage'[l] = IF l = k THEN s ELSE stage[l]
    BY <1>1 DEF TypeOK
  <1>5. UNCHANGED <<config, runner, at, bag, local, result, history>>
    BY DEF Reconciles
  <1>6. \A l \in Objects : stage'[l] >= stage[l]
    BY <1>1, <1>2, <1>4
  <1>7. \A l \in Objects : stage'[l] # stage[l] => owner[l] = "packer"
    BY <1>1, <1>4
  <1>8. QED BY <1>3, <1>5, <1>6, <1>7

LEMMA ControllersEffect ==
  ASSUME TypeOK, Controllers PROVE ControllerEffect
  <1>1. {"importRequest", "vm", "service", "consoleRequest", "publishRequest"}
          \subseteq Objects
    BY DEF Objects, SourceObjects
  <1>2. 1 \in 1 .. 2
    OBVIOUS
  <1>3. \E k \in Objects, s \in 1 .. 2 : Reconciles(k, s)
    BY <1>1, <1>2 DEF Controllers, ImportController, VMController, ServiceController,
       ConsoleController, PublishController
  <1>4. /\ UNCHANGED <<config, runner, at, bag, local, result, history>>
        /\ stage' \in [Objects -> 0 .. 2]
        /\ \A l \in Objects : stage'[l] >= stage[l]
        /\ \A l \in Objects : stage'[l] # stage[l] => owner[l] = "packer"
    BY <1>3, ReconcilesEffect
  <1>5. \/ UNCHANGED owner
        \/ /\ stage["importRequest"] = 0
           /\ owner' = [owner EXCEPT !["image"] = "packer"]
    BY DEF Controllers, ImportController, VMController, ServiceController,
       ConsoleController, PublishController
  <1>6. published' \in BOOLEAN
    BY DEF Controllers, ImportController, VMController, ServiceController,
       ConsoleController, PublishController, TypeOK
  <1>7. CASE PublishController
    <2>1. /\ owner["publishRequest"] = "packer" /\ published'
          /\ stage' = [stage EXCEPT !["publishRequest"] = 1]
      BY <1>7 DEF PublishController, Reconciles
    <2>2. stage'["service"] = stage["service"]
      BY <1>1, <2>1 DEF TypeOK
    <2>3. QED BY <1>4, <1>5, <1>6, <2>1, <2>2 DEF ControllerEffect
  <1>8. CASE \/ ImportController \/ VMController \/ ServiceController
             \/ ConsoleController
    <2>1. PICK k \in Objects \ {"publishRequest"}, s \in 1 .. 2 :
            /\ stage' = [stage EXCEPT ![k] = s]
            /\ k = "service" => s = 1
      BY <1>1, <1>2, <1>8 DEF ImportController, VMController, ServiceController,
         ConsoleController, Reconciles
    <2>2. /\ stage'["publishRequest"] = stage["publishRequest"]
          /\ stage["service"] <= 1 => stage'["service"] <= 1
      <3>1. \A l \in Objects : stage'[l] = IF l = k THEN s ELSE stage[l]
        BY <2>1 DEF TypeOK
      <3>2. QED BY <1>1, <2>1, <3>1
    <2>3. published' = published
      BY <1>8 DEF ImportController, VMController, ServiceController,
         ConsoleController
    <2>4. QED BY <1>4, <1>5, <1>6, <2>2, <2>3 DEF ControllerEffect
  <1>9. QED BY <1>7, <1>8 DEF Controllers

LEMMA NextTypeOK ==
  ASSUME TypeOK, TrackedInv, [Next]_vars PROVE TypeOK'
  <1> USE CounterType
  <1>1. CASE RunStep
    <2>1. RunEffect
      BY <1>1, RunStepEffect
    <2>2. Steps' = Steps
      BY <2>1, StepsConstant DEF RunEffect
    <2>3. /\ phase' \in {"step", "loop", "cleanup"}
          /\ pc' \in 0 .. Len(Steps) + 1
          /\ phase' = "step" => pc' \in 1 .. Len(Steps)
          /\ phase' = "loop" => pc' >= 1
          /\ phase' = "cleanup" => pc' <= Len(Steps)
      BY <2>1 DEF RunEffect, Outcome
    <2>4. broke' \in BOOLEAN /\ panicking' \in BOOLEAN
      BY <2>1 DEF RunEffect, Outcome, TypeOK
    <2>5. /\ at' \in Places /\ imageType' \in ImageTypes \cup {"unknown"}
          /\ seen' \in 0 .. 2 /\ fields' \subseteq {"item name", "console shown"}
          /\ provisioned' \in BOOLEAN
      BY <2>1 DEF RunEffect, Locals
    <2>6. /\ bag' \subseteq Keys /\ untracked' \subseteq Objects
          /\ owner' \in [Objects -> {"nobody", "packer", "other"}]
      BY <2>1 DEF RunEffect, Holdings
    <2>7. UNCHANGED <<config, ctxDone, stage, published, result, undeleted>>
      BY <2>1 DEF RunEffect
    <2>8. QED BY <2>2, <2>3, <2>4, <2>5, <2>6, <2>7 DEF TypeOK
  <1>2. CASE CleanupStep
    <2>1. CleanupEffect
      BY <1>2, CleanupStepEffect
    <2>2. /\ Steps' = Steps
          /\ UNCHANGED <<config, ctxDone, broke, panicking, at, bag, local, result,
                         untracked, provisioned, stage, published>>
      BY <2>1, StepsConstant DEF CleanupEffect
    <2>3. /\ phase = "cleanup"
          /\ \/ pc > 0 /\ pc' = pc - 1 /\ phase' = "cleanup"
             \/ pc = 0 /\ pc' = pc /\ phase' = "return"
          /\ owner' \in [Objects -> {"nobody", "packer", "other"}]
          /\ undeleted' \subseteq Objects
      BY <2>1 DEF CleanupEffect
    <2>4. /\ pc' \in 0 .. Len(Steps) + 1 /\ phase' \in {"cleanup", "return"}
          /\ phase' = "cleanup" => pc' <= Len(Steps)
      BY <2>3
    <2>5. QED BY <2>2, <2>3, <2>4 DEF TypeOK, local
  <1>3. CASE Controllers
    <2>1. ControllerEffect
      BY <1>3, ControllersEffect
    <2>2. /\ UNCHANGED <<config, runner, at, bag, local, result, history>>
          /\ stage' \in [Objects -> 0 .. 2] /\ published' \in BOOLEAN
      BY <2>1 DEF ControllerEffect
    <2>3. owner' \in [Objects -> {"nobody", "packer", "other"}]
      BY <2>1 DEF ControllerEffect, TypeOK
    <2>4. Steps' = Steps
      BY <2>2, StepsConstant
    <2>5. QED BY ZenonT(30), <2>2, <2>3, <2>4 DEF TypeOK, runner, local, history
  <1>4. CASE NextStep
    <2>1. Steps' = Steps
      BY <1>4, StepsConstant DEF NextStep
    <2>2. /\ phase = "loop" /\ phase' \in {"step", "cleanup"} /\ broke' \in BOOLEAN
          /\ \/ phase' = "cleanup" /\ pc' = pc - 1
             \/ phase' = "step" /\ pc' = pc /\ pc <= Len(Steps)
      <3>1. broke \in BOOLEAN
        BY DEF TypeOK
      <3>2. pc \in Nat /\ Len(Steps) \in Nat
        BY CounterType
      <3>3. CASE pc > Len(Steps)
        BY <1>4, <3>1, <3>3 DEF NextStep
      <3>4. CASE ~(pc > Len(Steps))
        <4>1. pc <= Len(Steps)
          BY <3>2, <3>4
        <4>2. CASE ctxDone
          BY <1>4, <3>1, <3>4, <4>2 DEF NextStep
        <4>3. CASE ~ctxDone
          BY <1>4, <3>1, <3>4, <4>1, <4>3 DEF NextStep
        <4>4. QED BY <4>2, <4>3
      <3>5. QED BY <3>3, <3>4
    <2>3. /\ pc' \in 0 .. Len(Steps) + 1
          /\ phase' = "step" => pc' \in 1 .. Len(Steps)
          /\ phase' = "cleanup" => pc' <= Len(Steps)
      BY <2>2
    <2>4. QED BY <1>4, <2>1, <2>2, <2>3 DEF NextStep, TypeOK, local, cluster, history
  <1>5. CASE Cancel
    <2>1. Steps' = Steps
      BY <1>5, StepsConstant DEF Cancel
    <2>2. QED BY <1>5, <2>1 DEF Cancel, TypeOK, local, cluster, history
  <1>6. CASE Return
    <2>1. Steps' = Steps
      BY <1>6, StepsConstant DEF Return
    <2>2. /\ phase' = "done" /\ result' \in {"pending", "nil", "error", "panic"}
          /\ UNCHANGED <<config, pc, ctxDone, broke, panicking, at, bag, local, cluster,
                         history>>
      BY <1>6 DEF Return
    <2>3. QED BY <2>1, <2>2 DEF TypeOK, local, cluster, history
  <1>7. CASE UNCHANGED vars
    <2>1. Steps' = Steps
      BY <1>7, StepsConstant DEF vars
    <2>2. QED BY ZenonT(30), <1>7, <2>1 DEF TypeOK, vars, runner, local, cluster, history
  <1>8. QED BY <1>1, <1>2, <1>3, <1>4, <1>5, <1>6, <1>7 DEF Next, Builder, Terminated

-----------------------------------------------------------------------------
(* The invariant is inductive *)

LEMMA InitInv == Init => Inv
  <1> SUFFICES ASSUME Init PROVE Inv
    OBVIOUS
  <1>1. TypeOK
    BY InitTypeOK
  <1>2. ControlInv
    BY DEF Init, ControlInv
  <1>3. \A k \in Objects : owner[k] \in {"nobody", "other"}
    BY DEF Init
  <1>4. owner["image"] = "nobody"
    <2>1. "image" \in Objects
      BY DEF Objects
    <2>2. PICK others \in Foreign :
             owner = [k \in Objects |-> IF k \in others THEN "other" ELSE "nobody"]
      BY DEF Init
    <2>3. "image" \notin others
      BY ConfigsAssumption
    <2>4. QED BY <2>1, <2>2, <2>3
  <1>5. TrackedInv
    BY <1>3, <1>4 DEF Init, TrackedInv, Ledger
  <1>6. ImageInv
    BY DEF Init, ImageInv
  <1>7. QED BY <1>1, <1>2, <1>5, <1>6 DEF Inv

LEMMA RunStepInv ==
  ASSUME Inv, RunEffect PROVE ControlInv' /\ TrackedInv' /\ ImageInv'
  <1> USE DEF Inv
  <1>1. ControlInv'
    <2>1. phase = "step" /\ ~broke /\ ~panicking /\ result = "pending"
      BY DEF RunEffect, ControlInv
    <2>2. UNCHANGED <<ctxDone, result>> /\ Outcome
      BY DEF RunEffect
    <2>3. QED BY <2>1, <2>2 DEF Outcome, ControlInv
  <1>2. Holdings /\ UNCHANGED <<config, undeleted, stage>> /\ phase = "step"
    BY DEF RunEffect
  <1>3. ToKeep' = ToKeep
    BY <1>2 DEF ToKeep, Opt
  <1>4. "publishRequest" \in Ledger /\ Ledger \subseteq Objects /\ "importRequest" \in Ledger
    BY DEF Ledger, Objects
  <1>5. TrackedInv'
    <2>1. ASSUME NEW k \in Ledger, owner'[k] = "packer",
                 k \notin (ToKeep \cup untracked' \cup undeleted)
          PROVE  Flag[k] \in bag' /\ CleanupDue(k)'
      <3>1. CASE owner'[k] = owner[k]
        <4>1. k \notin ToKeep \cup untracked \cup undeleted
          BY <1>2, <2>1 DEF Holdings
        <4>2. Flag[k] \in bag /\ CleanupDue(k)
          BY <2>1, <3>1, <4>1 DEF TrackedInv
        <4>3. QED BY <1>2, <4>2, DueAfterStep DEF Holdings
      <3>2. CASE owner'[k] # owner[k]
        <4>1. Flag[k] \in bag' /\ Steps[pc] = Cleaner(k)
          BY <1>2, <2>1, <3>2 DEF Holdings
        <4>2. QED BY <4>1, DueAfterStep
      <3>3. QED BY <3>1, <3>2
    <2>2. ASSUME NEW k \in Ledger \ {"publishRequest"}, Flag[k] \in bag'
          PROVE  owner'[k] # "other"
      BY <1>2, <1>4, <2>2 DEF Holdings, TrackedInv
    <2>3. owner'["image"] # "other"
      BY <1>2 DEF Holdings, TrackedInv
    <2>4. QED BY <1>2, <1>3, <2>1, <2>2, <2>3 DEF TrackedInv
  <1>6. ImageInv'
    <2>1. Locals /\ bag \subseteq bag'
      BY <1>2 DEF RunEffect, Holdings
    <2>2. at' = "watch import" => Flag["importRequest"] \in bag'
      BY <2>1 DEF Locals, ImageInv
    <2>3. "item name" \in fields' =>
             stage["importRequest"] >= 1 /\ Flag["importRequest"] \in bag'
      BY <2>1 DEF Locals, ImageInv
    <2>4. ASSUME Opt("clean_imported_image")', "item name" \in fields',
                 owner'["image"] = "packer", "image" \notin undeleted
          PROVE  CleanupDue("importRequest")'
      <3>1. owner["image"] = "packer" /\ Opt("clean_imported_image")
        BY <1>2, <2>4 DEF Holdings, Opt
      <3>2. CASE "item name" \in fields
        <4>1. CleanupDue("importRequest")
          BY <2>4, <3>1, <3>2 DEF ImageInv
        <4>2. QED BY <4>1, DueAfterStep
      <3>3. CASE "item name" \notin fields
        <4>1. Steps[pc] = Cleaner("importRequest")
          BY <2>1, <2>4, <3>3 DEF Locals, Cleaner
        <4>2. QED BY <4>1, DueAfterStep
      <3>4. QED BY <3>2, <3>3
    <2>5. QED BY <1>2, <2>2, <2>3, <2>4 DEF ImageInv
  <1>7. QED BY <1>1, <1>5, <1>6

LEMMA CleanupInv ==
  ASSUME Inv, CleanupEffect PROVE ControlInv' /\ TrackedInv' /\ ImageInv'
  <1> USE DEF Inv
  <1>1. /\ phase = "cleanup" /\ phase' \in {"cleanup", "return"}
        /\ UNCHANGED <<config, ctxDone, broke, panicking, at, bag, imageType, fields,
                       result, untracked, stage>>
    BY DEF CleanupEffect, local
  <1>2. ControlInv'
    BY <1>1 DEF ControlInv
  <1>3. ToKeep' = ToKeep /\ (Opt("clean_imported_image")' <=> Opt("clean_imported_image"))
    BY <1>1 DEF ToKeep, Opt
  <1>4. Ledger \subseteq Objects /\ "image" \in Objects
    BY DEF Ledger, Objects
  <1>5. /\ undeleted \subseteq undeleted'
        /\ \A k \in Objects : owner'[k] # owner[k] => owner'[k] = "nobody"
        /\ \A k \in Ledger :
             pc > 0 /\ Steps[pc] = Cleaner(k) /\ Flag[k] \in bag /\ owner'[k] = "packer"
               => k \in ToKeep \cup undeleted'
        /\ /\ pc > 0 /\ Steps[pc] = "StepImportImage" /\ Flag["importRequest"] \in bag
           /\ Opt("clean_imported_image") /\ "item name" \in fields
           => owner'["image"] # "packer" \/ "image" \in undeleted'
    BY DEF CleanupEffect
  <1>6. TrackedInv'
    <2>1. ASSUME NEW k \in Ledger, owner'[k] = "packer",
                 k \notin (ToKeep \cup untracked \cup undeleted')
          PROVE  Flag[k] \in bag /\ CleanupDue(k)'
      <3>1. owner[k] = "packer" /\ k \notin ToKeep \cup untracked \cup undeleted
        BY <1>4, <1>5, <2>1
      <3>2. Flag[k] \in bag /\ CleanupDue(k)
        BY <3>1 DEF TrackedInv
      <3>3. pc > 0 /\ (Steps[pc] = Cleaner(k) \/ CleanupDue(k)')
        BY <3>2, DueAfterCleanup
      <3>4. QED BY <1>5, <2>1, <3>2, <3>3
    <2>2. \A k \in Ledger \ {"publishRequest"} : Flag[k] \in bag' => owner'[k] # "other"
      BY <1>1, <1>4, <1>5 DEF TrackedInv
    <2>3. owner'["image"] # "other"
      BY <1>4, <1>5 DEF TrackedInv
    <2>4. QED BY <1>1, <1>3, <2>1, <2>2, <2>3 DEF TrackedInv
  <1>7. ImageInv'
    <2>1. ASSUME Opt("clean_imported_image"), "item name" \in fields,
                 owner'["image"] = "packer", "image" \notin undeleted'
          PROVE  CleanupDue("importRequest")'
      <3>1. owner["image"] = "packer" /\ "image" \notin undeleted
        BY <1>4, <1>5, <2>1
      <3>2. Flag["importRequest"] \in bag /\ CleanupDue("importRequest")
        BY <2>1, <3>1 DEF ImageInv
      <3>3. pc > 0 /\ (Steps[pc] = "StepImportImage" \/ CleanupDue("importRequest")')
        BY <3>2, DueAfterCleanup DEF Cleaner
      <3>4. QED BY <1>5, <2>1, <3>2, <3>3
    <2>2. QED BY <1>1, <1>3, <2>1 DEF ImageInv
  <1>8. QED BY <1>2, <1>6, <1>7

LEMMA ControllersInv ==
  ASSUME Inv, ControllerEffect PROVE ControlInv' /\ TrackedInv' /\ ImageInv'
  <1> USE DEF Inv
  <1>1. UNCHANGED <<config, phase, pc, ctxDone, broke, panicking, at, bag, imageType,
                    fields, result, untracked, undeleted>>
    BY DEF ControllerEffect, runner, local, history
  <1>2. ControlInv'
    BY <1>1 DEF ControlInv
  <1>3. \A k : CleanupDue(k)' <=> CleanupDue(k)
    BY <1>1, DueUnchanged
  <1>4. ToKeep' = ToKeep /\ (Opt("clean_imported_image")' <=> Opt("clean_imported_image"))
    BY <1>1 DEF ToKeep, Opt
  <1>5. /\ \A k \in Objects \ {"image"} : owner'[k] = owner[k]
        /\ owner'["image"] = owner["image"]
             \/ (owner'["image"] = "packer" /\ stage["importRequest"] = 0)
    <2>1. "image" \in Objects
      BY DEF Objects
    <2>2. QED BY <2>1 DEF ControllerEffect, TypeOK
  <1>6. Ledger \subseteq Objects \ {"image"}
    BY DEF Ledger
  <1>7. TrackedInv'
    BY <1>1, <1>3, <1>4, <1>5, <1>6 DEF TrackedInv
  <1>8. stage["importRequest"] \in 0 .. 2 /\ stage'["importRequest"] \in 0 .. 2
        /\ stage'["importRequest"] >= stage["importRequest"]
    <2>1. "importRequest" \in Objects
      BY DEF Objects
    <2>2. QED BY <2>1 DEF ControllerEffect, TypeOK
  <1>9. ImageInv'
    <2>1. "item name" \in fields => stage["importRequest"] >= 1
      BY DEF ImageInv
    <2>2. "item name" \in fields =>
            stage'["importRequest"] >= 1 /\ owner'["image"] = owner["image"]
      <3>1. SUFFICES ASSUME "item name" \in fields
                     PROVE  stage'["importRequest"] >= 1 /\ owner'["image"] = owner["image"]
        OBVIOUS
      <3>2. stage["importRequest"] >= 1 /\ stage["importRequest"] # 0
        <4>1. stage["importRequest"] \in 0 .. 2
          BY <1>8
        <4>2. stage["importRequest"] >= 1
          BY <2>1, <3>1
        <4>3. QED BY <4>1, <4>2
      <3>3. stage'["importRequest"] >= 1
        BY <1>8, <3>2
      <3>4. QED BY <1>5, <3>2, <3>3
    <2>3. QED BY <1>1, <1>3, <1>4, <2>2 DEF ImageInv
  <1>10. QED BY <1>2, <1>7, <1>9

LEMMA OtherInv ==
  ASSUME Inv, \/ NextStep \/ Cancel \/ Return \/ UNCHANGED vars
  PROVE  ControlInv' /\ TrackedInv' /\ ImageInv'
  <1> USE DEF Inv
  <1>1. UNCHANGED <<config, panicking, at, bag, imageType, fields, owner, stage,
                    untracked, undeleted>>
    BY DEF NextStep, Cancel, Return, vars, runner, local, cluster, history
  <1>2. ToKeep' = ToKeep /\ (Opt("clean_imported_image")' <=> Opt("clean_imported_image"))
    BY <1>1 DEF ToKeep, Opt
  <1>3. ControlInv'
    <2>1. CASE NextStep
      BY <1>1, <2>1 DEF NextStep, ControlInv
    <2>2. CASE Cancel
      BY <1>1, <2>2 DEF Cancel, ControlInv
    <2>3. CASE Return
      BY <1>1, <2>3 DEF Return, ControlInv
    <2>4. CASE UNCHANGED vars
      BY <1>1, <2>4 DEF vars, runner, ControlInv
    <2>5. QED BY <2>1, <2>2, <2>3, <2>4
  <1>4. \A k : CleanupDue(k) => CleanupDue(k)'
    <2>1. CASE NextStep
      BY <2>1, DueAfterNextStep
    <2>2. CASE Cancel \/ UNCHANGED vars
      BY <2>2, DueUnchanged DEF Cancel, vars, runner
    <2>3. CASE Return
      <3>1. \A k : ~CleanupDue(k)
        BY <2>3 DEF Return, CleanupDue
      <3>2. QED BY <3>1
    <2>4. QED BY <2>1, <2>2, <2>3
  <1>5. TrackedInv'
    BY <1>1, <1>2, <1>4 DEF TrackedInv
  <1>6. ImageInv'
    BY <1>1, <1>2, <1>4 DEF ImageInv
  <1>7. QED BY <1>3, <1>5, <1>6

LEMMA NextInv == Inv /\ [Next]_vars => Inv'
  <1> SUFFICES ASSUME Inv, [Next]_vars PROVE Inv'
    OBVIOUS
  <1>1. TypeOK /\ TrackedInv
    BY DEF Inv
  <1>2. TypeOK'
    BY <1>1, NextTypeOK
  <1>3. ControlInv' /\ TrackedInv' /\ ImageInv'
    <2>1. CASE RunStep
      BY <1>1, <2>1, RunStepEffect, RunStepInv
    <2>2. CASE CleanupStep
      BY <1>1, <2>2, CleanupStepEffect, CleanupInv
    <2>3. CASE Controllers
      BY <1>1, <2>3, ControllersEffect, ControllersInv
    <2>4. CASE \/ NextStep \/ Cancel \/ Return \/ UNCHANGED vars
      BY <2>4, OtherInv
    <2>5. QED BY <2>1, <2>2, <2>3, <2>4 DEF Next, Builder, Terminated
  <1>4. QED BY <1>2, <1>3 DEF Inv

LEMMA Invariance == Spec => []Inv
  BY InitInv, NextInv, PTL DEF Spec

-----------------------------------------------------------------------------
(* The theorems *)

\* Every variable keeps its type, whatever the configuration and whatever the
\* other users of the namespace hold.
THEOREM TypeCorrect == Spec => []TypeOK
  <1>1. Inv => TypeOK
    BY DEF Inv
  <1>2. QED BY <1>1, Invariance, PTL

\* No clean-up is due once Builder.Run has left the runner.
LEMMA NothingDue ==
  ASSUME phase \in {"return", "done"}, NEW k PROVE ~CleanupDue(k)
  BY DEF CleanupDue

\* Every object that a build has created and that exists after Builder.Run has
\* returned is kept, was created untold, or could not be deleted.
THEOREM NothingLeftBehind == Spec => []LeavesNothingBehind
  <1>1. Inv => LeavesNothingBehind
    BY NothingDue DEF Inv, LeavesNothingBehind, TrackedInv, ImageInv
  <1>2. QED BY <1>1, Invariance, PTL

\* A build that stops early and is not interrupted returns an error or panics,
\* except for an unsupported type of image.
THEOREM FailureIsReported == Spec => []FailureReported
  <1>1. Inv => FailureReported
    BY DEF Inv, FailureReported, ControlInv
  <1>2. QED BY <1>1, Invariance, PTL

\* No step, clean-up or controller makes an object disappear that another user
\* holds or that is to be kept, but for the publish request.
THEOREM OnlyOwnDeleted == Spec => DeletesOnlyOwn
  <1> DEFINE Spared == \A k \in Objects \ {"publishRequest"} :
                 owner'[k] # owner[k] /\ owner[k] # "nobody"
                   => owner[k] = "packer" /\ k \notin ToKeep
  <1>1. ASSUME Inv, [Next]_vars PROVE [Spared]_vars
    <2>1. TypeOK /\ TrackedInv
      BY <1>1 DEF Inv
    <2>2. CASE RunStep
      <3>1. Holdings
        BY <2>1, <2>2, RunStepEffect DEF RunEffect
      <3>2. Spared
        BY <3>1 DEF Holdings
      <3>3. QED BY <3>2
    <2>3. CASE CleanupStep
      <3>1. CleanupEffect
        BY <2>1, <2>3, CleanupStepEffect
      <3>2. Spared
        BY <3>1 DEF CleanupEffect
      <3>3. QED BY <3>2
    <2>4. CASE Controllers
      <3>1. ControllerEffect
        BY <2>1, <2>4, ControllersEffect
      <3>2. "image" \in Objects
        BY DEF Objects
      <3>3. \A k \in Objects : owner'[k] # owner[k] =>
              k = "image" /\ owner'[k] = "packer"
        BY <2>1, <3>1, <3>2 DEF ControllerEffect, TypeOK
      <3>4. owner["image"] \in {"nobody", "packer"}
        BY <2>1, <3>2 DEF TypeOK, TrackedInv
      <3>5. Spared
        BY <3>3, <3>4
      <3>6. QED BY <3>5
    <2>5. CASE UNCHANGED owner
      BY <2>5
    <2>6. QED BY <1>1, <2>2, <2>3, <2>4, <2>5
              DEF Next, Builder, Terminated, NextStep, Cancel, Return, vars, cluster
  <1>2. QED BY <1>1, Invariance, PTL DEF Spec, DeletesOnlyOwn

-----------------------------------------------------------------------------
(* The build implements the contract with its namespace *)

LEMMA RunStepContract ==
  ASSUME Inv, RunEffect PROVE [Contract!Next]_(Contract!vars)
  <1>1. /\ UNCHANGED <<config, result, undeleted>> /\ phase = "step" /\ Acquires
    BY DEF RunEffect, Holdings
  <1>2. result = "pending" /\ ToKeep' = ToKeep
    BY <1>1 DEF Inv, ControlInv, ToKeep, Opt
  <1>3. CASE UNCHANGED <<owner, untracked>>
    BY <1>1, <1>2, <1>3 DEF Contract!vars, Held, Excused
  <1>4. CASE \E k \in Objects \ {"image"} :
               /\ owner[k] = "nobody"
               /\ owner' = [owner EXCEPT ![k] = "packer"]
               /\ untracked' \in {untracked, untracked \cup {k}}
    <2>1. PICK k \in Objects \ {"image"} :
               /\ owner[k] = "nobody"
               /\ owner' = [owner EXCEPT ![k] = "packer"]
               /\ untracked' \in {untracked, untracked \cup {k}}
      BY <1>4
    <2>2. \A l \in Objects : owner'[l] = IF l = k THEN "packer" ELSE owner[l]
      BY <2>1 DEF Inv, TypeOK
    <2>3. Ledger \subseteq Objects
      BY DEF Ledger
    <2>4. CASE k \in Ledger
      <3>1. Held' = Held \cup {k} /\ k \notin Held
        BY <2>1, <2>2, <2>3, <2>4 DEF Held
      <3>2. Excused' \in {Excused, Excused \cup {k}}
        BY <1>1, <1>2, <2>1, <2>4 DEF Excused
      <3>3. Contract!Acquire
        BY <1>1, <1>2, <2>4, <3>1, <3>2 DEF Contract!Acquire
      <3>4. QED BY <3>3 DEF Contract!Next
    <2>5. CASE k \notin Ledger
      <3>1. Held' = Held
        BY <2>2, <2>3, <2>5 DEF Held
      <3>2. Excused' = Excused
        BY <1>1, <1>2, <2>1, <2>5 DEF Excused
      <3>3. QED BY <1>1, <3>1, <3>2 DEF Contract!vars
    <2>6. QED BY <2>4, <2>5
  <1>5. QED BY <1>1, <1>3, <1>4 DEF Acquires

LEMMA CleanupContract ==
  ASSUME Inv, CleanupEffect PROVE Contract!Next
  <1>1. /\ UNCHANGED <<config, result, untracked>> /\ phase = "cleanup"
        /\ undeleted \subseteq undeleted'
        /\ \A k \in undeleted' : k \in undeleted \/ owner[k] = "packer"
        /\ \A k \in Objects : owner'[k] # owner[k] => owner'[k] = "nobody"
    BY DEF CleanupEffect
  <1>2. result = "pending" /\ ToKeep' = ToKeep
    BY <1>1 DEF Inv, ControlInv, ToKeep, Opt
  <1>3. Ledger \subseteq Objects
    BY DEF Ledger
  <1>4. Held' \subseteq Held
    BY <1>1, <1>3 DEF Held
  <1>5. Excused \subseteq Excused' /\ Excused' \subseteq Excused \cup Held
    BY <1>1, <1>2 DEF Excused, Held
  <1>6. QED BY <1>1, <1>2, <1>4, <1>5 DEF Contract!Next, Contract!Release

LEMMA ReturnContract ==
  ASSUME Inv, Return PROVE Contract!Next
  <1>1. /\ phase = "return" /\ result' \in {"nil", "error", "panic"}
        /\ UNCHANGED <<config, owner, untracked, undeleted>>
    BY DEF Return, cluster, history
  <1>2. result = "pending" /\ ToKeep' = ToKeep
    BY <1>1 DEF Inv, ControlInv, ToKeep, Opt
  <1>3. Held \subseteq Excused
    BY <1>1, NothingDue DEF Held, Excused, Inv, TrackedInv
  <1>4. Held' = Held /\ Excused' = Excused
    BY <1>1, <1>2 DEF Held, Excused
  <1>5. QED BY <1>1, <1>2, <1>3, <1>4 DEF Contract!Next, Contract!Finish

LEMMA OtherContract ==
  ASSUME Inv, \/ NextStep \/ Cancel \/ ControllerEffect \/ UNCHANGED vars
  PROVE  UNCHANGED Contract!vars
  <1>1. UNCHANGED <<config, result, untracked, undeleted>>
    BY DEF NextStep, Cancel, ControllerEffect, vars, history
  <1>2. ToKeep' = ToKeep
    BY <1>1 DEF ToKeep, Opt
  <1>3. \A k \in Ledger : owner'[k] = owner[k]
    <2>1. Ledger \subseteq Objects \ {"image"}
      BY DEF Ledger
    <2>2. CASE ControllerEffect
      BY <2>1, <2>2 DEF ControllerEffect, Inv, TypeOK
    <2>3. QED BY <2>2 DEF NextStep, Cancel, vars, cluster
  <1>4. Held' = Held /\ Excused' = Excused
    BY <1>1, <1>2, <1>3 DEF Held, Excused
  <1>5. QED BY <1>1, <1>4 DEF Contract!vars

\* Every step of a build is a step or a stutter of the contract: the objects it
\* holds when it ends are those it is excused to hold.
THEOREM ContractKept == Spec => KeepsContract
  <1>1. Init => Contract!Init
    BY DEF Init, Contract!Init, Held, Excused, Ledger
  <1>2. Inv /\ [Next]_vars => [Contract!Next]_(Contract!vars)
    <2> SUFFICES ASSUME Inv, [Next]_vars PROVE [Contract!Next]_(Contract!vars)
      OBVIOUS
    <2>1. TypeOK /\ TrackedInv
      BY DEF Inv
    <2>2. CASE RunStep
      BY <2>1, <2>2, RunStepEffect, RunStepContract
    <2>3. CASE CleanupStep
      BY <2>1, <2>3, CleanupStepEffect, CleanupContract
    <2>4. CASE Return
      BY <2>4, ReturnContract
    <2>5. CASE \/ NextStep \/ Cancel \/ Controllers \/ UNCHANGED vars
      BY <2>1, <2>5, ControllersEffect, OtherContract
    <2>6. QED BY <2>2, <2>3, <2>4, <2>5 DEF Next, Builder, Terminated
  <1>3. QED BY <1>1, <1>2, Invariance, PTL DEF Spec, KeepsContract, Contract!Spec


-----------------------------------------------------------------------------
(* What the steps achieve *)

\* Achieved by the step that ends, and known at the place where it goes on.
Progress ==
  /\ \A i \in 1 .. Len(Steps) : i = pc /\ phase' = "loop" => Achieved(i)'
  /\ at' \in {"create disk", "create secret", "create vm", "create service"}
       => "vm_image_type" \in bag'
  /\ seen' <= stage'["vm"]
  /\ at' = "wait ingress" => stage'["vm"] = 2

\* A step that ends with nothing to achieve, or does not end at all.
LEMMA NoProgress ==
  ASSUME IInv, RunEffect, seen' <= stage'["vm"],
         at' \in {"create disk", "create secret", "create vm", "create service"}
           => "vm_image_type" \in bag',
         at' # "wait ingress",
         phase' # "loop" \/ Steps[pc] \in
           {"StepSSHKeyGen", "StepImportImage", "StepConnectCommunicator", "StepApplyTags"}
  PROVE  Progress
  <1>1. Steps' = Steps
    BY StepsConstant DEF RunEffect
  <1>2. QED BY <1>1 DEF Progress, Achieved

LEMMA SeenUnchanged ==
  ASSUME IInv, RunEffect, seen' = seen PROVE seen' <= stage'["vm"]
  BY DEF IInv, PlacesInv, RunEffect

\* The steps before the source machine, and the creation of its objects.
LEMMA EarlyProgress ==
  ASSUME IInv, RunEffect,
         \/ StepSSHKeyGen \/ StepConnectSupervisor \/ StepValidatePublish
         \/ StepImportImage \/ WatchItemImport \/ StepCreateSource
         \/ CreateBootDisk \/ CreateBootstrapSecret \/ CreateVM \/ CreateVMService
  PROVE  Progress
  <1>1. Steps' = Steps /\ (Communicates' <=> Communicates)
    BY StepsConstant DEF RunEffect, Communicates
  <1>2. seen' <= stage'["vm"]
    <2>1. seen' = seen
      BY DEF StepSSHKeyGen, StepConnectSupervisor, StepValidatePublish,
         StepImportImage, WatchItemImport, StepCreateSource, CreateBootDisk,
         CreateBootstrapSecret, CreateVM, CreateVMService, local
    <2>2. QED BY <2>1, SeenUnchanged
  <1>3. bag \subseteq bag'
    BY DEF RunEffect, Holdings
  <1>4. CASE StepSSHKeyGen \/ StepImportImage \/ WatchItemImport
    <2>1. /\ at' \in {"start", "watch import"}
          /\ Steps[pc] \in {"StepSSHKeyGen", "StepImportImage"}
      BY <1>4 DEF StepSSHKeyGen, StepImportImage, WatchItemImport, At, CreateFails,
         Continues, Fails, Halts, Stays
    <2>2. QED BY <1>2, <2>1, NoProgress
  <1>5. CASE StepConnectSupervisor
    <2>1. /\ at' = "start" /\ Steps[pc] = "StepConnectSupervisor"
          /\ phase' = "loop" => ConnectionStates \subseteq bag'
      BY <1>5 DEF StepConnectSupervisor, At, Continues, Fails, Halts
    <2>2. QED BY <1>1, <1>2, <2>1 DEF Progress, Achieved
  <1>6. CASE StepValidatePublish
    <2>1. /\ at' = "start" /\ Steps[pc] = "StepValidatePublish"
          /\ phase' = "loop" => "publish_location_name" \in bag'
      BY <1>6 DEF StepValidatePublish, At, Continues, Fails, Halts
    <2>2. QED BY <1>1, <1>2, <2>1 DEF Progress, Achieved
  <1>7. CASE StepCreateSource
    <2>1. /\ phase' # "loop" /\ at' # "wait ingress"
          /\ at' # "start" => "vm_image_type" \in bag'
      <3>1. phase = "step"
        BY <1>7 DEF StepCreateSource, At
      <3>2. QED
        BY <1>7, <3>1 DEF StepCreateSource, Stays, Fails, Halts, runner
    <2>2. QED BY <1>2, <2>1, NoProgress
  <1>8. CASE CreateBootDisk \/ CreateBootstrapSecret
    <2>1. /\ phase' # "loop" /\ at' # "wait ingress"
          /\ at \in {"create disk", "create secret"}
      BY <1>8 DEF CreateBootDisk, CreateBootstrapSecret, At, CreateFails, Stays, Fails,
         Halts, runner
    <2>2. "vm_image_type" \in bag'
      BY <1>3, <2>1 DEF IInv, PlacesInv
    <2>3. QED BY <1>2, <2>1, <2>2, NoProgress
  <1>9. CASE CreateVM \/ CreateVMService
    <2>1. /\ Steps[pc] = "StepCreateSource" /\ at' # "wait ingress"
          /\ at \in {"create vm", "create service"}
          /\ phase' = "loop" => SourceStates \subseteq bag'
      BY <1>9 DEF CreateVM, CreateVMService, At, CreateFails, Stays, Continues, Fails,
         Halts, runner
    <2>2. phase' = "loop" /\ Communicates => Flag["service"] \in bag'
      BY <1>9 DEF CreateVM, CreateVMService, At, CreateFails, Stays, Continues, Fails,
         Halts, runner
    <2>3. "vm_image_type" \in bag'
      BY <1>3, <2>1 DEF IInv, PlacesInv
    <2>4. QED BY <1>1, <1>2, <2>1, <2>2, <2>3 DEF Progress, Achieved
  <1>10. QED BY <1>4, <1>5, <1>6, <1>7, <1>8, <1>9

\* The places and the achievement of StepWatchSource.
LEMMA WatchProgress ==
  ASSUME IInv, RunEffect,
         \/ StepWatchSource \/ WaitForVMReady \/ CreateConsoleRequest
         \/ WaitForConsole \/ GetVMIngressIP
  PROVE  Progress
  <1>1. Steps' = Steps /\ (Communicates' <=> Communicates) /\ stage' = stage
    BY StepsConstant DEF RunEffect, Communicates
  <1>2. /\ Steps[pc] = "StepWatchSource" /\ phase = "step"
        /\ pc \in 1 .. Len(Steps) /\ Len(Steps) \in Nat
    BY StepsType DEF StepWatchSource, WaitForVMReady, CreateConsoleRequest,
       WaitForConsole, GetVMIngressIP, At, IInv, Inv, TypeOK
  <1>3. stage["vm"] \in 0 .. 2 /\ seen \in 0 .. 2 /\ seen <= stage["vm"]
    BY DEF IInv, Inv, TypeOK, PlacesInv, Objects, SourceObjects
  <1>4. Communicates => Flag["service"] \in bag
    <2>1. PICK i \in 1 .. pc - 1 : Steps[i] = "StepCreateSource"
      BY <1>2, StepsOrder DEF StepsOrdered, Precedes
    <2>2. Achieved(i)
      BY <1>2, <2>1 DEF IInv, PassedInv
    <2>3. QED BY <2>1, <2>2 DEF Achieved
  <1>5. ASSUME NEW s \in 0 .. 2, s <= stage["vm"], VMSeen(s)
        PROVE  /\ phase' = "loop" => stage["vm"] = 2 /\ ~Communicates
               /\ at' = "wait ingress" => stage["vm"] = 2
               /\ at' \in {"start", "watch vm", "wait ingress"}
    <2>1. s < 2 \/ stage["vm"] = 2
      BY <1>3, <1>5
    <2>2. CASE s < 2
      BY <1>2, <1>5, <2>2 DEF VMSeen, Stays, runner
    <2>3. CASE ~(s < 2)
      BY <1>2, <1>4, <1>5, <2>1, <2>3 DEF VMSeen, Stays, Continues, runner
    <2>4. QED BY <2>2, <2>3
  <1>6. CASE StepWatchSource \/ CreateConsoleRequest
    <2>1. phase' # "loop" /\ at' \in {"start", "watch vm", "watch console"}
      BY <1>2, <1>6 DEF StepWatchSource, CreateConsoleRequest, CreateFails, Stays,
         Fails, Halts, runner
    <2>2. seen' = seen
      BY <1>6 DEF StepWatchSource, CreateConsoleRequest, local
    <2>3. QED BY <2>1, <2>2, SeenUnchanged, NoProgress
  <1>7. CASE WaitForVMReady
    <2>1. seen' \in 1 .. stage["vm"]
      BY <1>7 DEF WaitForVMReady
    <2>2. seen' \in 0 .. 2 /\ seen' <= stage["vm"]
      BY <1>3, <2>1
    <2>3. CASE VMSeen(seen')
      <3>1. /\ phase' = "loop" => stage["vm"] = 2 /\ ~Communicates
            /\ at' = "wait ingress" => stage["vm"] = 2
            /\ at' \in {"start", "watch vm", "wait ingress"}
        BY <1>5, <2>2, <2>3
      <3>2. QED BY <1>1, <1>2, <2>2, <3>1 DEF Progress, Achieved
    <2>4. CASE Stays("create console", bag)
      <3>1. phase' # "loop" /\ at' = "create console"
        BY <1>2, <2>4 DEF Stays, runner
      <3>2. QED BY <1>1, <2>2, <3>1, NoProgress
    <2>5. QED BY <1>7, <2>3, <2>4 DEF WaitForVMReady
  <1>8. CASE WaitForConsole
    <2>1. VMSeen(seen) /\ seen' = seen
      BY <1>8 DEF WaitForConsole
    <2>2. /\ phase' = "loop" => stage["vm"] = 2 /\ ~Communicates
          /\ at' = "wait ingress" => stage["vm"] = 2
          /\ at' \in {"start", "watch vm", "wait ingress"}
      BY <1>3, <1>5, <2>1
    <2>3. QED BY <1>1, <1>2, <1>3, <2>1, <2>2 DEF Progress, Achieved
  <1>9. CASE GetVMIngressIP
    <2>1. /\ at = "wait ingress" /\ stage["service"] = 1 /\ seen' = seen
          /\ at' = "start" /\ "ip" \in bag'
      BY <1>9 DEF GetVMIngressIP, At, Continues, local
    <2>2. stage["vm"] = 2
      BY <2>1 DEF IInv, PlacesInv
    <2>3. QED BY <1>1, <1>2, <1>3, <2>1, <2>2 DEF Progress, Achieved
  <1>10. QED BY <1>6, <1>7, <1>8, <1>9

\* The steps after the source machine is ready, and the waits that are given up.
LEMMA LateProgress ==
  ASSUME IInv, RunEffect,
         \/ GivesUp \/ StepConnectCommunicator \/ StepProvision \/ StepApplyTags
         \/ StepPublishSource \/ WatchVMPublish
  PROVE  Progress
  <1>1. Steps' = Steps /\ (Opt("publish_location")' <=> Opt("publish_location"))
        /\ published' = published
    BY StepsConstant DEF RunEffect, Opt
  <1>2. seen' <= stage'["vm"]
    <2>1. seen' = seen
      BY DEF GivesUp, StepConnectCommunicator, StepProvision, StepApplyTags,
         StepPublishSource, WatchVMPublish, local
    <2>2. QED BY <2>1, SeenUnchanged
  <1>3. at' \in {"start", "watch publish"}
    BY DEF GivesUp, StepConnectCommunicator, StepProvision, StepApplyTags,
       StepPublishSource, WatchVMPublish, CreateFails, Stays, Continues, Fails, Halts, Panics
  <1>4. CASE GivesUp \/ StepConnectCommunicator \/ StepApplyTags
    <2>1. phase' # "loop" \/ Steps[pc] \in {"StepConnectCommunicator", "StepApplyTags"}
      BY <1>4 DEF GivesUp, StepConnectCommunicator, StepApplyTags, At, Fails, Halts
    <2>2. QED BY <1>2, <1>3, <2>1, NoProgress
  <1>5. CASE StepProvision
    <2>1. Steps[pc] = "StepProvision" /\ (phase' = "loop" => provisioned')
      BY <1>5 DEF StepProvision, At, Continues, Fails, Halts
    <2>2. QED BY <1>1, <1>2, <1>3, <2>1 DEF Progress, Achieved
  <1>6. CASE StepPublishSource
    <2>1. /\ Steps[pc] = "StepPublishSource"
          /\ phase' = "loop" => ~Opt("publish_location")
      BY <1>6 DEF StepPublishSource, At, CreateFails, Stays, Continues, Fails, Halts, runner
    <2>2. QED BY <1>1, <1>2, <1>3, <2>1 DEF Progress, Achieved
  <1>7. CASE WatchVMPublish
    <2>1. Steps[pc] = "StepPublishSource" /\ stage["publishRequest"] = 1
      BY <1>7 DEF WatchVMPublish, At
    <2>2. stage["publishRequest"] >= 1
      BY <2>1
    <2>3. published
      BY <2>2 DEF IInv, PlacesInv
    <2>4. QED BY <1>1, <1>2, <1>3, <2>1, <2>3 DEF Progress, Achieved
  <1>8. QED BY <1>4, <1>5, <1>6, <1>7

LEMMA RunStepProgress == ASSUME IInv, RunStep PROVE RunEffect /\ Progress
  <1>1. RunEffect
    BY RunStepEffect DEF IInv, Inv
  <1>2. QED BY <1>1, EarlyProgress, WatchProgress, LateProgress DEF RunStep

-----------------------------------------------------------------------------
(* The full invariant *)

\* What has been achieved stays achieved.
LEMMA AchievedStable ==
  ASSUME UNCHANGED config, bag \subseteq bag', provisioned => provisioned',
         published => published', stage["vm"] = 2 => stage'["vm"] = 2,
         stage["service"] = 1 => stage'["service"] = 1,
         NEW i, Achieved(i)
  PROVE  Achieved(i)'
  <1>1. /\ Steps' = Steps /\ (Communicates' <=> Communicates)
        /\ Opt("publish_location")' <=> Opt("publish_location")
    BY StepsConstant DEF Communicates, Opt
  <1>2. QED BY <1>1 DEF Achieved

LEMMA InitIInv == Init => IInv
  <1> SUFFICES ASSUME Init PROVE IInv
    OBVIOUS
  <1>1. Inv
    BY InitInv
  <1>2. PassedInv
    <2>1. pc = 1 /\ phase = "loop"
      BY DEF Init
    <2>2. 1 .. pc - 1 = {}
      BY <2>1
    <2>3. QED BY <2>1, <2>2 DEF PassedInv
  <1>3. /\ \A k \in Objects : stage[k] = 0 /\ owner[k] # "packer"
        /\ at = "start" /\ seen = 0
    BY DEF Init
  <1>4. {"vm", "service", "publishRequest"} \subseteq Objects
    BY DEF Objects, SourceObjects
  <1>5. /\ stage["vm"] = 0 /\ stage["service"] = 0 /\ stage["publishRequest"] = 0
        /\ owner["publishRequest"] # "packer"
    BY <1>3, <1>4
  <1>6. PlacesInv
    BY <1>3, <1>5 DEF PlacesInv
  <1>7. QED BY <1>1, <1>2, <1>6 DEF IInv

\* A step that goes on keeps what was achieved before it and adds its own part.
LEMMA RunStepPassed ==
  ASSUME IInv, RunEffect, Progress PROVE PassedInv'
  <1>1. /\ phase = "step" /\ pc \in 1 .. Len(Steps) /\ Len(Steps) \in Nat
        /\ Steps' = Steps
    BY StepsType, StepsConstant DEF IInv, Inv, TypeOK, RunEffect
  <1>2. \A i \in 1 .. pc - 1 : Achieved(i)
    BY <1>1 DEF IInv, PassedInv
  <1>3. \A i \in 1 .. pc - 1 : Achieved(i)'
    <2>1. /\ UNCHANGED config /\ bag \subseteq bag' /\ (provisioned => provisioned')
          /\ published' = published /\ stage' = stage
      BY DEF RunEffect, Holdings, Locals
    <2>2. QED BY <1>2, <2>1, AchievedStable
  <1>4. CASE phase' = "step"
    <2>1. pc' = pc
      BY <1>1, <1>4 DEF RunEffect, Outcome
    <2>2. QED BY <1>3, <1>4, <2>1 DEF PassedInv
  <1>5. CASE phase' = "loop"
    <2>1. pc' = pc + 1
      BY <1>5 DEF RunEffect, Outcome
    <2>2. \A i \in 1 .. Len(Steps) : i = pc => Achieved(i)'
      BY <1>5 DEF Progress
    <2>3. \A i \in 1 .. pc' - 1 : i \in 1 .. pc - 1 \/ (i = pc /\ i \in 1 .. Len(Steps))
      BY <1>1, <2>1
    <2>4. QED BY <1>3, <1>5, <2>2, <2>3 DEF PassedInv
  <1>6. CASE phase' = "cleanup"
    <2>1. broke'
      BY <1>6 DEF RunEffect, Outcome
    <2>2. QED BY <1>6, <2>1 DEF PassedInv
  <1>7. QED BY <1>4, <1>5, <1>6 DEF RunEffect, Outcome

\* The publish request is made by the last step, when the provisioners have run.
LEMMA RunStepPlaces ==
  ASSUME IInv, RunEffect, Progress PROVE PlacesInv'
  <1>1. /\ phase = "step" /\ pc \in 1 .. Len(Steps) /\ Len(Steps) \in Nat
        /\ Steps' = Steps /\ (Communicates' <=> Communicates)
    BY StepsType, StepsConstant DEF IInv, Inv, TypeOK, RunEffect, Communicates
  <1>2. stage' = stage /\ published' = published /\ (provisioned => provisioned')
    BY DEF RunEffect, Locals
  <1>3. stage["service"] <= 1
    BY DEF IInv, PlacesInv
  <1>4. stage["publishRequest"] >= 1 => published
    BY DEF IInv, PlacesInv
  <1>5. \A k \in {"vm", "service"} : stage[k] >= 1 => owner[k] = "packer"
    BY <1>1 DEF IInv, PlacesInv
  <1>6. \A k \in {"vm", "service"} : owner[k] = "packer" => owner'[k] = "packer"
    BY DEF RunEffect, Holdings, Objects, SourceObjects
  <1>7. \A k \in {"vm", "service"} : stage[k] >= 1 => owner'[k] = "packer"
    BY <1>5, <1>6
  <1>8. ASSUME owner'["publishRequest"] = "packer", Communicates PROVE provisioned'
    <2>1. CASE owner["publishRequest"] = "packer"
      BY <1>2, <1>8, <2>1 DEF IInv, PlacesInv
    <2>2. CASE owner["publishRequest"] # "packer"
      <3>1. Steps[pc] = "StepPublishSource"
        <4>1. "publishRequest" \in Ledger
          BY DEF Ledger, Objects
        <4>2. QED BY <1>8, <2>2, <4>1 DEF RunEffect, Holdings, Cleaner
      <3>2. PICK i \in 1 .. pc - 1 : Steps[i] = "StepProvision"
        BY <1>1, <1>8, <3>1, StepsOrder DEF StepsOrdered, Precedes
      <3>3. Achieved(i)
        BY <1>1, <3>2 DEF IInv, PassedInv
      <3>4. QED BY <1>2, <3>2, <3>3 DEF Achieved
    <2>3. QED BY <2>1, <2>2
  <1>9. QED BY <1>1, <1>2, <1>3, <1>4, <1>7, <1>8 DEF PlacesInv, Progress

\* The clean-ups change neither what was achieved nor the stages.
LEMMA CleanupIInv ==
  ASSUME IInv, CleanupEffect PROVE PassedInv' /\ PlacesInv'
  <1>1. /\ phase = "cleanup" /\ phase' \in {"cleanup", "return"}
        /\ UNCHANGED <<config, broke, at, bag, provisioned, stage, published>>
        /\ seen' = seen
    BY DEF CleanupEffect, local
  <1>2. Steps' = Steps /\ (Communicates' <=> Communicates)
    BY <1>1, StepsConstant DEF Communicates
  <1>3. PassedInv'
    <2>1. ~broke => \A i \in 1 .. Len(Steps) : Achieved(i)
      BY <1>1 DEF IInv, PassedInv
    <2>2. ~broke => \A i \in 1 .. Len(Steps) : Achieved(i)'
      BY <1>1, <2>1, AchievedStable
    <2>3. QED BY <1>1, <1>2, <2>2 DEF PassedInv
  <1>4. owner'["publishRequest"] = "packer" => owner["publishRequest"] = "packer"
    BY DEF CleanupEffect, Objects
  <1>5. PlacesInv'
    BY <1>1, <1>2, <1>4 DEF IInv, PlacesInv
  <1>6. QED BY <1>3, <1>5

\* The controllers bring the objects of this build forward.
LEMMA ControllersIInv ==
  ASSUME IInv, ControllerEffect PROVE PassedInv' /\ PlacesInv'
  <1>1. UNCHANGED <<config, phase, pc, broke, at, bag, seen, provisioned>>
    BY DEF ControllerEffect, runner, local, history
  <1>2. Steps' = Steps /\ (Communicates' <=> Communicates)
    BY <1>1, StepsConstant DEF Communicates
  <1>3. {"vm", "service", "publishRequest"} \subseteq Objects \ {"image"}
    BY DEF Objects, SourceObjects
  <1>4. \A k \in {"vm", "service", "publishRequest"} :
          /\ stage[k] \in 0 .. 2 /\ stage'[k] \in 0 .. 2
          /\ stage'[k] >= stage[k]
          /\ owner'[k] = owner[k]
    BY <1>3 DEF ControllerEffect, IInv, Inv, TypeOK
  <1>5. stage["service"] <= 1 /\ stage'["service"] <= 1
    BY DEF ControllerEffect, IInv, PlacesInv
  <1>6. /\ stage["vm"] = 2 => stage'["vm"] = 2
        /\ stage["service"] = 1 => stage'["service"] = 1
    BY <1>4, <1>5
  <1>7. published => published'
    BY DEF ControllerEffect
  <1>8. \A i : Achieved(i) => Achieved(i)'
    BY <1>1, <1>6, <1>7, AchievedStable
  <1>9. PassedInv'
    BY <1>1, <1>2, <1>8 DEF IInv, PassedInv
  <1>10. seen' <= stage'["vm"]
    <2>1. seen <= stage["vm"] /\ seen \in 0 .. 2
      BY DEF IInv, Inv, TypeOK, PlacesInv
    <2>2. QED BY <1>1, <1>4, <2>1
  <1>11. stage'["publishRequest"] >= 1 => published'
    <2>1. stage["publishRequest"] >= 1 => published
      BY DEF IInv, PlacesInv
    <2>2. stage'["publishRequest"] # stage["publishRequest"] => published'
      BY DEF ControllerEffect
    <2>3. QED BY <1>7, <2>1, <2>2
  <1>12. phase \in {"loop", "step"} =>
           \A k \in {"vm", "service"} : stage'[k] >= 1 => owner'[k] = "packer"
    <2>1. phase \in {"loop", "step"} =>
            \A k \in {"vm", "service"} : stage[k] >= 1 => owner[k] = "packer"
      BY DEF IInv, PlacesInv
    <2>2. \A k \in {"vm", "service"} : stage'[k] # stage[k] => owner[k] = "packer"
      BY <1>3 DEF ControllerEffect
    <2>3. QED BY <1>4, <2>1, <2>2
  <1>13. PlacesInv'
    BY <1>1, <1>2, <1>4, <1>5, <1>6, <1>10, <1>11, <1>12 DEF IInv, PlacesInv
  <1>14. QED BY <1>9, <1>13

\* The runner leaves its loop behind the last step, or breaks.
LEMMA OtherIInv ==
  ASSUME IInv, \/ NextStep \/ Cancel \/ Return \/ UNCHANGED vars
  PROVE  PassedInv' /\ PlacesInv'
  <1>1. UNCHANGED <<config, at, bag, seen, owner, stage, published, provisioned>>
    BY DEF NextStep, Cancel, Return, vars, runner, local, cluster, history
  <1>2. Steps' = Steps /\ (Communicates' <=> Communicates)
    BY <1>1, StepsConstant DEF Communicates
  <1>3. \A i : Achieved(i) => Achieved(i)'
    BY <1>1, AchievedStable
  <1>4. PassedInv'
    <2>1. CASE NextStep
      <3>1. pc \in Nat /\ Len(Steps) \in Nat /\ phase = "loop"
        <4>1. Len(Steps) \in Nat
          BY StepsType
        <4>2. pc \in 0 .. Len(Steps) + 1
          BY DEF IInv, Inv, TypeOK
        <4>3. phase = "loop"
          BY <2>1 DEF NextStep
        <4>4. QED BY <4>1, <4>2, <4>3
      <3>2. \A i \in 1 .. pc - 1 : Achieved(i)'
        <4>1. \A i \in 1 .. pc - 1 : Achieved(i)
          BY <3>1 DEF IInv, PassedInv
        <4>2. QED BY <1>3, <4>1
      <3>3. CASE pc > Len(Steps)
        <4>1. \A i \in 1 .. Len(Steps) : i \in 1 .. pc - 1
          BY <3>1, <3>3
        <4>2. phase' = "cleanup"
          BY <2>1, <3>3 DEF NextStep
        <4>3. QED BY <1>2, <3>2, <4>1, <4>2 DEF PassedInv
      <3>4. CASE ~(pc > Len(Steps))
        <4>1. (phase' = "cleanup" /\ broke') \/ (phase' = "step" /\ pc' = pc)
          BY <2>1, <3>4 DEF NextStep
        <4>2. QED BY <3>2, <4>1 DEF PassedInv
      <3>5. QED BY <3>3, <3>4
    <2>2. CASE Cancel \/ UNCHANGED vars
      <3>1. UNCHANGED <<phase, pc, broke>>
        BY <2>2 DEF Cancel, vars, runner
      <3>2. QED BY <1>2, <1>3, <3>1 DEF IInv, PassedInv
    <2>3. CASE Return
      <3>1. phase = "return" /\ phase' = "done" /\ broke' = broke
        BY <2>3 DEF Return
      <3>2. QED BY <1>2, <1>3, <3>1 DEF IInv, PassedInv
    <2>4. QED BY <2>1, <2>2, <2>3
  <1>5. PlacesInv'
    <2>1. phase' \in {"loop", "step"} => phase \in {"loop", "step"}
      BY DEF NextStep, Cancel, Return, vars, runner
    <2>2. QED BY <1>1, <1>2, <2>1 DEF IInv, PlacesInv
  <1>6. QED BY <1>4, <1>5

LEMMA NextIInv == IInv /\ [Next]_vars => IInv'
  <1> SUFFICES ASSUME IInv, [Next]_vars PROVE IInv'
    OBVIOUS
  <1>1. Inv /\ TypeOK
    BY DEF IInv, Inv
  <1>2. Inv'
    BY <1>1, NextInv
  <1>3. PassedInv' /\ PlacesInv'
    <2>1. CASE RunStep
      BY <2>1, RunStepProgress, RunStepPassed, RunStepPlaces
    <2>2. CASE CleanupStep
      BY <1>1, <2>2, CleanupStepEffect, CleanupIInv DEF Inv
    <2>3. CASE Controllers
      BY <1>1, <2>3, ControllersEffect, ControllersIInv DEF Inv
    <2>4. CASE \/ NextStep \/ Cancel \/ Return \/ UNCHANGED vars
      BY <2>4, OtherIInv
    <2>5. QED BY <2>1, <2>2, <2>3, <2>4 DEF Next, Builder, Terminated
  <1>4. QED BY <1>2, <1>3 DEF IInv

LEMMA FullInvariance == Spec => []IInv
  BY InitIInv, NextIInv, PTL DEF Spec

\* No step of the build fails for want of a state: an earlier step has put it.
THEOREM StatesArePresent == Spec => []StatesPresent
  <1>1. ASSUME IInv PROVE StatesPresent
    <2> SUFFICES ASSUME phase = "step", Steps[pc] \in DOMAIN RequiredStates
                 PROVE  Initialised(Steps[pc])
      BY DEF StatesPresent
    <2>1. pc \in 1 .. Len(Steps) /\ Len(Steps) \in Nat
      BY <1>1, StepsType DEF IInv, Inv, TypeOK
    <2>2. \A i \in 1 .. pc - 1 : Achieved(i)
      BY <1>1 DEF IInv, PassedInv
    <2>3. ConnectionStates \subseteq bag
      <3>1. PICK i \in 1 .. pc - 1 : Steps[i] = "StepConnectSupervisor"
        BY <2>1, StepsOrder DEF StepsOrdered, Precedes
      <3>2. QED BY <2>2, <3>1 DEF Achieved
    <2>4. Steps[pc] \in {"StepWatchSource", "StepPublishSource"}
            => SourceStates \cup {"vm_image_type"} \subseteq bag
      <3>1. SUFFICES ASSUME Steps[pc] \in {"StepWatchSource", "StepPublishSource"}
                     PROVE  SourceStates \cup {"vm_image_type"} \subseteq bag
        OBVIOUS
      <3>2. PICK i \in 1 .. pc - 1 : Steps[i] = "StepCreateSource"
        BY <2>1, <3>1, StepsOrder DEF StepsOrdered, Precedes
      <3>3. QED BY <2>2, <3>2 DEF Achieved
    <2>5. Steps[pc] = "StepPublishSource" => "publish_location_name" \in bag
      <3>1. SUFFICES ASSUME Steps[pc] = "StepPublishSource"
                     PROVE  "publish_location_name" \in bag
        OBVIOUS
      <3>2. PICK i \in 1 .. pc - 1 : Steps[i] = "StepValidatePublish"
        BY <2>1, <3>1, StepsOrder DEF StepsOrdered, Precedes
      <3>3. QED BY <2>2, <3>2 DEF Achieved
    <2>6. QED BY <2>3, <2>4, <2>5 DEF Initialised, RequiredStates, SourceStates
  <1>2. QED BY <1>1, FullInvariance, PTL

\* The provisioners never run against anything but the machine of this build,
\* on the network and behind a service of this build that has an ingress.
THEOREM ProvisionsReady == Spec => []ProvisionsReadyVM
  <1>1. ASSUME IInv PROVE ProvisionsReadyVM
    <2> SUFFICES ASSUME phase = "step",
                        Steps[pc] \in {"StepConnectCommunicator", "StepProvision"}
                 PROVE  /\ owner["vm"] = "packer" /\ stage["vm"] = 2
                        /\ owner["service"] = "packer" /\ stage["service"] = 1
                        /\ "ip" \in bag
      BY DEF ProvisionsReadyVM
    <2>1. pc \in 1 .. Len(Steps) /\ Len(Steps) \in Nat
      BY <1>1, StepsType DEF IInv, Inv, TypeOK
    <2>2. PICK i \in 1 .. pc - 1 : Steps[i] = "StepWatchSource"
      BY <2>1, StepsOrder DEF StepsOrdered, Precedes
    <2>3. Communicates
      BY <2>1, StepsOrder DEF StepsOrdered
    <2>4. stage["vm"] = 2 /\ stage["service"] = 1 /\ "ip" \in bag
      BY <1>1, <2>2, <2>3 DEF IInv, PassedInv, Achieved
    <2>5. \A k \in {"vm", "service"} : stage[k] >= 1 => owner[k] = "packer"
      BY <1>1 DEF IInv, PlacesInv
    <2>6. stage["vm"] >= 1 /\ stage["service"] >= 1
      BY <2>4
    <2>7. QED BY <2>4, <2>5, <2>6
  <1>2. QED BY <1>1, FullInvariance, PTL

\* A build that reports success at the end of its steps has done all of them.
THEOREM SuccessPublished == Spec => []SuccessIsPublished
  <1>1. ASSUME IInv PROVE SuccessIsPublished
    <2> SUFFICES ASSUME phase = "done", ~broke
                 PROVE  /\ Communicates => provisioned
                        /\ Opt("publish_location") => published
      BY DEF SuccessIsPublished
    <2>1. \A i \in 1 .. Len(Steps) : Achieved(i)
      BY <1>1 DEF IInv, PassedInv
    <2>2. Communicates => provisioned
      BY <2>1, StepsOrder DEF StepsOrdered, Achieved
    <2>3. Opt("publish_location") => published
      BY <2>1, StepsOrder DEF StepsOrdered, Achieved
    <2>4. QED BY <2>2, <2>3
  <1>2. QED BY <1>1, FullInvariance, PTL

\* Whatever becomes of the build, a machine that was to be provisioned is not
\* published before it is.
THEOREM OnlyProvisionedPublished == Spec => PublishesProvisionedVM
  <1>1. ASSUME IInv, Next
        PROVE  ~published /\ published' /\ Communicates => provisioned
    <2>1. TypeOK
      BY <1>1 DEF IInv, Inv
    <2>2. CASE Controllers
      <3>1. ~published /\ published' => owner["publishRequest"] = "packer"
        BY <2>1, <2>2, ControllersEffect DEF ControllerEffect
      <3>2. QED BY <1>1, <3>1 DEF IInv, PlacesInv
    <2>3. CASE RunStep
      BY <2>1, <2>3, RunStepEffect DEF RunEffect
    <2>4. CASE CleanupStep
      BY <1>1, <2>1, <2>4, CleanupStepEffect DEF CleanupEffect, IInv, Inv
    <2>5. CASE NextStep \/ Cancel \/ Return \/ Terminated
      BY <2>5 DEF NextStep, Cancel, Return, Terminated, vars, cluster
    <2>6. QED BY <1>1, <2>2, <2>3, <2>4, <2>5 DEF Next, Builder
  <1>2. QED BY <1>1, FullInvariance, PTL DEF Spec, PublishesProvisionedVM
=============================================================================
