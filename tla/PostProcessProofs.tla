--------------------------- MODULE PostProcessProofs ---------------------------
(***************************************************************************)
(* Proofs about PostProcess, for every set of configurations and            *)
(* inventories and every number of attempts.                                *)
(***************************************************************************)
EXTENDS PostProcess, TLAPS

-----------------------------------------------------------------------------
(* The inductive invariant *)

BeforeFind == {"verify", "upload", "tag upload", "check", "datacenter", "snapshot", "find"}
Reregistering == {"unregister", "unregister other", "existing again", "register"}
AfterFind == Reregistering \cup {"existing", "mark", "tag"}

\* How the place goes together with the configuration.
PlaceInv ==
  /\ at \in {"verify", "upload", "tag upload"} => config.artifact = "uploaded"
  /\ at \in Reregistering => config.template.reregister
  /\ at = "mark" => ~config.template.reregister

\* An attempt is left where one is made, and one was made before anything else.
AttemptInv ==
  /\ at = "verify" => attempt = 0
  /\ at = "upload" => attempt < Tries
  /\ config.artifact = "uploaded" /\ at \notin {"verify", "upload", "ended"} => attempt > 0

\* As long as no machine is looked for, the folders change by uploads only.
FoldersInv ==
  at \in BeforeFind => \A p \in Folders : inventory[p] \in {before[p], "ours", None}

MachineInv ==
  /\ at \in AfterFind => machine # None
  /\ machine \in {"ours", None} \/ \E p \in {Remote, "discovered", "root"} : before[p] = machine

\* What is tagged is a template, where it was to be.
MadeInv ==
  at = "tag" =>
    /\ machine \in template /\ Registered(machine)
    /\ config.template.reregister => inventory[Target] = machine

DestroyedInv ==
  \A t \in destroyed : (config.template.override /\ t \in template)
                         \/ (config.upload.overwrite /\ config.artifact = "uploaded")

Known(t) == (\E p \in Paths : before[p] = t) \/ t \in template \cap {"theirs"}

\* Only where a machine is registered again something may be unregistered, and the
\* machine only until it is registered or an error is returned.
RegisteredInv ==
  \A t \in Things : Known(t) /\ t \notin destroyed /\ ~Registered(t) =>
    /\ config.template.reregister
    /\ at \in {"unregister other", "existing again", "register", "tag", "ended"}
    /\ t = machine => at # "tag" /\ outcome # "success"

IInv ==
  /\ TypeOK /\ PlaceInv /\ AttemptInv /\ FoldersInv /\ MachineInv /\ MadeInv
  /\ DestroyedInv /\ RegisteredInv /\ TemplateIsMade
-----------------------------------------------------------------------------
(* What a step leaves as it is *)

LEMMA GivenStays ==
  ASSUME [Next]_vars
  PROVE  /\ config' = config /\ before' = before
         /\ Target' = Target /\ Remote' = Remote
  <1>1. config' = config /\ before' = before
    BY DEF Next, vars, given, Verify, Upload, TagUpload, Check, CreateFolder, CreateSnapshot,
       FindMachine, RemoveExisting, MarkAsTemplate, Unregister, UnregisterOther,
       RemoveExistingAgain, Register, ApplyTags, StopsEarly, Interrupt, OtherBuild
  <1>2. QED BY <1>1 DEF Target, Dest, Remote

LEMMA ConfigIs ==
  ASSUME TypeOK
  PROVE  config \in ConfigType
  BY PostProcessAssumption DEF TypeOK

LEMMA PathsAre ==
  ASSUME TypeOK
  PROVE  /\ Target \in Paths /\ Folders \subseteq Paths
         /\ {Remote, "discovered", "root"} \subseteq Folders
         /\ config.upload.remote \in Paths
  <1>1. config.upload.remote \in Folders
    BY ConfigIs DEF ConfigType, UploadConfig, Folders
  <1>2. QED BY <1>1 DEF Remote, Target, Dest, Folders, Paths

Places == BeforeFind \cup AfterFind \cup {"ended"}

\* The place and the result.
LEMMA ControlTypes ==
  ASSUME TypeOK, Next
  PROVE  /\ at' \in Places /\ outcome' \in {None, "success", "error"}
         /\ (outcome' = None) = (at' # "ended") /\ cancelled' \in BOOLEAN
  <1>1. at \in Places /\ outcome \in {None, "success", "error"} /\ (outcome = None) = (at # "ended")
    BY DEF TypeOK, Places, BeforeFind, AfterFind, Reregistering, Steps
  <1>2. cancelled' \in BOOLEAN
    <2>1. cancelled' \in {cancelled, TRUE}
      BY DEF Next, Verify, Upload, TagUpload, Check, CreateFolder, CreateSnapshot,
       FindMachine, RemoveExisting, MarkAsTemplate, Unregister, UnregisterOther,
       RemoveExistingAgain, Register, ApplyTags, StopsEarly, Interrupt, OtherBuild
    <2>2. QED BY <2>1 DEF TypeOK
  <1>3. /\ at' \in Places /\ outcome' \in {None, "success", "error"}
        /\ (outcome' = None) = (at' # "ended")
    <2> USE DEF GoTo, Fails, Ends, AfterUpload, Starts, Places, BeforeFind, AfterFind, Reregistering,
                None
    <2>1. CASE Verify \/ Upload \/ TagUpload \/ Check \/ CreateFolder \/ CreateSnapshot
      BY <1>1, <2>1 DEF Verify, Upload, TagUpload, Check, CreateFolder, CreateSnapshot
    <2>2. CASE FindMachine \/ RemoveExisting \/ MarkAsTemplate
      BY <1>1, <2>2 DEF FindMachine, RemoveExisting, MarkAsTemplate
    <2>3. CASE Unregister \/ UnregisterOther \/ RemoveExistingAgain \/ Register
      BY <1>1, <2>3 DEF Unregister, UnregisterOther, RemoveExistingAgain, Register
    <2>4. CASE ApplyTags \/ StopsEarly
      BY <1>1, <2>4 DEF ApplyTags, StopsEarly, Steps
    <2>5. CASE Interrupt \/ OtherBuild
      BY <1>1, <2>5 DEF Interrupt, OtherBuild
    <2>6. QED BY <2>1, <2>2, <2>3, <2>4, <2>5 DEF Next
  <1>4. QED BY <1>2, <1>3

LEMMA ServerTypes ==
  ASSUME TypeOK, MachineInv, Next
  PROVE  /\ inventory' \in [Paths -> Things \cup {None}]
         /\ template' \subseteq Things /\ destroyed' \subseteq Things
         /\ template \subseteq template' /\ destroyed \subseteq destroyed'
  <1>1. /\ inventory \in [Paths -> Things \cup {None}]
        /\ template \subseteq Things /\ destroyed \subseteq Things
        /\ at \in AfterFind => machine \in Things
        /\ Target \in Paths /\ config.upload.remote \in Paths
    BY PathsAre DEF TypeOK, MachineInv
  <1>2. {"ours", "theirs"} \subseteq Things /\ None \notin Things
    BY DEF Things, None
  <1>3. HandleExisting =>
          /\ inventory' \in [Paths -> Things \cup {None}]
          /\ destroyed' \subseteq Things /\ destroyed \subseteq destroyed'
    BY <1>1, <1>2 DEF HandleExisting
  <1>4. CASE OtherBuild
    BY <1>1, <1>2, <1>4 DEF OtherBuild
  <1>5. CASE Upload
    <2>1. CASE Ovftool(TRUE) \/ Ovftool(FALSE)
      BY <1>1, <1>2, <2>1 DEF Ovftool
    <2>2. QED BY <1>1, <1>5, <2>1 DEF Upload, server
  <1>6. CASE RemoveExisting \/ RemoveExistingAgain
    BY <1>1, <1>3, <1>6 DEF RemoveExisting, RemoveExistingAgain
  <1>7. CASE MarkAsTemplate
    <2>1. at \in AfterFind
      BY <1>7 DEF MarkAsTemplate, AfterFind
    <2>2. QED BY <1>1, <1>7, <2>1 DEF MarkAsTemplate
  <1>8. CASE Unregister \/ UnregisterOther
    BY <1>1, <1>8 DEF Unregister, UnregisterOther
  <1>9. CASE Register
    <2>1. at \in AfterFind
      BY <1>9 DEF Register, AfterFind, Reregistering
    <2>2. CASE UNCHANGED <<inventory, template>>
      BY <1>1, <1>9, <2>2 DEF Register
    <2>3. CASE inventory' = [inventory EXCEPT ![Target] = machine] /\ template' = template \cup {machine}
      BY <1>1, <1>9, <2>1, <2>3 DEF Register
    <2>4. QED BY <1>9, <2>2, <2>3 DEF Register
  <1>10. CASE UNCHANGED server
    BY <1>1, <1>10 DEF server
  <1>11. QED BY <1>4, <1>5, <1>6, <1>7, <1>8, <1>9, <1>10 DEF Next, Verify, TagUpload, Check,
           CreateFolder, CreateSnapshot, FindMachine, ApplyTags, StopsEarly, Interrupt

\* The machine changes when it is found, and the attempts when one is made.
LEMMA MachineStays ==
  ASSUME Next
  PROVE  machine' = machine \/ FindMachine
  BY DEF Next, Verify, Upload, TagUpload, Check, CreateFolder, CreateSnapshot,
       RemoveExisting, MarkAsTemplate, Unregister, UnregisterOther,
       RemoveExistingAgain, Register, ApplyTags, StopsEarly, Interrupt, OtherBuild

LEMMA AttemptStays ==
  ASSUME Next
  PROVE  attempt' = attempt \/ Upload
  BY DEF Next, Verify, TagUpload, Check, CreateFolder, CreateSnapshot,
       FindMachine, RemoveExisting, MarkAsTemplate, Unregister, UnregisterOther,
       RemoveExistingAgain, Register, ApplyTags, StopsEarly, Interrupt, OtherBuild

LEMMA PlaceKept ==
  ASSUME IInv, Next
  PROVE  PlaceInv'
  <1>1. config' = config /\ PlaceInv
    BY GivenStays DEF IInv
  <1> USE DEF PlaceInv, GoTo, Fails, Ends, AfterUpload, Starts, Reregistering
  <1>2. CASE Verify \/ Upload \/ TagUpload \/ Check \/ CreateFolder \/ CreateSnapshot
    BY <1>1, <1>2 DEF Verify, Upload, TagUpload, Check, CreateFolder, CreateSnapshot
  <1>3. CASE FindMachine \/ RemoveExisting \/ MarkAsTemplate \/ ApplyTags \/ StopsEarly
    BY <1>1, <1>3 DEF FindMachine, RemoveExisting, MarkAsTemplate, ApplyTags, StopsEarly
  <1>4. CASE Unregister \/ UnregisterOther \/ RemoveExistingAgain \/ Register
    BY <1>1, <1>4 DEF Unregister, UnregisterOther, RemoveExistingAgain, Register
  <1>5. CASE Interrupt \/ OtherBuild
    BY <1>1, <1>5 DEF Interrupt, OtherBuild
  <1>6. QED BY <1>2, <1>3, <1>4, <1>5 DEF Next

LEMMA AttemptKept ==
  ASSUME IInv, Next
  PROVE  AttemptInv' /\ attempt' \in 0 .. Tries
  <1>1. /\ config' = config /\ AttemptInv /\ Tries \in Nat \ {0}
        /\ attempt \in 0 .. Tries /\ attempt \in Nat
    <2>1. config' = config /\ AttemptInv
      BY GivenStays DEF IInv
    <2>2. attempt \in 0 .. Tries
      BY DEF IInv, TypeOK
    <2>3. Tries \in Nat \ {0}
      BY PostProcessAssumption
    <2>4. QED BY <2>1, <2>2, <2>3
  <1>2. CASE Upload
    <2>1. at = "upload" /\ attempt' = attempt + 1 /\ attempt < Tries
      BY <1>1, <1>2 DEF Upload, AttemptInv
    <2>2. attempt' \in 0 .. Tries /\ attempt' > 0
      BY <1>1, <2>1
    <2>3. at' # "verify" /\ (at' = "upload" => attempt + 1 < Tries)
      BY <1>2 DEF Upload, GoTo, AfterUpload
    <2>4. QED BY <2>1, <2>2, <2>3 DEF AttemptInv
  <1>3. CASE ~Upload
    <2>1. attempt' = attempt
      BY <1>3, AttemptStays
    <2>2. /\ at' # "verify" \/ at = "verify"
          /\ at' = "upload" => at \in {"upload", "verify"}
          /\ config.artifact = "uploaded" /\ at' \notin {"verify", "upload", "ended"} =>
               at \notin {"verify", "upload", "ended"}
      <3> USE DEF GoTo, Fails, Ends, Starts
      <3>1. CASE Verify \/ TagUpload \/ Check \/ CreateFolder \/ CreateSnapshot
        BY <3>1 DEF Verify, TagUpload, Check, CreateFolder, CreateSnapshot
      <3>2. CASE FindMachine \/ RemoveExisting \/ MarkAsTemplate \/ ApplyTags \/ StopsEarly
        BY <3>2 DEF FindMachine, RemoveExisting, MarkAsTemplate, ApplyTags, StopsEarly
      <3>3. CASE Unregister \/ UnregisterOther \/ RemoveExistingAgain \/ Register
        BY <3>3 DEF Unregister, UnregisterOther, RemoveExistingAgain, Register
      <3>4. CASE Interrupt \/ OtherBuild
        BY <3>4 DEF Interrupt, OtherBuild
      <3>5. QED BY <1>3, <3>1, <3>2, <3>3, <3>4 DEF Next
    <2>3. QED BY <1>1, <2>1, <2>2 DEF AttemptInv
  <1>4. QED BY <1>2, <1>3
-----------------------------------------------------------------------------
(* What is registered *)

\* What the rest of the invariant says of a state.
ServerInv ==
  FoldersInv /\ MachineInv /\ MadeInv /\ DestroyedInv /\ RegisteredInv /\ TemplateIsMade

\* The conditions under which RegisteredInv is kept: what is missing was missing.
LEMMA NothingMissing ==
  ASSUME RegisteredInv, config' = config, before' = before, machine' = machine,
         \A t \in Things : Known(t)' /\ t \notin destroyed' /\ ~Registered(t)' =>
           Known(t) /\ t \notin destroyed /\ ~Registered(t),
         at \in {"unregister other", "existing again", "register", "tag", "ended"} =>
           at' \in {"unregister other", "existing again", "register", "tag", "ended"},
         \A t \in Things : t = machine /\ Known(t)' /\ t \notin destroyed' /\ ~Registered(t)' =>
           at' # "tag" /\ outcome' # "success"
  PROVE  RegisteredInv'
  BY DEF RegisteredInv

\* Before a machine is looked for: what an upload removes is destroyed.
LEMMA OvftoolKept ==
  ASSUME IInv, [Next]_vars, Ovftool(TRUE) \/ Ovftool(FALSE), at = "upload"
  PROVE  /\ \A p \in Folders : inventory'[p] \in {before[p], "ours", None}
         /\ DestroyedInv'
         /\ \A t \in Things : Known(t)' /\ t \notin destroyed' /\ ~Registered(t)' =>
              Known(t) /\ t \notin destroyed /\ ~Registered(t)
  <1> DEFINE remote == config.upload.remote
  <1>1. /\ inventory \in [Paths -> Things \cup {None}] /\ remote \in Paths /\ Folders \subseteq Paths
        /\ \A p \in Folders : inventory[p] \in {before[p], "ours", None}
        /\ config.artifact = "uploaded" /\ None \notin Things
    BY PathsAre DEF IInv, TypeOK, FoldersInv, PlaceInv, BeforeFind, Things, None
  <1>2. /\ config' = config /\ before' = before /\ template' = template
        /\ inventory[remote] # None => config.upload.overwrite
        /\ destroyed' = destroyed \cup ({inventory[remote]} \ {None})
    BY GivenStays DEF Ovftool
  <1>3. /\ \A p \in Paths \ {remote} : inventory'[p] = inventory[p]
        /\ inventory'[remote] \in {"ours", None}
    BY <1>1 DEF Ovftool
  <1>4. \A p \in Folders : inventory'[p] \in {before[p], "ours", None}
    BY <1>1, <1>3
  <1>5. DestroyedInv'
    BY <1>1, <1>2 DEF IInv, DestroyedInv
  <1>6. ASSUME NEW t \in Things, t \notin destroyed', Registered(t) PROVE Registered(t)'
    <2>1. PICK p \in Paths : inventory[p] = t
      BY <1>6 DEF Registered
    <2>2. p # remote
      BY <1>1, <1>2, <1>6, <2>1
    <2>3. QED BY <1>3, <2>1, <2>2 DEF Registered
  <1>7. \A t : Known(t)' = Known(t)
    BY <1>2 DEF Known
  <1>8. QED BY <1>2, <1>4, <1>5, <1>6, <1>7

LEMMA BeforeFindKept ==
  ASSUME IInv, [Next]_vars, at \in BeforeFind, at' \in BeforeFind \cup {"ended"}, machine' = machine,
         UNCHANGED server \/ (at = "upload" /\ (Ovftool(TRUE) \/ Ovftool(FALSE))),
         outcome' # "success" \/ cancelled'
  PROVE  ServerInv'
  <1>1. /\ config' = config /\ before' = before /\ Remote' = Remote
        /\ FoldersInv /\ MachineInv /\ DestroyedInv /\ RegisteredInv
    BY GivenStays DEF IInv
  <1>2. at \notin AfterFind /\ at' \notin AfterFind
    BY DEF BeforeFind, AfterFind, Reregistering
  <1>3. MachineInv' /\ MadeInv' /\ TemplateIsMade'
    BY <1>1, <1>2 DEF MachineInv, MadeInv, TemplateIsMade, AfterFind
  <1>4. /\ FoldersInv' /\ DestroyedInv'
        /\ \A t \in Things : Known(t)' /\ t \notin destroyed' /\ ~Registered(t)' =>
              Known(t) /\ t \notin destroyed /\ ~Registered(t)
    <2>1. CASE UNCHANGED server
      BY <1>1, <2>1 DEF server, FoldersInv, DestroyedInv, Known, Registered
    <2>2. CASE at = "upload" /\ (Ovftool(TRUE) \/ Ovftool(FALSE))
      BY <1>1, <2>2, OvftoolKept DEF FoldersInv
    <2>3. QED BY <2>1, <2>2
  <1>5. \A t \in Things : ~(Known(t)' /\ t \notin destroyed' /\ ~Registered(t)')
    <2>1. at \notin {"unregister other", "existing again", "register", "tag", "ended"}
      BY DEF BeforeFind
    <2>2. QED BY <1>1, <1>4, <2>1 DEF RegisteredInv
  <1>6. RegisteredInv'
    BY <1>5 DEF RegisteredInv
  <1>7. QED BY <1>3, <1>4, <1>6 DEF ServerInv

LEMMA UploadingKept ==
  ASSUME IInv, Next,
         \/ Verify \/ Upload \/ TagUpload \/ Check \/ CreateFolder \/ CreateSnapshot
         \/ StopsEarly /\ at # "tag"
  PROVE  ServerInv'
  <1> USE DEF GoTo, Fails, Ends, AfterUpload, Starts, BeforeFind
  <1>1. outcome' # "success" \/ cancelled'
    <2>1. CASE StopsEarly
      BY <2>1 DEF StopsEarly
    <2>2. CASE ~StopsEarly
      <3>1. at # "ended"
        BY <2>2 DEF Verify, Upload, TagUpload, Check, CreateFolder, CreateSnapshot
      <3>2. outcome = None
        BY <3>1 DEF IInv, TypeOK
      <3>3. outcome' \in {outcome, "error"}
        BY <2>2 DEF Verify, Upload, TagUpload, Check, CreateFolder, CreateSnapshot
      <3>4. QED BY <3>2, <3>3 DEF None
    <2>3. QED BY <2>1, <2>2
  <1>2. at \in BeforeFind /\ at' \in BeforeFind \cup {"ended"} /\ machine' = machine
    BY DEF Verify, Upload, TagUpload, Check, CreateFolder, CreateSnapshot, StopsEarly, Steps
  <1>3. UNCHANGED server \/ (at = "upload" /\ (Ovftool(TRUE) \/ Ovftool(FALSE)))
    BY DEF Verify, Upload, TagUpload, Check, CreateFolder, CreateSnapshot, StopsEarly
  <1>4. QED BY <1>1, <1>2, <1>3, BeforeFindKept
\* Nothing is missing when the machine is found, where it was or was uploaded to.
LEMMA FindMachineKept ==
  ASSUME IInv, Next, FindMachine
  PROVE  ServerInv' /\ machine' \in Things \cup {None}
  <1>1. /\ config' = config /\ before' = before /\ Remote' = Remote
        /\ FoldersInv /\ MachineInv /\ DestroyedInv /\ RegisteredInv /\ TypeOK
    BY GivenStays DEF IInv
  <1>2. /\ at = "find" /\ at' \in {"existing", "ended"} /\ UNCHANGED server
        /\ at' = "existing" =>
             \E p \in {Remote, "discovered", "root"} : inventory[p] # None /\ machine' = inventory[p]
        /\ at' = "ended" => machine' = machine /\ outcome' = "error"
    BY DEF FindMachine, Starts, GoTo, Fails, Ends
  <1>3. MachineInv' /\ machine' \in Things \cup {None}
    <2>1. CASE at' = "existing"
      <3>1. PICK p \in {Remote, "discovered", "root"} : inventory[p] # None /\ machine' = inventory[p]
        BY <1>2, <2>1
      <3>2. p \in Folders /\ p \in Paths
        BY <1>1, PathsAre
      <3>3. inventory[p] \in {before[p], "ours", None} /\ inventory[p] \in Things \cup {None}
        BY <1>1, <1>2, <3>2 DEF FoldersInv, BeforeFind, TypeOK
      <3>4. QED BY <1>1, <3>1, <3>3 DEF MachineInv
    <2>2. CASE at' = "ended"
      BY <1>1, <1>2, <2>2 DEF MachineInv, AfterFind, Reregistering, TypeOK
    <2>3. QED BY <1>2, <2>1, <2>2
  <1>4. outcome' # "success"
    <2>1. outcome = None
      BY <1>1, <1>2 DEF TypeOK
    <2>2. QED BY <1>2, <2>1 DEF FindMachine, GoTo, Fails, Ends, None
  <1>5. MadeInv' /\ TemplateIsMade' /\ FoldersInv'
    BY <1>2, <1>4 DEF MadeInv, TemplateIsMade, FoldersInv, BeforeFind
  <1>6. DestroyedInv' /\ \A t : Known(t)' = Known(t) /\ Registered(t)' = Registered(t)
    BY <1>1, <1>2 DEF server, DestroyedInv, Known, Registered
  <1>7. RegisteredInv'
    BY <1>1, <1>2, <1>6 DEF RegisteredInv, server
  <1>8. QED BY <1>3, <1>5, <1>6, <1>7 DEF ServerInv

\* A template that is replaced is destroyed.
LEMMA HandleExistingKept ==
  ASSUME IInv, [Next]_vars, HandleExisting \/ UNCHANGED <<inventory, destroyed>>, template' = template
  PROVE  /\ DestroyedInv'
         /\ \A t \in Things : Known(t)' /\ t \notin destroyed' /\ ~Registered(t)' =>
              Known(t) /\ t \notin destroyed /\ ~Registered(t)
  <1>1. /\ inventory \in [Paths -> Things \cup {None}] /\ Target \in Paths
        /\ config' = config /\ before' = before /\ DestroyedInv
    BY PathsAre, GivenStays DEF IInv, TypeOK
  <1>2. \A t : Known(t)' = Known(t)
    BY <1>1 DEF Known
  <1>3. CASE /\ inventory[Target] \in template /\ config.template.override
             /\ destroyed' = destroyed \cup {inventory[Target]}
             /\ inventory' = [inventory EXCEPT ![Target] = None]
    <2>1. DestroyedInv'
      BY <1>1, <1>3 DEF DestroyedInv
    <2>2. ASSUME NEW t \in Things, t \notin destroyed', Registered(t) PROVE Registered(t)'
      <3>1. PICK p \in Paths : inventory[p] = t
        BY <2>2 DEF Registered
      <3>2. p # Target
        BY <1>3, <2>2, <3>1
      <3>3. QED BY <1>1, <1>3, <3>1, <3>2 DEF Registered
    <2>3. QED BY <1>2, <1>3, <2>1, <2>2
  <1>4. CASE UNCHANGED <<inventory, destroyed>>
    BY <1>1, <1>2, <1>4 DEF DestroyedInv, Registered
  <1>5. QED BY <1>3, <1>4 DEF HandleExisting

LEMMA RemoveExistingKept ==
  ASSUME IInv, Next, RemoveExisting \/ RemoveExistingAgain
  PROVE  ServerInv'
  <1>1. /\ config' = config /\ before' = before /\ Remote' = Remote
        /\ MachineInv /\ RegisteredInv /\ outcome = None
    BY GivenStays DEF IInv, TypeOK, RemoveExisting, RemoveExistingAgain
  <1>2. /\ template' = template /\ machine' = machine
        /\ HandleExisting \/ UNCHANGED <<inventory, destroyed>>
        /\ at \in {"existing", "existing again"}
        /\ at = "existing again" => at' \in {"register", "ended"}
        /\ at' \in {"unregister", "mark", "register", "ended"} /\ outcome' \in {outcome, "error"}
    BY DEF RemoveExisting, RemoveExistingAgain, GoTo, Fails, Ends
  <1>3. /\ DestroyedInv'
        /\ \A t \in Things : Known(t)' /\ t \notin destroyed' /\ ~Registered(t)' =>
              Known(t) /\ t \notin destroyed /\ ~Registered(t)
    BY <1>2, HandleExistingKept
  <1>4. MachineInv'
    BY <1>1, <1>2 DEF MachineInv, AfterFind, Reregistering
  <1>5. outcome' # "success"
    BY <1>1, <1>2 DEF None
  <1>6. MadeInv' /\ TemplateIsMade' /\ FoldersInv'
    BY <1>2, <1>5 DEF MadeInv, TemplateIsMade, FoldersInv, BeforeFind
  <1>7. RegisteredInv'
    BY <1>1, <1>2, <1>3, <1>5, NothingMissing
  <1>8. QED BY <1>3, <1>4, <1>6, <1>7 DEF ServerInv
\* What is registered at a free path leaves everything where it is.
LEMMA RegistersAtFree ==
  ASSUME TypeOK, NEW m, inventory[Target] = None,
         inventory' = [inventory EXCEPT ![Target] = m]
  PROVE  /\ inventory'[Target] = m
         /\ \A t \in Things : Registered(t) => Registered(t)'
         /\ Registered(m)'
         /\ \A p \in Paths : p # Target => inventory'[p] = inventory[p]
  <1>1. inventory \in [Paths -> Things \cup {None}] /\ Target \in Paths /\ None \notin Things
    BY PathsAre DEF TypeOK, Things, None
  <1>2. inventory'[Target] = m /\ \A p \in Paths : p # Target => inventory'[p] = inventory[p]
    BY <1>1
  <1>3. Registered(m)'
    BY <1>1, <1>2 DEF Registered
  <1>4. ASSUME NEW t \in Things, Registered(t) PROVE Registered(t)'
    <2>1. PICK p \in Paths : inventory[p] = t
      BY <1>4 DEF Registered
    <2>2. p # Target
      BY <1>1, <2>1
    <2>3. QED BY <1>2, <2>1, <2>2 DEF Registered
  <1>5. QED BY <1>2, <1>3, <1>4

\* An error, or an end that changes nothing on the server.
LEMMA EndKept ==
  ASSUME IInv, [Next]_vars, UNCHANGED server, machine' = machine, at' = "ended",
         outcome' = "error" \/ (at = "tag" /\ (cancelled' \/ (config.tags => machine \in tagged')))
  PROVE  ServerInv'
  <1>1. /\ config' = config /\ before' = before /\ Remote' = Remote /\ Target' = Target
        /\ MachineInv /\ RegisteredInv /\ DestroyedInv
    BY GivenStays DEF IInv
  <1>2. MachineInv' /\ MadeInv' /\ FoldersInv'
    BY <1>1 DEF MachineInv, MadeInv, FoldersInv, AfterFind, Reregistering, BeforeFind
  <1>3. DestroyedInv' /\ \A t : Known(t)' = Known(t) /\ Registered(t)' = Registered(t)
    BY <1>1 DEF server, DestroyedInv, Known, Registered
  <1>4. at = "tag" => machine \in template /\ Registered(machine)
                      /\ (config.template.reregister => inventory[Target] = machine)
    BY DEF IInv, MadeInv
  <1>5. TemplateIsMade'
    <2>1. CASE outcome' = "error"
      BY <2>1 DEF TemplateIsMade
    <2>2. CASE at = "tag" /\ (cancelled' \/ (config.tags => machine \in tagged'))
      <3>1. machine # None
        BY <2>2, <1>1 DEF MachineInv, AfterFind
      <3>2. QED BY <1>1, <1>3, <1>4, <2>2, <3>1 DEF TemplateIsMade, MachineInv, server
    <2>3. QED BY <2>1, <2>2
  <1>6. RegisteredInv'
    <2>1. ASSUME NEW t \in Things, t = machine, ~Registered(t)' PROVE outcome' # "success"
      BY <1>3, <1>4, <2>1
    <2>2. QED BY <1>1, <1>3, <2>1, NothingMissing DEF server
  <1>7. QED BY <1>2, <1>3, <1>5, <1>6 DEF ServerInv

LEMMA MarkAsTemplateKept ==
  ASSUME IInv, Next, MarkAsTemplate
  PROVE  ServerInv'
  <1>1. /\ config' = config /\ before' = before /\ Remote' = Remote
        /\ MachineInv /\ RegisteredInv /\ DestroyedInv
        /\ at = "mark" /\ ~config.template.reregister /\ outcome = None
    BY GivenStays DEF IInv, PlaceInv, MarkAsTemplate, TypeOK
  <1>2. CASE /\ Registered(machine) /\ template' = template \cup {machine} /\ GoTo("tag")
    <2>1. at' = "tag" /\ outcome' = None /\ UNCHANGED <<inventory, destroyed, machine>>
      BY <1>1, <1>2 DEF MarkAsTemplate, GoTo
    <2>2. MachineInv'
      BY <1>1, <2>1 DEF MachineInv, AfterFind
    <2>3. MadeInv' /\ FoldersInv' /\ TemplateIsMade' /\ DestroyedInv'
      BY <1>1, <1>2, <2>1 DEF MadeInv, Registered, FoldersInv, BeforeFind, TemplateIsMade, None,
                              DestroyedInv
    <2>4. \A t \in Things : Registered(t)' = Registered(t) /\ (Known(t)' => Known(t) \/ t = machine)
      BY <1>1, <1>2, <2>1 DEF Registered, Known
    <2>5. RegisteredInv'
      BY <1>1, <1>2, <2>1, <2>4 DEF RegisteredInv
    <2>6. QED BY <2>2, <2>3, <2>5 DEF ServerInv
  <1>3. CASE UNCHANGED template /\ Fails
    BY <1>3, EndKept DEF MarkAsTemplate, Fails, Ends, server
  <1>4. QED BY <1>2, <1>3 DEF MarkAsTemplate

LEMMA UnregisterKept ==
  ASSUME IInv, Next, Unregister \/ UnregisterOther
  PROVE  ServerInv'
  <1>1. /\ config' = config /\ before' = before /\ Remote' = Remote
        /\ MachineInv /\ DestroyedInv
        /\ at \in Reregistering /\ config.template.reregister /\ outcome = None
    <2>1. at \in Reregistering /\ at # "ended"
      BY DEF Unregister, UnregisterOther, Reregistering
    <2>2. QED BY <2>1, GivenStays DEF IInv, PlaceInv, TypeOK
  <1>2. UNCHANGED <<template, destroyed, machine>>
    BY DEF Unregister, UnregisterOther
  <1>3. CASE at' \in {"unregister other", "existing again"} /\ UNCHANGED outcome
    <2>1. MachineInv'
      BY <1>1, <1>2, <1>3 DEF MachineInv, AfterFind
    <2>2. MadeInv' /\ FoldersInv' /\ TemplateIsMade' /\ DestroyedInv'
      BY <1>1, <1>2, <1>3 DEF MadeInv, FoldersInv, BeforeFind, TemplateIsMade, None, DestroyedInv
    <2>3. RegisteredInv'
      BY <1>1, <1>3 DEF RegisteredInv, None
    <2>4. QED BY <2>1, <2>2, <2>3 DEF ServerInv
  <1>4. CASE UNCHANGED inventory /\ Fails
    BY <1>2, <1>4, EndKept DEF Fails, Ends, server
  <1>5. QED BY <1>3, <1>4 DEF Unregister, UnregisterOther, GoTo

LEMMA RegisterKept ==
  ASSUME IInv, Next, Register
  PROVE  ServerInv'
  <1>1. /\ config' = config /\ before' = before /\ Remote' = Remote /\ Target' = Target
        /\ MachineInv /\ RegisteredInv /\ DestroyedInv /\ TypeOK
        /\ at = "register" /\ outcome = None /\ UNCHANGED <<destroyed, machine>>
    BY GivenStays DEF IInv, TypeOK, Register
  <1>2. CASE /\ inventory[Target] = None /\ inventory' = [inventory EXCEPT ![Target] = machine]
             /\ template' = template \cup {machine} /\ (GoTo("tag") \/ Fails)
    <2>1. /\ inventory'[Target] = machine /\ Registered(machine)'
          /\ \A t \in Things : Registered(t) => Registered(t)'
      BY <1>1, <1>2, RegistersAtFree
    <2>2. at' \in {"tag", "ended"} /\ outcome' \in {None, "error"}
      BY <1>1, <1>2 DEF GoTo, Fails, Ends
    <2>3. MachineInv'
      BY <1>1, <2>2 DEF MachineInv, AfterFind, Reregistering
    <2>4. MadeInv'
      BY <1>1, <1>2, <2>1 DEF MadeInv, Registered
    <2>5. FoldersInv' /\ TemplateIsMade' /\ DestroyedInv'
      BY <1>1, <1>2, <2>2 DEF FoldersInv, BeforeFind, TemplateIsMade, None, DestroyedInv
    <2>6. \A t \in Things : Known(t)' => Known(t) \/ t = machine
      BY <1>1, <1>2 DEF Known
    <2>7. \A t \in Things : t # machine \/ Registered(t)'
      BY <1>1, <2>1 DEF Registered
    <2>8. RegisteredInv'
      BY <1>1, <2>1, <2>2, <2>6, <2>7 DEF RegisteredInv
    <2>9. QED BY <2>3, <2>4, <2>5, <2>8 DEF ServerInv
  <1>3. CASE UNCHANGED <<inventory, template>> /\ Fails
    BY <1>1, <1>3, EndKept DEF Fails, Ends, server
  <1>4. QED BY <1>2, <1>3 DEF Register

LEMMA TagKept ==
  ASSUME IInv, Next, ApplyTags \/ (StopsEarly /\ at = "tag")
  PROVE  ServerInv'
  <1>1. UNCHANGED server /\ machine' = machine /\ at' = "ended"
    BY DEF ApplyTags, StopsEarly, Fails, Ends
  <1>2. outcome' = "error" \/ (at = "tag" /\ (cancelled' \/ (config.tags => machine \in tagged')))
    BY DEF ApplyTags, StopsEarly, Starts, Fails, Ends
  <1>3. QED BY <1>1, <1>2, EndKept

LEMMA InterruptKept ==
  ASSUME IInv, [Next]_vars, UNCHANGED <<server, machine, at, outcome>>,
         UNCHANGED <<cancelled, tagged>> \/ at # "ended"
  PROVE  ServerInv'
  <1>1. /\ config' = config /\ before' = before /\ Remote' = Remote /\ Target' = Target
        /\ FoldersInv /\ MachineInv /\ MadeInv /\ RegisteredInv /\ DestroyedInv /\ TemplateIsMade
        /\ at # "ended" => outcome = None
        /\ UNCHANGED <<inventory, template, destroyed>>
    BY GivenStays DEF IInv, TypeOK, server
  <1>2. \A t : Known(t)' = Known(t) /\ Registered(t)' = Registered(t)
    BY <1>1 DEF Known, Registered
  <1>3. FoldersInv' /\ MachineInv' /\ MadeInv' /\ DestroyedInv' /\ RegisteredInv'
    BY <1>1, <1>2 DEF FoldersInv, MachineInv, MadeInv, DestroyedInv, RegisteredInv
  <1>4. TemplateIsMade'
    BY <1>1, <1>2 DEF TemplateIsMade, None
  <1>5. QED BY <1>3, <1>4 DEF ServerInv

LEMMA OtherBuildKept ==
  ASSUME IInv, Next, OtherBuild
  PROVE  ServerInv'
  <1>1. /\ config' = config /\ before' = before /\ Remote' = Remote /\ Target' = Target
        /\ FoldersInv /\ MachineInv /\ MadeInv /\ RegisteredInv /\ DestroyedInv /\ TypeOK
        /\ outcome' = None /\ UNCHANGED <<at, outcome, machine, destroyed>>
        /\ template' = template \cup {"theirs"} /\ config.template.named
        /\ inventory[Target] = None /\ inventory' = [inventory EXCEPT ![Target] = "theirs"]
    BY GivenStays DEF IInv, TypeOK, OtherBuild
  <1>2. /\ Registered("theirs")' /\ \A t \in Things : Registered(t) => Registered(t)'
        /\ \A p \in Paths : p # Target => inventory'[p] = inventory[p]
    BY <1>1, RegistersAtFree
  <1>3. FoldersInv'
    <2>1. Target \notin Folders /\ Folders \subseteq Paths
      BY <1>1, PathsAre DEF Target, Folders
    <2>2. QED BY <1>1, <1>2, <2>1 DEF FoldersInv
  <1>4. MachineInv' /\ DestroyedInv' /\ TemplateIsMade'
    BY <1>1 DEF MachineInv, DestroyedInv, TemplateIsMade, None
  <1>5. MadeInv'
    <2>1. at = "tag" => machine # None /\ machine \in Things /\ Registered(machine)
      BY <1>1 DEF MachineInv, AfterFind, TypeOK, MadeInv
    <2>2. at = "tag" => ~config.template.reregister
      BY <1>1, <2>1 DEF MadeInv
    <2>3. QED BY <1>1, <1>2, <2>1, <2>2 DEF MadeInv
  <1>6. \A t \in Things : Known(t)' => Known(t) \/ t = "theirs"
    BY <1>1 DEF Known
  <1>7. RegisteredInv'
    BY <1>1, <1>2, <1>6 DEF RegisteredInv
  <1>8. QED BY <1>3, <1>4, <1>5, <1>7 DEF ServerInv
-----------------------------------------------------------------------------
(* The invariant *)

LEMMA InitIInv == Init => IInv
  <1> SUFFICES ASSUME Init PROVE IInv
    OBVIOUS
  <1>1. inventory = before /\ inventory \in [Paths -> {"ours", "old", None}] /\ config \in Configs
        /\ before \in Inventories
    BY PostProcessAssumption DEF Init
  <1>2. at \in {"verify", "check"} /\ outcome = None /\ cancelled = FALSE /\ machine = None
        /\ attempt = 0 /\ tagged = {} /\ destroyed = {} /\ template \in SUBSET {"ours", "old"}
        /\ (at = "verify" <=> config.artifact = "uploaded")
    BY DEF Init
  <1>3. TypeOK
    <2>1. attempt \in 0 .. Tries
      BY <1>2, PostProcessAssumption
    <2>2. inventory \in [Paths -> Things \cup {None}] /\ template \subseteq Things
      BY <1>1, <1>2 DEF Things
    <2>3. QED BY <1>1, <1>2, <2>1, <2>2 DEF TypeOK, None
  <1>4. PlaceInv /\ MachineInv /\ MadeInv /\ DestroyedInv /\ TemplateIsMade
    BY <1>2 DEF PlaceInv, MachineInv, MadeInv, DestroyedInv, TemplateIsMade, Reregistering, AfterFind, None
  <1>5. AttemptInv
    BY <1>2 DEF AttemptInv
  <1>6. FoldersInv
    BY <1>1 DEF FoldersInv
  <1>7. RegisteredInv
    <2>1. "theirs" \notin template
      BY <1>2
    <2>2. QED BY <1>1, <2>1 DEF RegisteredInv, Known, Registered
  <1>8. QED BY <1>3, <1>4, <1>5, <1>6, <1>7 DEF IInv

LEMMA ServerKept ==
  ASSUME IInv, Next
  PROVE  ServerInv' /\ machine' \in Things \cup {None}
  <1>1. machine' \in Things \cup {None}
    BY MachineStays, FindMachineKept DEF IInv, TypeOK
  <1>2. CASE Interrupt
    <2>1. UNCHANGED <<server, machine, at, outcome>> /\ at # "ended"
      BY <1>2 DEF Interrupt, server
    <2>2. QED BY <1>1, <2>1, InterruptKept
  <1>3. QED BY <1>1, <1>2, UploadingKept, FindMachineKept, RemoveExistingKept, MarkAsTemplateKept,
               UnregisterKept, RegisterKept, TagKept, OtherBuildKept DEF Next

LEMMA TaggedKept ==
  ASSUME IInv, Next
  PROVE  tagged' \subseteq Things
  <1>1. tagged \subseteq Things /\ inventory \in [Paths -> Things \cup {None}] /\ Folders \subseteq Paths
    BY PathsAre DEF IInv, TypeOK
  <1>2. CASE TagUpload
    <2>1. {inventory[p] : p \in Folders} \ {None} \subseteq Things
      BY <1>1
    <2>2. QED BY <1>1, <1>2, <2>1 DEF TagUpload
  <1>3. CASE ApplyTags
    <2>1. machine \in Things
      BY <1>3 DEF ApplyTags, Starts, IInv, TypeOK, MachineInv, AfterFind
    <2>2. QED BY <1>1, <1>3, <2>1 DEF ApplyTags
  <1>4. CASE ~(TagUpload \/ ApplyTags)
    BY <1>1, <1>4 DEF Next, Verify, Upload, Check, CreateFolder, CreateSnapshot,
       FindMachine, RemoveExisting, MarkAsTemplate, Unregister, UnregisterOther,
       RemoveExistingAgain, Register, StopsEarly, Interrupt, OtherBuild
  <1>5. QED BY <1>2, <1>3, <1>4

LEMMA NextIInv == IInv /\ [Next]_vars => IInv'
  <1> SUFFICES ASSUME IInv, [Next]_vars PROVE IInv'
    OBVIOUS
  <1>1. CASE UNCHANGED vars
    <2>1. UNCHANGED <<given, server, machine, at, outcome, cancelled, tagged, attempt>>
      BY <1>1 DEF vars
    <2>2. ServerInv'
      BY <2>1, InterruptKept
    <2>3. TypeOK' /\ PlaceInv' /\ AttemptInv'
      BY <2>1 DEF IInv, TypeOK, PlaceInv, AttemptInv, given, server
    <2>4. QED BY <2>2, <2>3 DEF IInv, ServerInv
  <1>2. CASE Next
    <2>1. ServerInv' /\ PlaceInv' /\ AttemptInv'
      BY <1>2, ServerKept, PlaceKept, AttemptKept
    <2>2. TypeOK'
      <3>1. config' \in Configs /\ before' \in Inventories
        BY GivenStays DEF IInv, TypeOK
      <3>2. /\ inventory' \in [Paths -> Things \cup {None}] /\ template' \subseteq Things
            /\ destroyed' \subseteq Things
        BY <1>2, ServerTypes DEF IInv
      <3>3. attempt' \in 0 .. Tries /\ machine' \in Things \cup {None} /\ tagged' \subseteq Things
        BY <1>2, AttemptKept, ServerKept, TaggedKept
      <3>4. machine' # None /\ config'.artifact = "uploaded" => attempt' > 0
        <4>1. config' = config
          BY GivenStays
        <4>2. ASSUME machine' # None, config.artifact = "uploaded" PROVE attempt' > 0
          <5>1. CASE Upload
            <6>1. attempt' = attempt + 1 /\ attempt \in 0 .. Tries
              BY <5>1 DEF Upload, IInv, TypeOK
            <6>2. Tries \in Nat
              BY PostProcessAssumption
            <6>3. QED BY <6>1, <6>2
          <5>2. CASE FindMachine
            <6>1. attempt' = attempt /\ at = "find"
              BY <5>2 DEF FindMachine, Starts
            <6>2. QED BY <4>2, <6>1 DEF IInv, AttemptInv
          <5>3. CASE ~Upload /\ ~FindMachine
            <6>1. attempt' = attempt /\ machine' = machine
              BY <1>2, <5>3, AttemptStays, MachineStays
            <6>2. QED BY <4>2, <6>1 DEF IInv, TypeOK
          <5>4. QED BY <5>1, <5>2, <5>3
        <4>3. QED BY <4>1, <4>2
      <3>5. /\ at' \in Places /\ outcome' \in {None, "success", "error"}
            /\ (outcome' = None) = (at' # "ended") /\ cancelled' \in BOOLEAN
        BY <1>2, ControlTypes DEF IInv
      <3>6. QED BY <3>1, <3>2, <3>3, <3>4, <3>5 DEF TypeOK, Places, BeforeFind, AfterFind, Reregistering, Steps
    <2>3. QED BY <2>1, <2>2 DEF IInv, ServerInv
  <1>3. QED BY <1>1, <1>2

LEMMA Invariance == Spec => []IInv
  BY InitIInv, NextIInv, PTL DEF Spec

-----------------------------------------------------------------------------
(* The properties *)

\* The variables keep their types, at most Tries attempts are made to upload, and
\* one at least before a machine that is uploaded is found.
THEOREM TypeCorrect == Spec => []TypeOK
  <1>1. IInv => TypeOK
    BY DEF IInv
  <1>2. QED BY Invariance, <1>1, PTL

\* Success that was not interrupted means a registered template with the tags, at the
\* path asked for, whatever another build registers meanwhile.
THEOREM SuccessIsATemplate == Spec => []TemplateIsMade
  <1>1. IInv => TemplateIsMade
    BY DEF IInv
  <1>2. QED BY Invariance, <1>1, PTL

\* What the post-processors take out of the inventory they destroy on request, or
\* leave unregistered only where a machine was to be registered again.
THEOREM InventoryIsKept == Spec => []NothingIsLost
  <1>1. IInv => NothingIsLost
    <2> SUFFICES ASSUME IInv PROVE NothingIsLost
      OBVIOUS
    <2>1. ASSUME NEW t \in Things, t \in destroyed
          PROVE  (config.template.override /\ t \in template)
                   \/ (config.upload.overwrite /\ config.artifact = "uploaded")
      BY <2>1 DEF IInv, DestroyedInv
    <2>2. ASSUME NEW t \in Things, Known(t), outcome # None, t \notin destroyed, ~Registered(t)
          PROVE  config.template.reregister /\ (t = machine => outcome = "error")
      BY <2>2 DEF IInv, RegisteredInv, TypeOK
    <2>3. QED BY <2>1, <2>2 DEF NothingIsLost, Known
  <1>2. QED BY Invariance, <1>1, PTL
================================================================================
