------------------------- MODULE BuildPipelineProofs -------------------------
(***************************************************************************)
(* Proofs about BuildPipeline, for every set of configurations: first what  *)
(* a build leaves behind, reports and promises, then what it produces.      *)
(***************************************************************************)
EXTENDS BuildPipeline, TLAPS

Creators == {"StepCreateVM", "StepCloneVM"}

Early ==
  { "StepResolveDatastore", "StepDownload", "StepCreateCD", "StepRemoteUpload" }

Later == StepNames \ (Early \cup Creators \cup {"StepConnect"})

CreatorAt == Len(CreationSteps(config.builder))

-----------------------------------------------------------------------------
(* The step lists *)

\* Appending sequences over a set, and choosing one by a condition, stays in
\* the sequences over that set.
LEMMA ConcatType ==
  ASSUME NEW S, NEW s \in Seq(S), NEW t \in Seq(S)
  PROVE  s \o t \in Seq(S)
  OBVIOUS

LEMMA WhenType ==
  ASSUME NEW S, NEW condition, NEW s \in Seq(S)
  PROVE  When(condition, s) \in Seq(S)
  BY DEF When

\* No step after the creation of the machine creates it again or connects.
LEMMA IsoStepsType == ASSUME NEW o PROVE IsoSteps(o) \in Seq(Later)
  <1> DEFINE head == << "StepConfigureHardware", "StepAddFlag",
                        "StepAddCDRom", "StepConfigParams",
                        "StepCreateFloppy", "StepAddFloppy", "StepApplyTags",
                        "StepSetVApp" >>
             tail == << "StepShutdown", "StepRemoveFloppy", "StepRemoveCDRom",
                        "StepReattachCDRom", "StepRemoveNetworkAdapter",
                        "StepRemoveVTPM", "StepCreateSnapshot",
                        "StepConvertToTemplate" >>
  <1>1. /\ head \in Seq(Later)
        /\ tail \in Seq(Later)
        /\ << "StepHTTPIPDiscover" >> \in Seq(Later)
        /\ << "StepHTTPServer" >> \in Seq(Later)
        /\ << "StepSshKeyPair" >> \in Seq(Later)
        /\ << "StepRun", "StepBootCommand" >> \in Seq(Later)
        /\ << "StepWaitForIp" >> \in Seq(Later)
        /\ << "StepConnectCommunicator", "StepProvision" >> \in Seq(Later)
        /\ << "StepImportToContentLibrary" >> \in Seq(Later)
        /\ << "StepExport" >> \in Seq(Later)
    BY DEF Later, StepNames, Early, Creators
  <1> HIDE DEF head, tail
  <1>2. QED BY <1>1, ConcatType, WhenType DEF IsoSteps, head, tail

LEMMA CloneStepsType == ASSUME NEW o PROVE CloneSteps(o) \in Seq(Later)
  <1> DEFINE head == << "StepConfigureHardware", "StepAddFlag",
                        "StepAddCDRom", "StepConfigParams" >>
             run == << "StepHTTPServer", "StepSshKeyPair", "StepRun",
                       "StepBootCommand" >>
             stop == << "StepConnectCommunicator", "StepProvision",
                        "StepApplyTags", "StepShutdown", "StepRemoveFloppy" >>
             tail == << "StepRemoveCDRom", "StepReattachCDRom",
                        "StepRemoveVTPM", "StepCreateSnapshot",
                        "StepRemoveNetworkAdapter", "StepConvertToTemplate" >>
  <1>1. /\ head \in Seq(Later)
        /\ run \in Seq(Later)
        /\ stop \in Seq(Later)
        /\ tail \in Seq(Later)
        /\ << "StepCustomize" >> \in Seq(Later)
        /\ << "StepApplyTags" >> \in Seq(Later)
        /\ << "StepCreateFloppy", "StepAddFloppy" >> \in Seq(Later)
        /\ << "StepHTTPIPDiscover" >> \in Seq(Later)
        /\ << "StepWaitForIp" >> \in Seq(Later)
        /\ << "StepImportToContentLibrary" >> \in Seq(Later)
        /\ << "StepExport" >> \in Seq(Later)
    BY DEF Later, StepNames, Early, Creators
  <1> HIDE DEF head, run, stop, tail
  <1>2. QED BY <1>1, ConcatType, WhenType DEF CloneSteps, head, run, stop, tail

\* The shape of every step list: the connection first, then steps that neither
\* create nor use a machine, then its creation, then everything else.
LEMMA StepsShape ==
  ASSUME config \in Configs
  PROVE  /\ Steps \in Seq(StepNames)
         /\ CreatorAt \in 2 .. Len(Steps)
         /\ \A i \in 1 .. Len(Steps) :
              /\ i = 1 => Steps[i] = "StepConnect"
              /\ i \in 2 .. CreatorAt - 1 => Steps[i] \in Early
              /\ i = CreatorAt => Steps[i] \in Creators
              /\ i > CreatorAt => Steps[i] \in Later
  <1> DEFINE creation == CreationSteps(config.builder)
             rest == BuildSteps(config)
  <1>1. config.builder \in {"iso", "clone"}
    BY ConfigsAssumption
  <1>2. rest \in Seq(Later)
    BY IsoStepsType, CloneStepsType DEF BuildSteps
  <1>3. /\ creation \in Seq(Early \cup Creators \cup {"StepConnect"})
        /\ Len(creation) \in {5, 6}
        /\ creation[1] = "StepConnect"
        /\ \A i \in 2 .. Len(creation) - 1 : creation[i] \in Early
        /\ creation[Len(creation)] \in Creators
    <2>1. CASE config.builder = "iso"
      <3>1. creation = << "StepConnect", "StepResolveDatastore",
                          "StepDownload", "StepCreateCD", "StepRemoteUpload",
                          "StepCreateVM" >>
        BY <2>1 DEF CreationSteps
      <3>2. Len(creation) = 6 /\ 2 .. Len(creation) - 1 = {2, 3, 4, 5}
        BY <3>1
      <3>3. QED BY <3>1, <3>2 DEF Early, Creators
    <2>2. CASE config.builder = "clone"
      <3>1. creation = << "StepConnect", "StepResolveDatastore",
                          "StepCreateCD", "StepRemoteUpload", "StepCloneVM" >>
        BY <2>2 DEF CreationSteps
      <3>2. Len(creation) = 5 /\ 2 .. Len(creation) - 1 = {2, 3, 4}
        BY <3>1
      <3>3. QED BY <3>1, <3>2 DEF Early, Creators
    <2>3. QED BY <1>1, <2>1, <2>2
  <1>4. Steps = creation \o rest
    BY DEF Steps
  <1>5. /\ creation \in Seq(StepNames)
        /\ rest \in Seq(StepNames)
    BY <1>2, <1>3 DEF Later, Early, Creators, StepNames
  <1> HIDE DEF creation, rest
  <1>6. /\ Steps \in Seq(StepNames)
        /\ Len(Steps) = Len(creation) + Len(rest)
        /\ \A i \in 1 .. Len(Steps) :
             Steps[i] = IF i <= Len(creation) THEN creation[i]
                                              ELSE rest[i - Len(creation)]
    BY <1>4, <1>5
  <1>7. CreatorAt = Len(creation)
    BY DEF CreatorAt, creation
  <1>8. \A i \in 1 .. Len(Steps) : i > CreatorAt => Steps[i] \in Later
    <2> SUFFICES ASSUME NEW i \in 1 .. Len(Steps), i > CreatorAt
                 PROVE  Steps[i] \in Later
      OBVIOUS
    <2>1. Steps[i] = rest[i - Len(creation)] /\ i - Len(creation) \in 1 .. Len(rest)
      BY <1>2, <1>3, <1>6, <1>7
    <2>2. QED BY <2>1, <1>2
  <1>9. QED BY <1>2, <1>3, <1>6, <1>7, <1>8

LEMMA CounterType ==
  ASSUME TypeOK
  PROVE  /\ Len(Steps) \in Nat /\ pc \in Nat /\ CreatorAt \in 2 .. Len(Steps)
         /\ phase = "step" => pc \in 1 .. Len(Steps)
         /\ phase = "loop" => pc \in 1 .. Len(Steps) + 1
         /\ phase = "cleanup" => pc \in 0 .. Len(Steps)
  <1>1. /\ Steps \in Seq(StepNames)
        /\ CreatorAt \in 2 .. Len(Steps)
    BY StepsShape DEF TypeOK
  <1>2. Len(Steps) \in Nat
    BY <1>1
  <1>3. QED BY <1>1, <1>2 DEF TypeOK

\* The configuration never changes, so neither does the step list.
LEMMA StepsConstant ==
  ASSUME UNCHANGED config
  PROVE  Steps' = Steps /\ CreatorAt' = CreatorAt
  BY DEF Steps, BuildSteps, CreatorAt

-----------------------------------------------------------------------------
(* What any step does *)

\* Where Continues and Halts leave the runner.
ControlEffect ==
  /\ phase = "step"
  /\ (phase' = "loop" /\ pc' = pc + 1) \/ (phase' = "cleanup" /\ pc' = pc)
  /\ UNCHANGED config

\* A step that stops the build says so in the bag, and why unless interrupted.
StopEffect ==
  /\ UNCHANGED <<ctxDone, result, cleanupFailed>>
  /\ phase' = "loop" => broke' = broke
  /\ phase' = "cleanup" =>
       /\ broke' = TRUE
       /\ bag' \cap {"cancelled", "halted"} # {}
       /\ \/ bag' \cap {"error", "error listing cdrom devices: %v", "cancelled"} # {}
          \/ ctxDone

\* The state bag and the world keep their types, and only grow where it counts.
TypeEffect ==
  /\ bag' \in SUBSET Keys
  /\ vm' \in SUBSET VMFacts
  /\ files' \in SUBSET {"cd", "floppy"}
  /\ outputs' \in SUBSET Outputs
  /\ untracked' \in SUBSET {"vm", "cd", "floppy", "session"}
  /\ session' \in BOOLEAN
  /\ oldVM' \in BOOLEAN
  /\ untracked \subseteq untracked'
  /\ bag \ {"uploaded_floppy_path"} \subseteq bag'
  /\ "cancelled" \in bag' => "cancelled" \in bag

\* A resource that a step creates has its key in the bag or is untracked.
ResourceEffect ==
  /\ Steps[pc] = "StepConnect" /\ phase' = "loop" => "driver" \in bag'
  /\ session' => \/ session \/ "session" \in untracked'
                 \/ "driver" \in bag' /\ Steps[pc] = "StepConnect"
  /\ "cd" \in files' => \/ "cd" \in files \/ "cd" \in untracked'
                        \/ "cd_path" \in bag' /\ Steps[pc] = "StepRemoteUpload"
  /\ "floppy" \in files' =>
       \/ "floppy" \in files /\ ("uploaded_floppy_path" \in bag
                                   => "uploaded_floppy_path" \in bag')
       \/ "floppy" \in untracked'
       \/ "uploaded_floppy_path" \in bag' /\ Steps[pc] = "StepAddFloppy"

\* Only a creating step creates the machine and puts its key.
MachineEffect ==
  /\ Steps[pc] \notin Creators =>
       /\ "exists" \in vm' <=> "exists" \in vm
       /\ "vm" \in bag' <=> "vm" \in bag
  /\ Steps[pc] \in Early \cup {"StepConnect"} => vm' = vm
  /\ Steps[pc] \in Creators =>
       \/ phase' = "loop" /\ "exists" \in vm' /\ "vm" \in bag'
       \/ /\ phase' = "cleanup" /\ "error" \in bag'
          /\ "vm" \in bag' <=> "vm" \in bag
          /\ \/ vm' = vm
             \/ "exists" \in vm' /\ "vm" \in untracked'
       \/ phase' = "cleanup" /\ "exists" \in vm' /\ "vm" \in bag'

StepEffect ==
  ControlEffect /\ StopEffect /\ TypeEffect /\ ResourceEffect /\ MachineEffect

\* The steps that change nothing the model keeps.
LEMMA PlainEffect ==
  ASSUME TypeOK, NEW s \in Early \cup Later, Plain(s) \/ InterruptibleSdkStep(s)
  PROVE  StepEffect
  <1>1. /\ At(s)
        /\ UNCHANGED <<world, untracked>>
        /\ Continues(bag) \/ Fails(bag) \/ (ctxDone /\ Halts(bag))
    BY DEF Plain, InterruptibleSdkStep
  <1>2. Steps[pc] \notin Creators \cup {"StepConnect"}
    BY <1>1 DEF At, Early, Later, Creators
  <1>3. ControlEffect /\ StopEffect
    BY <1>1 DEF ControlEffect, StopEffect, At, Continues, Halts, Fails
  <1>4. /\ bag' \in SUBSET Keys
        /\ bag \subseteq bag'
        /\ "cancelled" \in bag' => "cancelled" \in bag
        /\ "vm" \in bag' <=> "vm" \in bag
    BY <1>1 DEF Continues, Halts, Fails, TypeOK, Keys
  <1>5. TypeEffect
    BY <1>1, <1>4 DEF TypeEffect, TypeOK, world
  <1>6. ResourceEffect
    BY <1>1, <1>2, <1>4 DEF ResourceEffect, world
  <1>7. MachineEffect
    BY <1>1, <1>2, <1>4 DEF MachineEffect, world
  <1>8. QED BY <1>3, <1>5, <1>6, <1>7 DEF StepEffect

\* The steps that change the bag or the world.
LEMMA StepConnectEffect ==
  ASSUME TypeOK, StepConnect
  PROVE  StepEffect
  <1>1. /\ At("StepConnect")
        /\ UNCHANGED <<vm, files, oldVM, outputs>>
        /\ Continues(bag \cup {"driver"}) \/ Fails(bag)
        /\ \/ session' = session /\ untracked' = untracked
           \/ /\ session' = TRUE
              /\ \/ "driver" \in bag' /\ untracked' = untracked
                 \/ untracked' = untracked \cup {"session"}
    BY DEF StepConnect, Continues
  <1>2. ControlEffect /\ StopEffect
    BY <1>1 DEF ControlEffect, StopEffect, At, Continues, Halts, Fails
  <1>3. /\ bag' \in SUBSET Keys
        /\ bag \subseteq bag'
        /\ "cancelled" \in bag' => "cancelled" \in bag
        /\ "vm" \in bag' <=> "vm" \in bag
        /\ phase' = "loop" => "driver" \in bag'
    BY <1>1 DEF Continues, Halts, Fails, TypeOK, Keys
  <1>4. TypeEffect
    BY <1>1, <1>3 DEF TypeEffect, TypeOK
  <1>5. Steps[pc] = "StepConnect"
    BY <1>1 DEF At
  <1>6. ResourceEffect
    BY <1>1, <1>3, <1>5 DEF ResourceEffect
  <1>7. MachineEffect
    BY <1>1, <1>3, <1>5 DEF MachineEffect, Creators
  <1>8. QED BY <1>2, <1>4, <1>6, <1>7 DEF StepEffect

LEMMA StepRemoteUploadEffect ==
  ASSUME TypeOK, StepRemoteUpload
  PROVE  StepEffect
  BY DEF StepRemoteUpload, At, Continues, Halts, Fails, StepEffect, ControlEffect,
         StopEffect, TypeEffect, ResourceEffect, MachineEffect, TypeOK, Keys, VMFacts,
         Outputs, Early, Creators

LEMMA StepCreateVMEffect ==
  ASSUME TypeOK, StepCreateVM
  PROVE  StepEffect
  BY DEF StepCreateVM, At, Continues, Halts, Fails, StepEffect, ControlEffect,
         StopEffect, TypeEffect, ResourceEffect, MachineEffect, TypeOK, Keys, VMFacts,
         Outputs, Early, Creators, CreationFails, CreationSucceeds, PreCleanVM

LEMMA StepCloneVMEffect ==
  ASSUME TypeOK, StepCloneVM
  PROVE  StepEffect
  BY DEF StepCloneVM, At, Continues, Halts, Fails, StepEffect, ControlEffect,
         StopEffect, TypeEffect, ResourceEffect, MachineEffect, TypeOK, Keys, VMFacts,
         Outputs, Early, Creators, CreationFails, CreationSucceeds, PreCleanVM

LEMMA StepAddCDRomEffect ==
  ASSUME TypeOK, StepAddCDRom
  PROVE  StepEffect
  BY DEF StepAddCDRom, At, Continues, Halts, Fails, StepEffect, ControlEffect,
         StopEffect, TypeEffect, ResourceEffect, MachineEffect, TypeOK, Keys, VMFacts,
         Outputs, Early, Creators

LEMMA StepAddFloppyEffect ==
  ASSUME TypeOK, StepAddFloppy
  PROVE  StepEffect
  BY DEF StepAddFloppy, At, Continues, Halts, Fails, StepEffect, ControlEffect,
         StopEffect, TypeEffect, ResourceEffect, MachineEffect, TypeOK, Keys, VMFacts,
         Outputs, Early, Creators

LEMMA StepRunEffect ==
  ASSUME TypeOK, StepRun
  PROVE  StepEffect
  BY DEF StepRun, At, Continues, Halts, Fails, StepEffect, ControlEffect,
         StopEffect, TypeEffect, ResourceEffect, MachineEffect, TypeOK, Keys, VMFacts,
         Outputs, Early, Creators, TemporaryBootOrder

LEMMA StepBootCommandEffect ==
  ASSUME TypeOK, StepBootCommand
  PROVE  StepEffect
  BY DEF StepBootCommand, At, Continues, Halts, Fails, StepEffect, ControlEffect,
         StopEffect, TypeEffect, ResourceEffect, MachineEffect, TypeOK, Keys, VMFacts,
         Outputs, Early, Creators, world

LEMMA StepWaitForIpEffect ==
  ASSUME TypeOK, StepWaitForIp
  PROVE  StepEffect
  BY DEF StepWaitForIp, At, Continues, Halts, Fails, StepEffect, ControlEffect,
         StopEffect, TypeEffect, ResourceEffect, MachineEffect, TypeOK, Keys, VMFacts,
         Outputs, Early, Creators, world

LEMMA StepShutdownEffect ==
  ASSUME TypeOK, StepShutdown
  PROVE  StepEffect
  BY DEF StepShutdown, At, Continues, Halts, Fails, StepEffect, ControlEffect,
         StopEffect, TypeEffect, ResourceEffect, MachineEffect, TypeOK, Keys, VMFacts,
         Outputs, Early, Creators

LEMMA StepRemoveFloppyEffect ==
  ASSUME TypeOK, StepRemoveFloppy
  PROVE  StepEffect
  BY DEF StepRemoveFloppy, At, Continues, Halts, Fails, StepEffect, ControlEffect,
         StopEffect, TypeEffect, ResourceEffect, MachineEffect, TypeOK, Keys, VMFacts,
         Outputs, Early, Creators

LEMMA StepRemoveCDRomEffect ==
  ASSUME TypeOK, StepRemoveCDRom
  PROVE  StepEffect
  BY DEF StepRemoveCDRom, At, Continues, Halts, Fails, StepEffect, ControlEffect,
         StopEffect, TypeEffect, ResourceEffect, MachineEffect, TypeOK, Keys, VMFacts,
         Outputs, Early, Creators, EjectsMedia

LEMMA StepReattachCDRomEffect ==
  ASSUME TypeOK, StepReattachCDRom
  PROVE  StepEffect
  BY DEF StepReattachCDRom, At, Continues, Halts, Fails, StepEffect, ControlEffect,
         StopEffect, TypeEffect, ResourceEffect, MachineEffect, TypeOK, Keys, VMFacts,
         Outputs, Early, Creators, EjectsMedia

LEMMA StepCreateSnapshotEffect ==
  ASSUME TypeOK, StepCreateSnapshot
  PROVE  StepEffect
  BY DEF StepCreateSnapshot, At, Continues, Halts, Fails, StepEffect, ControlEffect,
         StopEffect, TypeEffect, ResourceEffect, MachineEffect, TypeOK, Keys, VMFacts,
         Outputs, Early, Creators, MarksVM

LEMMA StepConvertToTemplateEffect ==
  ASSUME TypeOK, StepConvertToTemplate
  PROVE  StepEffect
  BY DEF StepConvertToTemplate, At, Continues, Halts, Fails, StepEffect, ControlEffect,
         StopEffect, TypeEffect, ResourceEffect, MachineEffect, TypeOK, Keys, VMFacts,
         Outputs, Early, Creators, MarksVM

LEMMA StepImportToContentLibraryEffect ==
  ASSUME TypeOK, StepImportToContentLibrary
  PROVE  StepEffect
  BY DEF StepImportToContentLibrary, At, Continues, Halts, Fails, StepEffect, ControlEffect,
         StopEffect, TypeEffect, ResourceEffect, MachineEffect, TypeOK, Keys, VMFacts,
         Outputs, Early, Creators

LEMMA StepExportEffect ==
  ASSUME TypeOK, StepExport
  PROVE  StepEffect
  BY DEF StepExport, At, Continues, Halts, Fails, StepEffect, ControlEffect,
         StopEffect, TypeEffect, ResourceEffect, MachineEffect, TypeOK, Keys, VMFacts,
         Outputs, Early, Creators

\* Every step has such an effect.
LEMMA RunStepEffect ==
  ASSUME TypeOK, RunStep
  PROVE  StepEffect
  <1>1. \A s \in Early \cup Later : Plain(s) \/ InterruptibleSdkStep(s) => StepEffect
    BY PlainEffect
  <1>2. { "StepResolveDatastore", "StepDownload", "StepCreateCD",
          "StepConfigureHardware", "StepAddFlag", "StepConfigParams",
          "StepCustomize", "StepCreateFloppy", "StepApplyTags", "StepSetVApp",
          "StepHTTPIPDiscover", "StepHTTPServer", "StepSshKeyPair",
          "StepConnectCommunicator", "StepProvision",
          "StepRemoveNetworkAdapter", "StepRemoveVTPM" }
          \subseteq Early \cup Later
    BY DEF Early, Later, Creators, StepNames
  <1>3. CASE \/ StepResolveDatastore \/ StepDownload \/ StepCreateCD
             \/ StepConfigureHardware \/ StepAddFlag \/ StepConfigParams
             \/ StepCustomize \/ StepCreateFloppy \/ StepApplyTags
             \/ StepSetVApp \/ StepHTTPIPDiscover \/ StepHTTPServer
             \/ StepSshKeyPair \/ StepConnectCommunicator \/ StepProvision
             \/ StepRemoveNetworkAdapter \/ StepRemoveVTPM
    BY <1>1, <1>2, <1>3
       DEF StepResolveDatastore, StepDownload, StepCreateCD,
           StepConfigureHardware, StepAddFlag, StepConfigParams, StepCustomize,
           StepCreateFloppy, StepApplyTags, StepSetVApp, StepHTTPIPDiscover,
           StepHTTPServer, StepSshKeyPair, StepConnectCommunicator,
           StepProvision, StepRemoveNetworkAdapter, StepRemoveVTPM
  <1>4. QED
    BY <1>3, StepConnectEffect, StepRemoteUploadEffect, StepCreateVMEffect,
       StepCloneVMEffect, StepAddCDRomEffect, StepAddFloppyEffect,
       StepRunEffect, StepBootCommandEffect, StepWaitForIpEffect,
       StepShutdownEffect, StepRemoveFloppyEffect, StepRemoveCDRomEffect,
       StepReattachCDRomEffect, StepCreateSnapshotEffect,
       StepConvertToTemplateEffect, StepImportToContentLibraryEffect,
       StepExportEffect DEF RunStep

-----------------------------------------------------------------------------
(* The inductive invariant *)

\* The last step whose clean-up is registered or about to be.
Entered == IF phase = "loop" THEN pc - 1 ELSE pc

Running == phase \in {"loop", "step"}

\* The clean-up of a step of S is still to come.
Due(S) ==
  /\ Running \/ phase = "cleanup"
  /\ \E i \in 1 .. Entered : Steps[i] \in S

ControlInv ==
  /\ Running => ~broke
  /\ broke => bag \cap {"cancelled", "halted"} # {}
  /\ broke => \/ bag \cap {"error", "error listing cdrom devices: %v"} # {}
              \/ ctxDone
  /\ "cancelled" \in bag => ctxDone
  /\ result = "pending" <=> phase \notin {"done", "discarded"}
  /\ result = "error" <=> phase \in {"done", "discarded"} /\ "error" \in bag

\* Whatever exists in vCenter and is known to the builder has its key in the
\* bag, and the clean-up that looks for this key is still to come, has failed,
\* or was not needed because the build succeeded.
TrackedInv ==
  /\ session => \/ "session" \in untracked
                \/ /\ "driver" \in bag
                   /\ Due({"StepConnect"}) \/ (~Running /\ cleanupFailed)
  /\ "exists" \in vm =>
       \/ "vm" \in untracked
       \/ "vm" \in bag /\ (Due(Creators) \/ (~Running /\ (cleanupFailed \/ ~broke)))
  /\ "cd" \in files =>
       \/ "cd" \in untracked
       \/ /\ "cd_path" \in bag
          /\ Due({"StepRemoteUpload"}) \/ (~Running /\ (cleanupFailed \/ ~broke))
  /\ "floppy" \in files =>
       \/ "floppy" \in untracked
       \/ /\ "uploaded_floppy_path" \in bag
          /\ Due({"StepAddFloppy"}) \/ (~Running /\ (cleanupFailed \/ ~broke))

\* The keys of the driver and of the machine are there from the step that puts
\* them to the last clean-up that reads them; the machine is not there before.
KeysInv ==
  /\ (Running \/ phase = "cleanup") /\ pc > 1 => "driver" \in bag
  /\ (Running \/ phase = "cleanup") /\ pc > CreatorAt => "vm" \in bag
  /\ Running /\ pc <= CreatorAt => vm = {} /\ "vm" \notin bag
  /\ ~Running /\ "vm" \notin bag => broke
  /\ "exists" \in vm => "vm" \in bag \/ "error" \in bag
  /\ result = "artifact" => "vm" \in bag

IInv == TypeOK /\ ControlInv /\ TrackedInv /\ KeysInv

-----------------------------------------------------------------------------
(* What any clean-up does *)

CleanupEffect ==
  /\ phase = "cleanup" /\ pc \in 1 .. Len(Steps)
  /\ \/ pc = 1 /\ phase' = "return" /\ pc' = 0
     \/ pc > 1 /\ phase' = "cleanup" /\ pc' = pc - 1
  /\ UNCHANGED <<config, ctxDone, broke, result, untracked, oldVM, outputs>>
  /\ bag' = bag \/ bag' = bag \cup {"error"}
  /\ cleanupFailed' \in BOOLEAN
  /\ cleanupFailed => cleanupFailed'
  /\ vm' \subseteq vm
  /\ files' \subseteq files
  /\ session' \in BOOLEAN
  /\ session' => session
  /\ "exists" \in vm \ vm' => DestroyDue
  /\ Steps[pc] = "StepConnect" /\ session' => cleanupFailed' \/ "driver" \notin bag
  /\ Steps[pc] \in Creators /\ "exists" \in vm' => cleanupFailed' \/ ~DestroyDue
  /\ Steps[pc] = "StepRemoteUpload" /\ "cd" \in files' =>
       cleanupFailed' \/ ~Stopped \/ "cd_path" \notin bag
  /\ Steps[pc] = "StepAddFloppy" /\ "floppy" \in files' =>
       cleanupFailed' \/ ~Stopped \/ "uploaded_floppy_path" \notin bag

LEMMA CleanupStepEffect ==
  ASSUME TypeOK, CleanupStep, ~NothingToClean
  PROVE  CleanupEffect
  <1>1. Len(Steps) \in Nat /\ pc \in Nat
    BY CounterType
  <1> DEFINE control ==
        /\ phase = "cleanup" /\ pc \in 1 .. Len(Steps)
        /\ \/ pc = 1 /\ phase' = "return" /\ pc' = 0
           \/ pc > 1 /\ phase' = "cleanup" /\ pc' = pc - 1
        /\ UNCHANGED <<config, ctxDone, broke, result, untracked>>
  <1>2. ASSUME NEW S, CleaningUp(S), Cleaned
        PROVE  control
    BY <1>1, <1>2 DEF CleaningUp, Cleaned, TypeOK
  <1>3. session \in BOOLEAN /\ cleanupFailed \in BOOLEAN
    BY DEF TypeOK
  <1> HIDE DEF control
  <1>4. CASE StepRunCleanup
    <2>1. control
      BY <1>2, <1>4 DEF StepRunCleanup
    <2>2. Steps[pc] = "StepRun"
      BY <1>4 DEF StepRunCleanup, CleaningUp, Creators
    <2>3. cleanupFailed' \in BOOLEAN
      BY <1>3, <1>4 DEF StepRunCleanup
    <2>4. cleanupFailed => cleanupFailed'
      BY <1>3, <1>4 DEF StepRunCleanup
    <2>5. bag' \in {bag, bag \cup {"error"}}
      BY <1>3, <1>4 DEF StepRunCleanup
    <2>6. vm' \subseteq vm /\ ("exists" \in vm => "exists" \in vm')
      BY <1>3, <1>4 DEF StepRunCleanup
    <2>7. UNCHANGED <<files, session, oldVM, outputs>>
      BY <1>3, <1>4 DEF StepRunCleanup
    <2>8. QED BY <1>3, <2>1, <2>2, <2>3, <2>4, <2>5, <2>6, <2>7
          DEF control, CleanupEffect, Creators
  <1>5. CASE StepAddFloppyCleanup
    <2>1. control
      BY <1>2, <1>5 DEF StepAddFloppyCleanup
    <2>2. Steps[pc] = "StepAddFloppy"
      BY <1>5 DEF StepAddFloppyCleanup, CleaningUp, Creators
    <2>3. cleanupFailed' \in BOOLEAN
      BY <1>3, <1>5 DEF StepAddFloppyCleanup
    <2>4. cleanupFailed => cleanupFailed'
      BY <1>3, <1>5 DEF StepAddFloppyCleanup
    <2>5. bag' \in {bag, bag \cup {"error"}}
      BY <1>3, <1>5 DEF StepAddFloppyCleanup
    <2>6. files' \subseteq files
      BY <1>3, <1>5 DEF StepAddFloppyCleanup
    <2>7. \/ "floppy" \notin files' \/ cleanupFailed' \/ ~Stopped
          \/ "uploaded_floppy_path" \notin bag
      BY <1>3, <1>5 DEF StepAddFloppyCleanup
    <2>8. UNCHANGED <<vm, session, oldVM, outputs>>
      BY <1>3, <1>5 DEF StepAddFloppyCleanup
    <2>9. QED BY <1>3, <2>1, <2>2, <2>3, <2>4, <2>5, <2>6, <2>7, <2>8
          DEF control, CleanupEffect, Creators
  <1>6. CASE CleanupVM
    <2>1. control
      BY <1>2, <1>6 DEF CleanupVM
    <2>2. Steps[pc] \in Creators
      BY <1>6 DEF CleanupVM, CleaningUp, Creators
    <2>3. cleanupFailed' \in BOOLEAN
      BY <1>3, <1>6 DEF CleanupVM
    <2>4. cleanupFailed => cleanupFailed'
      BY <1>3, <1>6 DEF CleanupVM
    <2>5. vm' \in {vm, {}} /\ (vm' = vm \/ DestroyDue)
      BY <1>3, <1>6 DEF CleanupVM
    <2>6. vm' = {} \/ cleanupFailed' \/ ~DestroyDue
      BY <1>3, <1>6 DEF CleanupVM
    <2>7. UNCHANGED <<bag, files, session, oldVM, outputs>>
      BY <1>3, <1>6 DEF CleanupVM
    <2>8. QED BY <1>3, <2>1, <2>2, <2>3, <2>4, <2>5, <2>6, <2>7
          DEF control, CleanupEffect, Creators
  <1>7. CASE StepRemoteUploadCleanup
    <2>1. control
      BY <1>2, <1>7 DEF StepRemoteUploadCleanup
    <2>2. Steps[pc] = "StepRemoteUpload"
      BY <1>7 DEF StepRemoteUploadCleanup, CleaningUp, Creators
    <2>3. cleanupFailed' \in BOOLEAN
      BY <1>3, <1>7 DEF StepRemoteUploadCleanup
    <2>4. cleanupFailed => cleanupFailed'
      BY <1>3, <1>7 DEF StepRemoteUploadCleanup
    <2>5. files' \subseteq files
      BY <1>3, <1>7 DEF StepRemoteUploadCleanup
    <2>6. \/ "cd" \notin files' \/ cleanupFailed' \/ ~Stopped
          \/ "cd_path" \notin bag
      BY <1>3, <1>7 DEF StepRemoteUploadCleanup
    <2>7. UNCHANGED <<bag, vm, session, oldVM, outputs>>
      BY <1>3, <1>7 DEF StepRemoteUploadCleanup
    <2>8. QED BY <1>3, <2>1, <2>2, <2>3, <2>4, <2>5, <2>6, <2>7
          DEF control, CleanupEffect, Creators
  <1>8. CASE StepConnectCleanup
    <2>1. control
      BY <1>2, <1>8 DEF StepConnectCleanup
    <2>2. Steps[pc] = "StepConnect"
      BY <1>8 DEF StepConnectCleanup, CleaningUp, Creators
    <2>3. cleanupFailed' \in BOOLEAN
      BY <1>3, <1>8 DEF StepConnectCleanup
    <2>4. cleanupFailed => cleanupFailed'
      BY <1>3, <1>8 DEF StepConnectCleanup
    <2>5. session' \in BOOLEAN
      BY <1>3, <1>8 DEF StepConnectCleanup
    <2>6. session' => session
      BY <1>3, <1>8 DEF StepConnectCleanup
    <2>7. session' => cleanupFailed' \/ "driver" \notin bag
      BY <1>3, <1>8 DEF StepConnectCleanup
    <2>8. UNCHANGED <<bag, vm, files, oldVM, outputs>>
      BY <1>3, <1>8 DEF StepConnectCleanup
    <2>9. QED BY <1>3, <2>1, <2>2, <2>3, <2>4, <2>5, <2>6, <2>7, <2>8
          DEF control, CleanupEffect, Creators
  <1>9. CASE NoCleanup
    <2>1. control
      BY <1>2, <1>9 DEF NoCleanup
    <2>2. Steps[pc] \notin Creators \cup {"StepConnect", "StepRemoteUpload",
                                          "StepAddFloppy"}
      BY <1>9 DEF NoCleanup, CleaningUp, Creators
    <2>3. QED BY <1>3, <1>9, <2>1, <2>2
          DEF NoCleanup, control, CleanupEffect, Creators, world
  <1>10. QED BY <1>4, <1>5, <1>6, <1>7, <1>8, <1>9 DEF CleanupStep

-----------------------------------------------------------------------------
(* What becomes of a clean-up that is still to come *)

LEMMA DueAfterStep ==
  ASSUME TypeOK, ControlEffect, NEW S, Due(S) \/ Steps[pc] \in S
  PROVE  Due(S)'
  <1>1. Steps' = Steps
    BY StepsConstant DEF ControlEffect
  <1>2. phase = "step" /\ pc \in Nat /\ pc >= 1
    BY CounterType DEF ControlEffect
  <1>3. Entered' = pc /\ Entered = pc
    BY <1>2 DEF ControlEffect, Entered
  <1>4. \E i \in 1 .. pc : Steps[i] \in S
    <2>1. CASE Due(S)
      BY <1>3, <2>1 DEF Due
    <2>2. CASE Steps[pc] \in S
      BY <1>2, <2>2
    <2>3. QED BY <2>1, <2>2
  <1>5. phase' \in {"loop", "step", "cleanup"}
    BY DEF ControlEffect
  <1>6. QED BY <1>1, <1>3, <1>4, <1>5 DEF Due, Running

LEMMA DueAfterCleanup ==
  ASSUME TypeOK, CleanupEffect, NEW S, Due(S), Steps[pc] \notin S
  PROVE  Due(S)'
  <1>1. Steps' = Steps
    BY StepsConstant DEF CleanupEffect
  <1>2. phase = "cleanup" /\ pc \in Nat /\ Entered = pc
    BY CounterType DEF CleanupEffect, Entered
  <1>3. PICK i \in 1 .. pc : Steps[i] \in S
    BY <1>2 DEF Due
  <1>4. i # pc /\ pc > 1
    BY <1>2, <1>3
  <1>5. phase' = "cleanup" /\ Entered' = pc - 1
    BY <1>4 DEF CleanupEffect, Entered
  <1>6. i \in 1 .. Entered'
    BY <1>2, <1>3, <1>4, <1>5
  <1>7. QED BY <1>1, <1>3, <1>5, <1>6 DEF Due

LEMMA DueAfterNextStep ==
  ASSUME TypeOK, NextStep, NEW S, Due(S)
  PROVE  Due(S)'
  <1>1. Steps' = Steps
    BY StepsConstant DEF NextStep
  <1>2. phase = "loop" /\ pc \in Nat /\ pc >= 1
    BY CounterType DEF NextStep
  <1>3. PICK i \in 1 .. pc - 1 : Steps[i] \in S
    BY <1>2 DEF Due, Entered
  <1>4. /\ phase' \in {"step", "cleanup"}
        /\ i \in 1 .. Entered'
    BY <1>2, <1>3 DEF NextStep, Entered
  <1>5. QED BY <1>1, <1>3, <1>4 DEF Due, Running

LEMMA DueUnchanged ==
  ASSUME UNCHANGED <<config, phase, pc>>, NEW S, Due(S)
  PROVE  Due(S)'
  <1>1. Steps' = Steps
    BY StepsConstant
  <1>2. QED BY <1>1 DEF Due, Running, Entered

-----------------------------------------------------------------------------
(* Type correctness *)

LEMMA InitTypeOK == Init => TypeOK
  <1> SUFFICES ASSUME Init PROVE TypeOK
    OBVIOUS
  <1>1. config \in Configs
    BY DEF Init
  <1>2. Len(Steps) \in Nat /\ Len(Steps) >= 2
    BY <1>1, StepsShape
  <1>3. pc = 1 /\ pc \in 0 .. Len(Steps) + 1
    BY <1>2 DEF Init
  <1>4. /\ ctxDone \in BOOLEAN /\ session \in BOOLEAN /\ oldVM \in BOOLEAN
        /\ broke \in BOOLEAN /\ cleanupFailed \in BOOLEAN
    BY DEF Init
  <1>5. /\ phase = "loop" /\ result = "pending"
        /\ bag = {} /\ vm = {} /\ files = {} /\ outputs = {} /\ untracked = {}
    BY DEF Init
  <1>6. QED BY <1>1, <1>3, <1>4, <1>5 DEF TypeOK

LEMMA NextTypeOK == TypeOK /\ [Next]_vars => TypeOK'
  <1> SUFFICES ASSUME TypeOK, [Next]_vars PROVE TypeOK'
    OBVIOUS
  <1>1. CASE RunStep
    <2>1. StepEffect
      BY <1>1, RunStepEffect
    <2>2. Steps' = Steps /\ config' = config
      BY <2>1, StepsConstant DEF StepEffect, ControlEffect
    <2>3. /\ phase' \in {"loop", "cleanup"}
          /\ pc' \in 0 .. Len(Steps) + 1
          /\ phase' = "loop" => pc' >= 1
          /\ phase' = "cleanup" => pc' <= Len(Steps)
      BY <2>1, CounterType DEF StepEffect, ControlEffect
    <2>4. broke' \in BOOLEAN
      BY <2>1, <2>3 DEF StepEffect, StopEffect, TypeOK
    <2>5. UNCHANGED <<ctxDone, result, cleanupFailed>>
      BY <2>1 DEF StepEffect, StopEffect
    <2>6. TypeEffect
      BY <2>1 DEF StepEffect
    <2>7. QED BY <2>2, <2>3, <2>4, <2>5, <2>6 DEF TypeOK, TypeEffect
  <1>2. CASE CleanupStep /\ ~NothingToClean
    <2>1. CleanupEffect
      BY <1>2, CleanupStepEffect
    <2>2. Steps' = Steps /\ config' = config
      BY <2>1, StepsConstant DEF CleanupEffect
    <2>3. /\ phase' \in {"return", "cleanup"}
          /\ pc' \in 0 .. Len(Steps) + 1
          /\ phase' = "cleanup" => pc' <= Len(Steps)
      BY <2>1, CounterType DEF CleanupEffect
    <2>4. bag' \in SUBSET Keys
      BY <2>1 DEF CleanupEffect, TypeOK, Keys
    <2>5. /\ vm' \subseteq vm /\ files' \subseteq files
          /\ session' \in BOOLEAN /\ cleanupFailed' \in BOOLEAN
          /\ UNCHANGED <<ctxDone, broke, result, untracked, oldVM, outputs>>
      BY <2>1 DEF CleanupEffect
    <2>6. QED BY <2>2, <2>3, <2>4, <2>5 DEF TypeOK
  <1>3. CASE NextStep
    <2>1. Steps' = Steps /\ config' = config
      BY <1>3, StepsConstant DEF NextStep
    <2>2. /\ phase' \in {"loop", "step", "cleanup"}
          /\ pc' \in 0 .. Len(Steps) + 1
          /\ phase' = "step" => pc' \in 1 .. Len(Steps)
          /\ phase' = "loop" => pc' >= 1
          /\ phase' = "cleanup" => pc' <= Len(Steps)
      BY <1>3, CounterType DEF NextStep
    <2>3. bag' \in SUBSET Keys /\ broke' \in BOOLEAN
      BY <1>3 DEF NextStep, TypeOK, Keys
    <2>4. UNCHANGED <<ctxDone, world, result, history>>
      BY <1>3 DEF NextStep
    <2>5. QED BY <2>1, <2>2, <2>3, <2>4 DEF TypeOK, world, history
  <1>4. CASE \/ Cancel \/ RecordCancellation \/ GuestPowersOff \/ NothingToClean
             \/ Return \/ ArtifactDestroy \/ Terminated \/ UNCHANGED vars
    <2>1. Steps' = Steps /\ config' = config /\ pc' = pc
      BY <1>4, StepsConstant
         DEF Cancel, RecordCancellation, GuestPowersOff, NothingToClean, Return,
             ArtifactDestroy, Terminated, vars, runner
    <2>2. \/ phase' = phase
          \/ phase' \in {"return", "done", "discarded"}
      BY <1>4
         DEF Cancel, RecordCancellation, GuestPowersOff, NothingToClean, Return,
             ArtifactDestroy, Terminated, vars, runner
    <2>3. bag' \in SUBSET Keys
      BY <1>4
         DEF Cancel, RecordCancellation, GuestPowersOff, NothingToClean, Return,
             ArtifactDestroy, Terminated, vars, runner, TypeOK, Keys
    <2>4. /\ vm' \subseteq vm /\ outputs' \subseteq outputs
          /\ UNCHANGED <<files, untracked>>
      BY <1>4
         DEF Cancel, RecordCancellation, GuestPowersOff, NothingToClean, Return,
             ArtifactDestroy, Terminated, vars, runner, world, history
    <2>5. /\ ctxDone' \in BOOLEAN /\ session' \in BOOLEAN /\ oldVM' \in BOOLEAN
          /\ broke' \in BOOLEAN /\ cleanupFailed' \in BOOLEAN
      BY <1>4
         DEF Cancel, RecordCancellation, GuestPowersOff, NothingToClean, Return,
             ArtifactDestroy, Terminated, vars, runner, world, history, TypeOK
    <2>6. result' \in {"pending", "error", "nil", "artifact"}
      BY <1>4
         DEF Cancel, RecordCancellation, GuestPowersOff, NothingToClean, Return,
             ArtifactDestroy, Terminated, vars, TypeOK
    <2>7. QED BY <2>1, <2>2, <2>3, <2>4, <2>5, <2>6 DEF TypeOK
  <1>5. QED BY <1>1, <1>2, <1>3, <1>4 DEF Next, Builder, CleanupStep

\* Every variable keeps its type, in every build of every configuration.
THEOREM TypeCorrect == Spec => []TypeOK
  BY InitTypeOK, NextTypeOK, PTL DEF Spec

-----------------------------------------------------------------------------
(* The inductive invariant is kept *)

LEMMA InitIInv == Init => IInv
  <1> SUFFICES ASSUME Init PROVE IInv
    OBVIOUS
  <1>1. TypeOK
    BY InitTypeOK
  <1>2. ControlInv
    BY DEF Init, ControlInv, Running
  <1>3. TrackedInv
    BY DEF Init, TrackedInv
  <1>4. KeysInv
    BY <1>1, CounterType DEF Init, KeysInv, Running
  <1>5. QED BY <1>1, <1>2, <1>3, <1>4 DEF IInv

\* A step keeps the invariant, by its effect alone.
LEMMA RunStepIInv ==
  ASSUME IInv, RunStep
  PROVE  ControlInv' /\ TrackedInv' /\ KeysInv'
  <1>1. TypeOK /\ ControlInv /\ TrackedInv /\ KeysInv
    BY DEF IInv
  <1>2. StepEffect
    BY <1>1, RunStepEffect
  <1>3. /\ phase = "step" /\ Running
        /\ (phase' = "loop" /\ pc' = pc + 1) \/ (phase' = "cleanup" /\ pc' = pc)
        /\ pc \in 1 .. Len(Steps) /\ Len(Steps) \in Nat
        /\ Steps' = Steps /\ CreatorAt' = CreatorAt /\ CreatorAt \in Nat
    <2>1. /\ phase = "step" /\ Running /\ config' = config
          /\ (phase' = "loop" /\ pc' = pc + 1) \/ (phase' = "cleanup" /\ pc' = pc)
      BY <1>2 DEF StepEffect, ControlEffect, Running
    <2>2. pc \in 1 .. Len(Steps) /\ Len(Steps) \in Nat /\ CreatorAt \in Nat
      BY <1>1, <2>1, CounterType
    <2>3. QED BY <2>1, <2>2, StepsConstant
  <1>4. Running' <=> phase' = "loop"
    BY <1>3 DEF Running
  <1>5. ASSUME NEW S, Due(S) \/ Steps[pc] \in S
        PROVE  Due(S)'
    BY <1>1, <1>2, <1>5, DueAfterStep DEF StepEffect
  <1>6. ControlInv'
    <2>1. Running' => ~broke'
      BY <1>1, <1>2, <1>3, <1>4 DEF StepEffect, StopEffect, ControlInv
    <2>2. broke' => bag' \cap {"cancelled", "halted"} # {}
      BY <1>2, <1>3, <1>4, <2>1 DEF StepEffect, StopEffect
    <2>3. "cancelled" \in bag' => ctxDone'
      BY <1>1, <1>2 DEF StepEffect, StopEffect, TypeEffect, ControlInv
    <2>4. broke' => \/ bag' \cap {"error", "error listing cdrom devices: %v"} # {}
                    \/ ctxDone'
      BY <1>2, <1>3, <1>4, <2>1, <2>3 DEF StepEffect, StopEffect
    <2>5. /\ result' = "pending" <=> phase' \notin {"done", "discarded"}
          /\ result' = "error" <=>
               phase' \in {"done", "discarded"} /\ "error" \in bag'
      BY <1>1, <1>2, <1>3 DEF StepEffect, StopEffect, ControlInv
    <2>6. QED BY <2>1, <2>2, <2>3, <2>4, <2>5 DEF ControlInv
  <1>7. TrackedInv'
    <2>1. session' => \/ "session" \in untracked'
                      \/ "driver" \in bag' /\ Due({"StepConnect"})'
      BY <1>1, <1>2, <1>3, <1>5
         DEF StepEffect, TypeEffect, ResourceEffect, TrackedInv
    <2>2. "exists" \in vm' => \/ "vm" \in untracked'
                              \/ "vm" \in bag' /\ Due(Creators)'
      BY <1>1, <1>2, <1>3, <1>5
         DEF StepEffect, TypeEffect, MachineEffect, TrackedInv
    <2>3. "cd" \in files' => \/ "cd" \in untracked'
                             \/ "cd_path" \in bag' /\ Due({"StepRemoteUpload"})'
      BY <1>1, <1>2, <1>3, <1>5
         DEF StepEffect, TypeEffect, ResourceEffect, TrackedInv
    <2>4. "floppy" \in files' =>
            \/ "floppy" \in untracked'
            \/ "uploaded_floppy_path" \in bag' /\ Due({"StepAddFloppy"})'
      BY <1>1, <1>2, <1>3, <1>5
         DEF StepEffect, TypeEffect, ResourceEffect, TrackedInv
    <2>5. QED BY <2>1, <2>2, <2>3, <2>4 DEF TrackedInv
  <1>8. KeysInv'
    <2>1. /\ pc = 1 => Steps[pc] = "StepConnect"
          /\ pc < CreatorAt => Steps[pc] \in Early \cup {"StepConnect"}
          /\ pc = CreatorAt => Steps[pc] \in Creators
          /\ pc > CreatorAt => Steps[pc] \in Later
      BY <1>1, <1>3, StepsShape DEF TypeOK
    <2>2. /\ pc < CreatorAt => Steps[pc] \notin Creators
          /\ pc > CreatorAt => Steps[pc] \notin Creators
      BY <2>1 DEF Early, Later, Creators
    <2>3. pc' > 1 => "driver" \in bag'
      BY <1>1, <1>2, <1>3, <2>1
         DEF StepEffect, TypeEffect, ResourceEffect, KeysInv
    <2>4. pc' > CreatorAt => "vm" \in bag'
      BY <1>1, <1>2, <1>3, <2>1, <2>2
         DEF StepEffect, TypeEffect, MachineEffect, KeysInv
    <2>5. phase' = "loop" /\ pc' <= CreatorAt => vm' = {} /\ "vm" \notin bag'
      BY <1>1, <1>2, <1>3, <2>1, <2>2 DEF StepEffect, MachineEffect, KeysInv
    <2>6. phase' = "cleanup" => broke'
      BY <1>2 DEF StepEffect, StopEffect
    <2>7. "exists" \in vm' => "vm" \in bag' \/ "error" \in bag'
      BY <1>1, <1>2, <1>3, <2>1, <2>2
         DEF StepEffect, TypeEffect, MachineEffect, KeysInv
    <2>8. result' = "pending"
      BY <1>1, <1>2, <1>3 DEF StepEffect, StopEffect, ControlInv
    <2>9. QED BY <1>3, <1>4, <2>3, <2>4, <2>5, <2>6, <2>7, <2>8 DEF KeysInv
  <1>9. QED BY <1>6, <1>7, <1>8

\* So does a clean-up: only the clean-up of the step that made a resource may
\* end the obligation to remove it, and it does so only when it has removed it,
\* has failed, or when the build succeeded.
LEMMA CleanupIInv ==
  ASSUME IInv, CleanupStep, ~NothingToClean
  PROVE  ControlInv' /\ TrackedInv' /\ KeysInv'
  <1>1. TypeOK /\ ControlInv /\ TrackedInv /\ KeysInv
    BY DEF IInv
  <1>2. CleanupEffect
    BY <1>1, CleanupStepEffect
  <1>3. /\ phase = "cleanup" /\ ~Running /\ ~Running'
        /\ (pc = 1 /\ phase' = "return") \/ (pc > 1 /\ phase' = "cleanup" /\ pc' = pc - 1)
        /\ bag \subseteq bag' /\ bag' \subseteq bag \cup {"error"}
    BY <1>2 DEF CleanupEffect, Running
  <1>4. /\ pc \in 1 .. Len(Steps) /\ Len(Steps) \in Nat
        /\ CreatorAt' = CreatorAt /\ CreatorAt \in Nat
    BY <1>1, <1>2, <1>3, CounterType, StepsConstant DEF CleanupEffect
  <1>5. ASSUME NEW S, Due(S), Steps[pc] \notin S
        PROVE  Due(S)'
    BY <1>1, <1>2, <1>5, DueAfterCleanup
  <1>6. /\ UNCHANGED <<ctxDone, broke, result, untracked>>
        /\ cleanupFailed => cleanupFailed'
        /\ vm' \subseteq vm /\ files' \subseteq files /\ (session' => session)
    BY <1>2 DEF CleanupEffect
  <1>7. broke => Stopped
    BY <1>1 DEF ControlInv, Stopped
  <1>8. ControlInv'
    <2>1. "cancelled" \in bag' => ctxDone'
      BY <1>1, <1>3, <1>6 DEF ControlInv
    <2>2. /\ broke' => bag' \cap {"cancelled", "halted"} # {}
          /\ broke' => \/ bag' \cap {"error", "error listing cdrom devices: %v"} # {}
                       \/ ctxDone'
      BY <1>1, <1>3, <1>6 DEF ControlInv
    <2>3. /\ result' = "pending" <=> phase' \notin {"done", "discarded"}
          /\ result' = "error" <=>
               phase' \in {"done", "discarded"} /\ "error" \in bag'
      BY <1>1, <1>3, <1>6 DEF ControlInv
    <2>4. QED BY <1>3, <2>1, <2>2, <2>3 DEF ControlInv
  <1>9. TrackedInv'
    <2>1. session' => \/ "session" \in untracked'
                      \/ /\ "driver" \in bag'
                         /\ Due({"StepConnect"})' \/ cleanupFailed'
      <3>1. CASE Steps[pc] = "StepConnect"
        BY <1>1, <1>2, <1>3, <1>6, <3>1 DEF CleanupEffect, TrackedInv
      <3>2. CASE Steps[pc] # "StepConnect"
        BY <1>1, <1>3, <1>5, <1>6, <3>2 DEF TrackedInv
      <3>3. QED BY <3>1, <3>2
    <2>2. "exists" \in vm' =>
            \/ "vm" \in untracked'
            \/ "vm" \in bag' /\ (Due(Creators)' \/ cleanupFailed' \/ ~broke')
      <3>1. CASE Steps[pc] \in Creators
        BY <1>1, <1>2, <1>3, <1>6, <1>7, <3>1
           DEF CleanupEffect, TrackedInv, DestroyDue
      <3>2. CASE Steps[pc] \notin Creators
        BY <1>1, <1>3, <1>5, <1>6, <3>2 DEF TrackedInv
      <3>3. QED BY <3>1, <3>2
    <2>3. "cd" \in files' =>
            \/ "cd" \in untracked'
            \/ /\ "cd_path" \in bag'
               /\ Due({"StepRemoteUpload"})' \/ cleanupFailed' \/ ~broke'
      <3>1. CASE Steps[pc] = "StepRemoteUpload"
        BY <1>1, <1>2, <1>3, <1>6, <1>7, <3>1 DEF CleanupEffect, TrackedInv
      <3>2. CASE Steps[pc] # "StepRemoteUpload"
        BY <1>1, <1>3, <1>5, <1>6, <3>2 DEF TrackedInv
      <3>3. QED BY <3>1, <3>2
    <2>4. "floppy" \in files' =>
            \/ "floppy" \in untracked'
            \/ /\ "uploaded_floppy_path" \in bag'
               /\ Due({"StepAddFloppy"})' \/ cleanupFailed' \/ ~broke'
      <3>1. CASE Steps[pc] = "StepAddFloppy"
        BY <1>1, <1>2, <1>3, <1>6, <1>7, <3>1 DEF CleanupEffect, TrackedInv
      <3>2. CASE Steps[pc] # "StepAddFloppy"
        BY <1>1, <1>3, <1>5, <1>6, <3>2 DEF TrackedInv
      <3>3. QED BY <3>1, <3>2
    <2>5. QED BY <1>3, <2>1, <2>2, <2>3, <2>4 DEF TrackedInv
  <1>10. KeysInv'
    <2>1. phase' = "cleanup" => pc' = pc - 1
      BY <1>3
    <2>2. /\ phase' = "cleanup" /\ pc' > 1 => "driver" \in bag'
          /\ phase' = "cleanup" /\ pc' > CreatorAt => "vm" \in bag'
      BY <1>1, <1>3, <1>4, <2>1 DEF KeysInv
    <2>3. /\ "vm" \notin bag' => broke'
          /\ "exists" \in vm' => "vm" \in bag' \/ "error" \in bag'
          /\ result' = "artifact" => "vm" \in bag'
      BY <1>1, <1>3, <1>6 DEF KeysInv
    <2>4. QED BY <1>3, <1>4, <2>2, <2>3 DEF KeysInv
  <1>11. QED BY <1>8, <1>9, <1>10

\* And so does everything else.
LEMMA OtherIInv ==
  ASSUME IInv,
         \/ NextStep \/ Cancel \/ RecordCancellation \/ GuestPowersOff
         \/ NothingToClean \/ Return \/ ArtifactDestroy \/ Terminated
         \/ UNCHANGED vars
  PROVE  ControlInv' /\ TrackedInv' /\ KeysInv'
  <1> USE DEF vars, runner, world, history
  <1>1. TypeOK /\ ControlInv /\ TrackedInv /\ KeysInv
    BY DEF IInv
  <1>2. CASE NextStep
    <2>1. /\ phase = "loop" /\ Running
          /\ Steps' = Steps /\ CreatorAt' = CreatorAt
          /\ pc \in 1 .. Len(Steps) + 1 /\ Len(Steps) \in Nat
          /\ CreatorAt \in 2 .. Len(Steps)
      <3>1. phase = "loop" /\ Running
        BY <1>2 DEF NextStep, Running
      <3>2. QED BY <1>1, <1>2, <3>1, CounterType, StepsConstant DEF NextStep
    <2>2. \/ /\ phase' = "step" /\ pc' = pc /\ bag' = bag /\ broke' = broke
          \/ /\ phase' = "cleanup" /\ pc' = pc - 1 /\ bag' = bag
             /\ broke' = broke /\ pc > Len(Steps)
          \/ /\ phase' = "cleanup" /\ pc' = pc - 1 /\ bag' = bag \cup {"cancelled"}
             /\ broke' = TRUE /\ ctxDone
      BY <1>2, <2>1 DEF NextStep
    <2>3. UNCHANGED <<ctxDone, vm, files, session, result, untracked, cleanupFailed>>
      BY <1>2 DEF NextStep
    <2>4. Running' <=> phase' = "step"
      BY <2>2 DEF Running
    <2>5. ASSUME NEW S, Due(S) PROVE Due(S)'
      BY <1>1, <1>2, <2>5, DueAfterNextStep
    <2>6. ControlInv'
      <3>1. ~broke
        BY <1>1, <2>1 DEF ControlInv
      <3>2. (phase' = "step" \/ ~ctxDone) => broke' = broke
        BY <2>2
      <3>3. broke' = broke \/ (ctxDone /\ bag' = bag \cup {"cancelled"})
        BY <2>2
      <3>4. Running' => ~broke'
        BY <2>4, <3>1, <3>2
      <3>5. broke' => bag' \cap {"cancelled", "halted"} # {}
        BY <3>1, <3>3
      <3>6. broke' => ctxDone'
        BY <2>3, <3>1, <3>3
      <3>7. "cancelled" \in bag' => ctxDone'
        BY <1>1, <2>2, <2>3 DEF ControlInv
      <3>8. result' # "error" /\ result' = "pending"
        BY <1>1, <2>1, <2>3 DEF ControlInv
      <3>9. QED BY <2>2, <3>4, <3>5, <3>6, <3>7, <3>8 DEF ControlInv
    <2>7. TrackedInv'
      BY <1>1, <2>1, <2>2, <2>3, <2>5 DEF TrackedInv
    <2>8. KeysInv'
      BY <1>1, <2>1, <2>2, <2>3, <2>4 DEF KeysInv
    <2>9. QED BY <2>6, <2>7, <2>8
  <1>3. CASE Cancel \/ RecordCancellation \/ GuestPowersOff
    <2>1. UNCHANGED <<config, phase, pc>> /\ phase \in {"loop", "step", "cleanup"}
      BY <1>3 DEF Cancel, RecordCancellation, GuestPowersOff
    <2>2. /\ bag' = bag \/ (bag' = bag \cup {"cancelled"} /\ ctxDone /\ ctxDone')
          /\ ctxDone => ctxDone'
          /\ vm' \subseteq vm
          /\ UNCHANGED <<files, session, result, broke, untracked, cleanupFailed>>
      BY <1>3 DEF Cancel, RecordCancellation, GuestPowersOff
    <2>3. Steps' = Steps /\ CreatorAt' = CreatorAt /\ (Running' <=> Running)
      BY <2>1, StepsConstant DEF Running
    <2>4. ASSUME NEW S, Due(S) PROVE Due(S)'
      BY <2>1, <2>4, DueUnchanged
    <2>5. ControlInv'
      BY <1>1, <2>1, <2>2, <2>3 DEF ControlInv
    <2>6. TrackedInv'
      BY <1>1, <2>2, <2>3, <2>4 DEF TrackedInv
    <2>7. KeysInv'
      BY <1>1, <2>1, <2>2, <2>3 DEF KeysInv
    <2>8. QED BY <2>5, <2>6, <2>7
  <1>4. CASE NothingToClean \/ Return \/ ArtifactDestroy
    <2>1. /\ phase \in {"return", "done"} \/ (phase = "cleanup" /\ pc = 0)
          /\ phase' \in {"return", "done", "discarded"}
          /\ UNCHANGED <<config, pc, bag, ctxDone, broke, untracked, session, files>>
          /\ vm' \subseteq vm /\ (cleanupFailed => cleanupFailed')
      BY <1>4 DEF NothingToClean, Return, ArtifactDestroy
    <2>2. ~Running /\ ~Running'
      BY <2>1 DEF Running
    <2>3. \A S : ~Due(S)
      BY <2>1, <2>2 DEF Due, Entered
    <2>4. /\ result' = "pending" <=> phase' \notin {"done", "discarded"}
          /\ result' = "error" <=>
               phase' \in {"done", "discarded"} /\ "error" \in bag'
      BY <1>1, <1>4 DEF NothingToClean, Return, ArtifactDestroy, ControlInv
    <2>5. ControlInv'
      BY <1>1, <2>1, <2>2, <2>4 DEF ControlInv
    <2>6. TrackedInv'
      BY <1>1, <2>1, <2>2, <2>3 DEF TrackedInv
    <2>7. result' = "artifact" => "vm" \in bag'
      BY <1>1, <1>4, <2>1 DEF NothingToClean, Return, ArtifactDestroy, KeysInv
    <2>8. KeysInv'
      BY <1>1, <2>1, <2>2, <2>7 DEF KeysInv
    <2>9. QED BY <2>5, <2>6, <2>8
  <1>5. CASE Terminated \/ UNCHANGED vars
    <2>1. UNCHANGED vars
      BY <1>5 DEF Terminated
    <2>2. Steps' = Steps /\ CreatorAt' = CreatorAt /\ (Running' <=> Running)
      BY <2>1, StepsConstant DEF Running
    <2>3. ASSUME NEW S, Due(S) PROVE Due(S)'
      BY <2>1, <2>3, DueUnchanged
    <2>4. ControlInv'
      BY <1>1, <2>1, <2>2 DEF ControlInv
    <2>5. TrackedInv'
      BY <1>1, <2>1, <2>2, <2>3 DEF TrackedInv
    <2>6. KeysInv'
      BY <1>1, <2>1, <2>2 DEF KeysInv
    <2>7. QED BY <2>4, <2>5, <2>6
  <1>6. QED BY <1>2, <1>3, <1>4, <1>5

LEMMA NextIInv == IInv /\ [Next]_vars => IInv'
  <1> SUFFICES ASSUME IInv, [Next]_vars PROVE IInv'
    OBVIOUS
  <1>1. TypeOK'
    BY NextTypeOK DEF IInv
  <1>2. \/ RunStep
        \/ CleanupStep /\ ~NothingToClean
        \/ NextStep \/ Cancel \/ RecordCancellation \/ GuestPowersOff
        \/ NothingToClean \/ Return \/ ArtifactDestroy \/ Terminated
        \/ UNCHANGED vars
    BY DEF Next, Builder, CleanupStep
  <1>3. ControlInv' /\ TrackedInv' /\ KeysInv'
    BY <1>2, RunStepIInv, CleanupIInv, OtherIInv
  <1>4. QED BY <1>1, <1>3 DEF IInv

LEMMA Invariance == Spec => []IInv
  BY InitIInv, NextIInv, PTL DEF Spec

-----------------------------------------------------------------------------
(* The properties *)

\* Whatever fails and whenever the build is interrupted, Builder.Run returns
\* from a build that stopped early with nothing of it left in vCenter, except
\* what it could not know of or failed to remove.
THEOREM NothingLeftBehind == Spec => []LeavesNothingBehind
  <1>1. IInv => LeavesNothingBehind
    <2> SUFFICES ASSUME IInv, phase = "done", ~cleanupFailed
                 PROVE  /\ session => "session" \in untracked
                        /\ broke => /\ "exists" \in vm => "vm" \in untracked
                                    /\ files \subseteq untracked
      BY DEF LeavesNothingBehind
    <2>1. TrackedInv /\ files \subseteq {"cd", "floppy"}
      BY DEF IInv, TypeOK
    <2>2. ~Running /\ \A S : ~Due(S)
      BY DEF Running, Due
    <2>3. QED BY <2>1, <2>2 DEF TrackedInv
  <1>2. QED BY Invariance, <1>1, PTL

\* No step and no clean-up meets a state bag without the driver or the machine
\* it takes from it, so none of the type assertions on them panics.
THEOREM KeysPresent == Spec => []RequiredKeysPresent
  <1>1. IInv => RequiredKeysPresent
    <2> SUFFICES ASSUME IInv, phase \in {"step", "cleanup"}, pc > 0
                 PROVE  /\ Steps[pc] \in VMReaders => "vm" \in bag
                        /\ Steps[pc] \in DriverReaders => "driver" \in bag
      BY DEF RequiredKeysPresent
    <2>1. TypeOK /\ KeysInv
      BY DEF IInv
    <2>2. pc \in 1 .. Len(Steps) /\ Len(Steps) \in Nat /\ CreatorAt \in 2 .. Len(Steps)
      BY <2>1, CounterType
    <2>3. /\ pc = 1 => Steps[pc] = "StepConnect"
          /\ pc <= CreatorAt => Steps[pc] \in Early \cup Creators \cup {"StepConnect"}
      BY <2>1, <2>2, StepsShape DEF TypeOK
    <2>4. /\ Steps[pc] \in VMReaders => pc > CreatorAt
          /\ Steps[pc] \in DriverReaders => pc > 1
      BY <2>2, <2>3 DEF VMReaders, DriverReaders, Early, Creators
    <2>5. QED BY <2>1, <2>4 DEF KeysInv, Running
  <1>2. QED BY Invariance, <1>1, PTL

\* A build that stops early without being interrupted returns an error, unless
\* it stops in StepReattachCDRom under the key that is misspelled there.
THEOREM FailureReported == Spec => []UninterruptedFailureReported
  <1>1. IInv => UninterruptedFailureReported
    BY DEF IInv, ControlInv, UninterruptedFailureReported
  <1>2. QED BY Invariance, <1>1, PTL

-----------------------------------------------------------------------------
(* The build implements its contract *)

\* The key of the machine and the reasons to stop stay in the bag.
LEMMA RunStepContract ==
  ASSUME IInv, RunStep
  PROVE  [Contract!Next]_(Contract!vars)
  <1>1. TypeOK /\ KeysInv /\ StepEffect
    BY RunStepEffect DEF IInv
  <1>2. phase = "step" /\ Running /\ result = "pending" /\ result' = "pending"
    BY <1>1 DEF StepEffect, ControlEffect, StopEffect, IInv, ControlInv, Running
  <1>3. pc \in 1 .. Len(Steps) /\ CreatorAt \in Nat /\ Len(Steps) \in Nat
    BY <1>1, <1>2, CounterType
  <1>4. StopRequested' = StopRequested \/ StopRequested' = TRUE
    BY <1>1 DEF StepEffect, TypeEffect, StopRequested
  <1>5. CASE Steps[pc] \in Creators
    <2>1. pc = CreatorAt
      BY <1>1, <1>3, <1>5, StepsShape DEF TypeOK, Creators, Early, Later
    <2>2. vm = {} /\ "vm" \notin bag
      BY <1>1, <1>2, <1>3, <2>1 DEF KeysInv
    <2>3. Image = "none" /\ (Image' = "none" \/ Image' = "present")
      BY <1>1, <1>5, <2>2 DEF StepEffect, MachineEffect, Image
    <2>4. QED BY <1>2, <1>4, <2>3
          DEF Contract!Next, Contract!Create, Contract!Stop, Contract!vars
  <1>6. CASE Steps[pc] \notin Creators
    <2>1. Image' = Image
      BY <1>1, <1>6 DEF StepEffect, MachineEffect, Image
    <2>2. QED BY <1>2, <1>4, <2>1 DEF Contract!Next, Contract!Stop, Contract!vars
  <1>7. QED BY <1>5, <1>6

LEMMA CleanupContract ==
  ASSUME IInv, CleanupStep, ~NothingToClean
  PROVE  [Contract!Next]_(Contract!vars)
  <1>1. CleanupEffect
    BY CleanupStepEffect DEF IInv
  <1>2. result = "pending" /\ result' = result
    BY <1>1 DEF CleanupEffect, IInv, ControlInv
  <1>3. /\ "vm" \in bag' <=> "vm" \in bag
        /\ bag' \cap {"cancelled", "halted", "destroy_vm"}
             = bag \cap {"cancelled", "halted", "destroy_vm"}
    BY <1>1 DEF CleanupEffect
  <1>4. StopRequested' = StopRequested
    BY <1>3 DEF StopRequested
  <1>5. CASE "exists" \in vm /\ "exists" \notin vm'
    <2>1. Image = "present" /\ Image' = "gone" /\ StopRequested
      BY <1>1, <1>3, <1>5
         DEF CleanupEffect, Image, DestroyDue, Stopped, StopRequested
    <2>2. QED BY <1>2, <1>4, <2>1
          DEF Contract!Next, Contract!Destroy, Contract!vars
  <1>6. CASE "exists" \in vm <=> "exists" \in vm'
    <2>1. Image' = Image
      BY <1>3, <1>6 DEF Image
    <2>2. QED BY <1>2, <1>4, <2>1 DEF Contract!vars
  <1>7. vm' \subseteq vm
    BY <1>1 DEF CleanupEffect
  <1>8. QED BY <1>5, <1>6, <1>7

LEMMA ReturnContract ==
  ASSUME IInv, Return
  PROVE  [Contract!Next]_(Contract!vars)
  <1>1. Image' = Image /\ StopRequested' = StopRequested
    BY DEF Return, world, Image, StopRequested
  <1>2. result = "pending" /\ ~Running
    BY DEF Return, IInv, ControlInv, Running
  <1>3. CASE "error" \in bag
    BY <1>1, <1>2, <1>3 DEF Return, Contract!Next, Contract!Finish
  <1>4. CASE "error" \notin bag /\ "vm" \notin bag
    <2>1. Image = "none"
      BY <1>4 DEF IInv, KeysInv, Image
    <2>2. StopRequested
      BY <1>2, <1>4 DEF IInv, KeysInv, ControlInv, StopRequested
    <2>3. QED BY <1>1, <1>2, <1>4, <2>1, <2>2
          DEF Return, Contract!Next, Contract!Finish
  <1>5. CASE "error" \notin bag /\ "vm" \in bag
    <2>1. Image # "none"
      BY <1>5 DEF Image
    <2>2. QED BY <1>1, <1>2, <1>5, <2>1 DEF Return, Contract!Next, Contract!Finish
  <1>6. QED BY <1>3, <1>4, <1>5

LEMMA OtherContract ==
  ASSUME IInv,
         \/ NextStep \/ Cancel \/ RecordCancellation \/ GuestPowersOff
         \/ NothingToClean \/ ArtifactDestroy \/ Terminated \/ UNCHANGED vars
  PROVE  [Contract!Next]_(Contract!vars)
  <1> USE DEF vars, runner, world, history
  <1>1. CASE NextStep \/ RecordCancellation
    <2>1. result = "pending" /\ result' = result
      BY <1>1 DEF NextStep, RecordCancellation, IInv, ControlInv
    <2>2. Image' = Image
      BY <1>1 DEF NextStep, RecordCancellation, Image
    <2>3. bag' = bag \/ bag' = bag \cup {"cancelled"}
      BY <1>1 DEF NextStep, RecordCancellation
    <2>4. StopRequested' = StopRequested \/ StopRequested' = TRUE
      BY <2>3 DEF StopRequested
    <2>5. QED BY <2>1, <2>2, <2>4 DEF Contract!Next, Contract!Stop, Contract!vars
  <1>2. CASE \/ Cancel \/ GuestPowersOff \/ NothingToClean \/ Terminated
             \/ UNCHANGED vars
    <2>1. bag' = bag /\ result' = result /\ ("exists" \in vm' <=> "exists" \in vm)
      BY <1>2 DEF Cancel, GuestPowersOff, NothingToClean, Terminated
    <2>2. QED BY <2>1 DEF Image, StopRequested, Contract!vars
  <1>3. CASE ArtifactDestroy
    <2>1. /\ result = "artifact" /\ result' = result /\ bag' = bag
          /\ vm' = {} \/ vm' = vm
      BY <1>3 DEF ArtifactDestroy
    <2>2. "vm" \in bag
      BY <2>1 DEF IInv, KeysInv
    <2>3. Image' = Image \/ (Image = "present" /\ Image' = "gone")
      BY <2>1, <2>2 DEF Image
    <2>4. StopRequested' = StopRequested
      BY <2>1 DEF StopRequested
    <2>5. QED BY <2>1, <2>3, <2>4
          DEF Contract!Next, Contract!Discard, Contract!vars
  <1>4. QED BY <1>1, <1>2, <1>3

\* The build is an implementation of its contract: one image at most, destroyed
\* only when the build was stopped or asked to, and an outcome that matches it.
THEOREM ContractKept == Spec => Contract!Spec
  <1>1. Init => Contract!Init
    BY DEF Init, Contract!Init, Image, StopRequested
  <1>2. IInv /\ [Next]_vars => [Contract!Next]_(Contract!vars)
    <2> SUFFICES ASSUME IInv, [Next]_vars
                 PROVE  [Contract!Next]_(Contract!vars)
      OBVIOUS
    <2>1. \/ RunStep
          \/ CleanupStep /\ ~NothingToClean
          \/ Return
          \/ NextStep \/ Cancel \/ RecordCancellation \/ GuestPowersOff
          \/ NothingToClean \/ ArtifactDestroy \/ Terminated
          \/ UNCHANGED vars
      BY DEF Next, Builder, CleanupStep
    <2>2. QED BY <2>1, RunStepContract, CleanupContract, ReturnContract,
                 OtherContract
  <1>3. QED BY Invariance, <1>1, <1>2, PTL DEF Spec, Contract!Spec

-----------------------------------------------------------------------------
(***************************************************************************)
(* What a build produces: the machine is cold when a product is made of it  *)
(* and when a clean-up destroys it, and the artifact is complete.  This     *)
(* rests on the order of the step lists.                                    *)
(***************************************************************************)

\* The steps that put something on the machine, those that take it off again,
\* and those that make a product of the machine.
Loaders == {"StepAddCDRom", "StepAddFloppy", "StepRun"}

Unloaders == {"StepShutdown", "StepRemoveFloppy", "StepRemoveCDRom"}

Producers ==
  { "StepCreateSnapshot", "StepConvertToTemplate",
    "StepImportToContentLibrary", "StepExport" }

\* The step that takes off what the loader s puts on.
Unloader(s) ==
  CASE s = "StepRun" -> "StepShutdown"
    [] s = "StepAddFloppy" -> "StepRemoveFloppy"
    [] s = "StepAddCDRom" -> "StepRemoveCDRom"

Occurs(s) == \E i \in 1 .. Len(Steps) : Steps[i] = s

\* What the order of the steps has to guarantee.
StepsOrdered ==
  /\ \A i \in 1 .. Len(Steps) :
       Steps[i] \in Loaders =>
         \E j \in i + 1 .. Len(Steps) : Steps[j] = Unloader(Steps[i])
  /\ \A i, j \in 1 .. Len(Steps) :
       Steps[i] \in Unloaders /\ Steps[j] \in Producers => i < j
  /\ Occurs("StepCreateSnapshot") /\ Occurs("StepConvertToTemplate")
  /\ Occurs("StepImportToContentLibrary") <=> Opt("content_library")
  /\ Occurs("StepExport") <=> Opt("export")

-----------------------------------------------------------------------------
(* The order of the steps *)

LEMMA ConcatAt ==
  ASSUME NEW S, NEW s \in Seq(S), NEW t \in Seq(S)
  PROVE  /\ s \o t \in Seq(S)
         /\ Len(s \o t) = Len(s) + Len(t)
         /\ \A i \in 1 .. Len(s) : (s \o t)[i] = s[i]
         /\ \A i \in 1 .. Len(t) : (s \o t)[Len(s) + i] = t[i]
  OBVIOUS

\* The same, as an operator that the provers do not take apart.
Cat(s, t) == s \o t

LEMMA CatAt ==
  \A s \in Seq(StepNames), t \in Seq(StepNames) :
    /\ Cat(s, t) \in Seq(StepNames)
    /\ Len(Cat(s, t)) = Len(s) + Len(t)
    /\ \A i \in 1 .. Len(s) : Cat(s, t)[i] = s[i]
    /\ \A i \in 1 .. Len(t) : Cat(s, t)[Len(s) + i] = t[i]
  BY ConcatAt DEF Cat

\* A list written from left to right, cut before and after its middle.
LEMMA Regroup ==
  \A p \in Seq(StepNames), m \in Seq(StepNames), b \in Seq(StepNames),
     i \in Seq(StepNames), e \in Seq(StepNames) :
    Cat(Cat(Cat(p, Cat(m, b)), i), e) = Cat(p, Cat(m, Cat(Cat(b, i), e)))
  <1>1. \A s \in Seq(StepNames), t \in Seq(StepNames), u \in Seq(StepNames) :
          Cat(Cat(s, t), u) = Cat(s, Cat(t, u))
    BY SMT DEF Cat
  <1>2. \A s \in Seq(StepNames), t \in Seq(StepNames) : Cat(s, t) \in Seq(StepNames)
    BY SMT DEF Cat
  <1>3. QED BY SMT, <1>1, <1>2

\* An optional part and what follows it, cut inside the optional part.
LEMMA Recut ==
  /\ \A f \in Seq(StepNames), y \in Seq(StepNames), t \in Seq(StepNames),
        d \in Seq(StepNames) :
       Cat(f, Cat(y, Cat(t, d))) = Cat(Cat(f, Cat(y, t)), d)
  /\ \A p \in Seq(StepNames), d \in Seq(StepNames), c \in Seq(StepNames),
        b \in Seq(StepNames) :
       Cat(Cat(p, d), Cat(c, b)) = Cat(p, Cat(Cat(d, c), b))
  <1>1. \A s \in Seq(StepNames), t \in Seq(StepNames), u \in Seq(StepNames) :
          Cat(Cat(s, t), u) = Cat(s, Cat(t, u))
    BY SMT DEF Cat
  <1>2. \A s \in Seq(StepNames), t \in Seq(StepNames) : Cat(s, t) \in Seq(StepNames)
    BY SMT DEF Cat
  <1>3. ASSUME NEW f \in Seq(StepNames), NEW y \in Seq(StepNames),
               NEW t \in Seq(StepNames), NEW d \in Seq(StepNames)
        PROVE  Cat(f, Cat(y, Cat(t, d))) = Cat(Cat(f, Cat(y, t)), d)
    BY SMT, <1>1, <1>2
  <1>4. ASSUME NEW p \in Seq(StepNames), NEW d \in Seq(StepNames),
               NEW c \in Seq(StepNames), NEW b \in Seq(StepNames)
        PROVE  Cat(Cat(p, d), Cat(c, b)) = Cat(p, Cat(Cat(d, c), b))
    BY SMT, <1>1, <1>2
  <1>5. QED BY <1>3, <1>4

Contains(r, x) == \E i \in 1 .. Len(r) : r[i] = x

LEMMA ConcatContains ==
  ASSUME NEW S, NEW s \in Seq(S), NEW t \in Seq(S), NEW x
  PROVE  Contains(s \o t, x) <=> Contains(s, x) \/ Contains(t, x)
  <1> DEFINE u == s \o t
  <1>1. /\ u \in Seq(S)
        /\ Len(u) = Len(s) + Len(t)
        /\ \A i \in 1 .. Len(s) : u[i] = s[i]
        /\ \A i \in 1 .. Len(t) : u[Len(s) + i] = t[i]
    BY ConcatAt
  <1>2. Len(s) \in Nat /\ Len(t) \in Nat
    OBVIOUS
  <1> HIDE DEF u
  <1>3. ASSUME NEW i \in 1 .. Len(u), u[i] = x
        PROVE  Contains(s, x) \/ Contains(t, x)
    <2>1. CASE i \in 1 .. Len(s)
      BY <1>1, <1>3, <2>1 DEF Contains
    <2>2. CASE i \notin 1 .. Len(s)
      <3>1. i - Len(s) \in 1 .. Len(t)
        BY <1>1, <1>2, <2>2
      <3>2. i = Len(s) + (i - Len(s))
        BY <1>2
      <3>3. t[i - Len(s)] = x
        BY <1>1, <1>3, <3>1, <3>2
      <3>4. QED BY <3>1, <3>3 DEF Contains
    <2>3. QED BY <2>1, <2>2
  <1>4. Contains(s, x) => Contains(u, x)
    BY <1>1, <1>2 DEF Contains
  <1>5. Contains(t, x) => Contains(u, x)
    <2> SUFFICES ASSUME NEW i \in 1 .. Len(t), t[i] = x
                 PROVE  Contains(u, x)
      BY DEF Contains
    <2>1. Len(s) + i \in 1 .. Len(u) /\ u[Len(s) + i] = x
      BY <1>1, <1>2
    <2>2. QED BY <2>1 DEF Contains
  <1>6. Contains(u, x) => Contains(s, x) \/ Contains(t, x)
    BY <1>3 DEF Contains
  <1>7. QED BY <1>4, <1>5, <1>6 DEF u

LEMMA WhenContains ==
  ASSUME NEW condition \in BOOLEAN, NEW y, NEW x
  PROVE  Contains(When(condition, << y >>), x) <=> condition /\ x = y
  <1>1. Len(<< y >>) = 1 /\ << y >>[1] = y /\ Len(<< >>) = 0
    OBVIOUS
  <1>2. QED BY <1>1 DEF Contains, When

\* Before the unloading steps, and after them.
Before == StepNames \ (Unloaders \cup Producers)

After == StepNames \ (Loaders \cup Unloaders)

\* What follows the unloading steps ends with the steps that make the products.
Ending(r, o) ==
  /\ r \in Seq(After)
  /\ Contains(r, "StepCreateSnapshot") /\ Contains(r, "StepConvertToTemplate")
  /\ Contains(r, "StepImportToContentLibrary") <=> "content_library" \in o
  /\ Contains(r, "StepExport") <=> "export" \in o

LEMMA EndingType ==
  ASSUME NEW o, NEW base \in Seq(After),
         Contains(base, "StepCreateSnapshot"), Contains(base, "StepConvertToTemplate"),
         ~Contains(base, "StepImportToContentLibrary"), ~Contains(base, "StepExport")
  PROVE  Ending((base \o When("content_library" \in o, << "StepImportToContentLibrary" >>))
                  \o When("export" \in o, << "StepExport" >>), o)
  <1> DEFINE import == When("content_library" \in o, << "StepImportToContentLibrary" >>)
             export == When("export" \in o, << "StepExport" >>)
             r == (base \o import) \o export
  <1>1. /\ << "StepImportToContentLibrary" >> \in Seq(After)
        /\ << "StepExport" >> \in Seq(After)
    BY DEF After, StepNames, Loaders, Unloaders
  <1>2. import \in Seq(After) /\ export \in Seq(After)
    BY <1>1, WhenType
  <1>3. /\ \A x : Contains(import, x) <=>
                    "content_library" \in o /\ x = "StepImportToContentLibrary"
        /\ \A x : Contains(export, x) <=> "export" \in o /\ x = "StepExport"
    <2>1. ("content_library" \in o) \in BOOLEAN /\ ("export" \in o) \in BOOLEAN
      OBVIOUS
    <2>2. ASSUME NEW x
          PROVE  Contains(import, x) <=>
                   "content_library" \in o /\ x = "StepImportToContentLibrary"
      BY <2>1, WhenContains
    <2>3. ASSUME NEW x PROVE Contains(export, x) <=> "export" \in o /\ x = "StepExport"
      BY <2>1, WhenContains
    <2>4. QED BY <2>2, <2>3
  <1> HIDE DEF import, export
  <1>4. base \o import \in Seq(After)
    BY <1>2, ConcatType
  <1>5. r \in Seq(After)
    BY <1>2, <1>4, ConcatType
  <1>6. \A x : Contains(r, x) <=> \/ Contains(base, x)
                                  \/ Contains(import, x)
                                  \/ Contains(export, x)
    BY ZenonT(30), <1>2, <1>4, ConcatContains
  <1> HIDE DEF r
  <1>7. /\ Contains(r, "StepCreateSnapshot") /\ Contains(r, "StepConvertToTemplate")
        /\ Contains(r, "StepImportToContentLibrary") <=> "content_library" \in o
        /\ Contains(r, "StepExport") <=> "export" \in o
    BY <1>3, <1>6
  <1>8. Ending(r, o)
    BY <1>5, <1>7 DEF Ending
  <1>9. QED BY <1>8 DEF r, import, export

\* Every step list is such a beginning, the unloading steps and such an ending.
\* A build that neither boots the machine nor gives it a floppy drive has no
\* StepShutdown and no StepRemoveFloppy.
InThree(s, o) ==
  \E p \in Seq(Before), m \in Seq(Unloaders), r \in Seq(After) :
    /\ s = p \o (m \o r)
    /\ Contains(m, "StepRemoveCDRom")
    /\ \/ Contains(m, "StepShutdown") /\ Contains(m, "StepRemoveFloppy")
       \/ p \in Seq(Before \ {"StepRun", "StepAddFloppy"})
    /\ Ending(r, o)

LEMMA IsoInThree == ASSUME NEW o PROVE InThree(IsoSteps(o), o)
  <1> DEFINE head == << "StepConfigureHardware", "StepAddFlag",
                        "StepAddCDRom", "StepConfigParams",
                        "StepCreateFloppy", "StepAddFloppy", "StepApplyTags",
                        "StepSetVApp" >>
             p == head \o When("http_ip_discover" \in o, << "StepHTTPIPDiscover" >>)
                    \o << "StepHTTPServer" >>
                    \o When("ssh_key_pair" \in o, << "StepSshKeyPair" >>)
                    \o << "StepRun", "StepBootCommand" >>
                    \o When("communicator" \in o,
                            When("ip_wait" \in o, << "StepWaitForIp" >>)
                            \o << "StepConnectCommunicator", "StepProvision" >>)
             m == << "StepShutdown", "StepRemoveFloppy", "StepRemoveCDRom" >>
             base == << "StepReattachCDRom", "StepRemoveNetworkAdapter",
                        "StepRemoveVTPM", "StepCreateSnapshot",
                        "StepConvertToTemplate" >>
             mid == << "StepShutdown", "StepRemoveFloppy", "StepRemoveCDRom",
                       "StepReattachCDRom", "StepRemoveNetworkAdapter",
                       "StepRemoveVTPM", "StepCreateSnapshot",
                       "StepConvertToTemplate" >>
             import == When("content_library" \in o, << "StepImportToContentLibrary" >>)
             export == When("export" \in o, << "StepExport" >>)
             r == (base \o import) \o export
  <1>1. p \in Seq(Before)
    <2>1. /\ head \in Seq(Before)
          /\ << "StepHTTPIPDiscover" >> \in Seq(Before)
          /\ << "StepHTTPServer" >> \in Seq(Before)
          /\ << "StepSshKeyPair" >> \in Seq(Before)
          /\ << "StepRun", "StepBootCommand" >> \in Seq(Before)
          /\ << "StepWaitForIp" >> \in Seq(Before)
          /\ << "StepConnectCommunicator", "StepProvision" >> \in Seq(Before)
      BY DEF Before, StepNames, Unloaders, Producers
    <2> HIDE DEF head
    <2>2. QED BY <2>1, ConcatType, WhenType
  <1>2. /\ m \in Seq(StepNames) /\ base \in Seq(After)
        /\ << "StepImportToContentLibrary" >> \in Seq(StepNames)
        /\ << "StepExport" >> \in Seq(StepNames)
    BY DEF After, StepNames, Loaders, Unloaders
  <1>3. mid = m \o base
    OBVIOUS
  <1>4. Ending(r, o)
    <2>1. /\ Contains(base, "StepCreateSnapshot")
          /\ Contains(base, "StepConvertToTemplate")
          /\ ~Contains(base, "StepImportToContentLibrary")
          /\ ~Contains(base, "StepExport")
      BY DEF Contains
    <2> HIDE DEF base
    <2>2. QED BY <1>2, <2>1, EndingType
  <1>5. IsoSteps(o) = ((p \o mid) \o import) \o export
    BY DEF IsoSteps
  <1>6. /\ p \in Seq(StepNames) /\ base \in Seq(StepNames)
        /\ import \in Seq(StepNames) /\ export \in Seq(StepNames)
    <2> HIDE DEF p, base
    <2>1. p \in Seq(StepNames) /\ base \in Seq(StepNames)
      BY <1>1, <1>2 DEF Before, After
    <2>2. QED BY <1>2, <2>1, WhenType
  <1> HIDE DEF p, m, base, mid, import, export
  <1>7. IsoSteps(o) = p \o (m \o r)
    <2>1. Cat(Cat(Cat(p, Cat(m, base)), import), export)
            = Cat(p, Cat(m, Cat(Cat(base, import), export)))
      BY SMT, <1>2, <1>6, Regroup
    <2>2. QED BY Zenon, <1>3, <1>5, <2>1 DEF Cat
  <1>8. /\ m \in Seq(Unloaders)
        /\ Contains(m, "StepRemoveCDRom") /\ Contains(m, "StepShutdown")
        /\ Contains(m, "StepRemoveFloppy")
    BY DEF m, Unloaders, Contains
  <1> HIDE DEF r
  <1>9. QED BY Zenon, <1>1, <1>4, <1>7, <1>8 DEF InThree, Ending

LEMMA CloneInThree == ASSUME NEW o PROVE InThree(CloneSteps(o), o)
  <1> DEFINE head == << "StepConfigureHardware", "StepAddFlag",
                        "StepAddCDRom", "StepConfigParams" >>
             run == << "StepHTTPServer", "StepSshKeyPair", "StepRun",
                       "StepBootCommand" >>
             front == head \o When("customize" \in o, << "StepCustomize" >>)
                           \o When("communicator" \notin o, << "StepApplyTags" >>)
             boot == << "StepCreateFloppy", "StepAddFloppy" >>
                     \o When("http_ip_discover" \in o, << "StepHTTPIPDiscover" >>)
                     \o run
                     \o When("ip_wait" \in o, << "StepWaitForIp" >>)
             stop == << "StepConnectCommunicator", "StepProvision",
                        "StepApplyTags", "StepShutdown", "StepRemoveFloppy" >>
             tags == << "StepConnectCommunicator", "StepProvision", "StepApplyTags" >>
             down == << "StepShutdown", "StepRemoveFloppy" >>
             eject == << "StepRemoveCDRom" >>
             rest == << "StepRemoveCDRom", "StepReattachCDRom",
                        "StepRemoveVTPM", "StepCreateSnapshot",
                        "StepRemoveNetworkAdapter", "StepConvertToTemplate" >>
             base == << "StepReattachCDRom", "StepRemoveVTPM",
                        "StepCreateSnapshot", "StepRemoveNetworkAdapter",
                        "StepConvertToTemplate" >>
             import == When("content_library" \in o, << "StepImportToContentLibrary" >>)
             export == When("export" \in o, << "StepExport" >>)
             r == (base \o import) \o export
  <1>1. front \in Seq(Before \ {"StepRun", "StepAddFloppy"}) /\ front \in Seq(Before)
    <2>1. /\ head \in Seq(Before \ {"StepRun", "StepAddFloppy"})
          /\ << "StepCustomize" >> \in Seq(Before \ {"StepRun", "StepAddFloppy"})
          /\ << "StepApplyTags" >> \in Seq(Before \ {"StepRun", "StepAddFloppy"})
      BY DEF Before, StepNames, Unloaders, Producers
    <2> HIDE DEF head
    <2>2. front \in Seq(Before \ {"StepRun", "StepAddFloppy"})
      BY <2>1, ConcatType, WhenType
    <2> HIDE DEF front
    <2>3. QED BY <2>2
  <1>2. boot \in Seq(Before)
    <2>1. /\ << "StepCreateFloppy", "StepAddFloppy" >> \in Seq(Before)
          /\ << "StepHTTPIPDiscover" >> \in Seq(Before)
          /\ run \in Seq(Before)
          /\ << "StepWaitForIp" >> \in Seq(Before)
      BY DEF Before, StepNames, Unloaders, Producers
    <2> HIDE DEF run
    <2>2. QED BY <2>1, ConcatType, WhenType
  <1>3. /\ tags \in Seq(Before) /\ down \in Seq(StepNames) /\ eject \in Seq(StepNames)
        /\ base \in Seq(After)
        /\ << "StepImportToContentLibrary" >> \in Seq(StepNames)
        /\ << "StepExport" >> \in Seq(StepNames)
    BY DEF Before, After, StepNames, Loaders, Unloaders, Producers
  <1>4. stop = tags \o down /\ rest = eject \o base
    OBVIOUS
  <1>40. /\ down \in Seq(Unloaders) /\ eject \in Seq(Unloaders)
         /\ Contains(eject, "StepRemoveCDRom") /\ Contains(down, "StepShutdown")
         /\ Contains(down, "StepRemoveFloppy")
    BY DEF Unloaders, Contains
  <1>5. Ending(r, o)
    <2>1. /\ Contains(base, "StepCreateSnapshot")
          /\ Contains(base, "StepConvertToTemplate")
          /\ ~Contains(base, "StepImportToContentLibrary")
          /\ ~Contains(base, "StepExport")
      BY DEF Contains
    <2> HIDE DEF base
    <2>2. QED BY <1>3, <2>1, EndingType
  <1>6. CloneSteps(o) = ((front \o When("communicator" \in o, boot \o stop)) \o rest
                           \o import) \o export
    BY DEF CloneSteps
  <1> HIDE DEF front, boot, tags, down, eject, rest, base, stop, import, export
  <1>7. /\ front \in Seq(StepNames) /\ boot \in Seq(StepNames)
        /\ tags \in Seq(StepNames) /\ base \in Seq(StepNames)
    BY <1>1, <1>2, <1>3 DEF Before, After
  <1>8. import \in Seq(StepNames) /\ export \in Seq(StepNames)
    BY <1>3, WhenType DEF import, export
  <1>9. CASE "communicator" \in o
    <2>1. When("communicator" \in o, boot \o stop) = boot \o (tags \o down)
      BY Zenon, <1>4, <1>9 DEF When
    <2>2. Cat(Cat(Cat(Cat(front, Cat(boot, Cat(tags, down))), Cat(eject, base)), import), export)
            = Cat(Cat(front, Cat(boot, tags)), Cat(Cat(down, eject), Cat(Cat(base, import), export)))
      <3> DEFINE p == Cat(front, Cat(boot, tags))
                 m == Cat(down, eject)
      <3>1. p \in Seq(StepNames) /\ m \in Seq(StepNames)
        BY <1>3, <1>7, ConcatType DEF Cat
      <3>2. Cat(front, Cat(boot, Cat(tags, down))) = Cat(p, down)
        BY SMT, <1>3, <1>7, Recut
      <3> HIDE DEF p
      <3>3. Cat(Cat(p, down), Cat(eject, base)) = Cat(p, Cat(m, base))
        BY SMT, <1>3, <1>7, <3>1, Recut
      <3> HIDE DEF m
      <3>4. Cat(Cat(Cat(p, Cat(m, base)), import), export)
              = Cat(p, Cat(m, Cat(Cat(base, import), export)))
        BY SMT, <1>7, <1>8, <3>1, Regroup
      <3>5. QED BY Zenon, <3>2, <3>3, <3>4 DEF p, m
    <2>3. CloneSteps(o) = (front \o (boot \o tags)) \o ((down \o eject) \o r)
      BY Zenon, <1>4, <1>6, <2>1, <2>2 DEF Cat
    <2>5. front \o (boot \o tags) \in Seq(Before)
      BY <1>1, <1>2, <1>3, ConcatType
    <2>6. down \o eject \in Seq(Unloaders)
      BY <1>40, ConcatType
    <2>7. /\ Contains(down \o eject, "StepRemoveCDRom")
          /\ Contains(down \o eject, "StepShutdown")
          /\ Contains(down \o eject, "StepRemoveFloppy")
      BY <1>40, ConcatContains
    <2> HIDE DEF r
    <2>8. QED BY Zenon, <1>5, <2>3, <2>5, <2>6, <2>7 DEF InThree, Ending
  <1>10. CASE "communicator" \notin o
    <2> DEFINE none == << >>
    <2>1. When("communicator" \in o, boot \o stop) = none
      BY Zenon, <1>10 DEF When
    <2>2. none \in Seq(StepNames) /\ none \in Seq(Before \ {"StepRun", "StepAddFloppy"})
      OBVIOUS
    <2> HIDE DEF none
    <2>3. /\ front \o none \in Seq(Before \ {"StepRun", "StepAddFloppy"})
          /\ front \o none \in Seq(StepNames)
      BY <1>1, <1>7, <2>2, ConcatType
    <2>4. front \o none \in Seq(Before)
      BY <2>3
    <2>5. Cat(Cat(Cat(Cat(front, none), Cat(eject, base)), import), export)
            = Cat(Cat(front, none), Cat(eject, Cat(Cat(base, import), export)))
      <3>1. Cat(front, none) \in Seq(StepNames)
        BY Zenon, <2>3 DEF Cat
      <3>2. QED BY SMT, <1>3, <1>7, <1>8, <3>1, Regroup
    <2>6. CloneSteps(o) = (front \o none) \o (eject \o r)
      BY Zenon, <1>4, <1>6, <2>1, <2>5 DEF Cat
    <2> HIDE DEF r
    <2>7. QED BY Zenon, <1>40, <1>5, <2>3, <2>4, <2>6 DEF InThree, Ending
  <1>11. QED BY <1>9, <1>10

\* The step list by its four parts and their indices.
LEMMA StepsIndexed ==
  ASSUME config \in Configs
  PROVE  \E p \in Seq(Before), m \in Seq(Unloaders), r \in Seq(After) :
           /\ Contains(m, "StepRemoveCDRom")
           /\ \/ Contains(m, "StepShutdown") /\ Contains(m, "StepRemoveFloppy")
              \/ p \in Seq(Before \ {"StepRun", "StepAddFloppy"})
           /\ Ending(r, config.opts)
           /\ Len(Steps) = Len(p) + Len(m) + Len(r)
           /\ \A i \in 1 .. Len(p) : Steps[i] = p[i]
           /\ \A i \in 1 .. Len(m) : Steps[Len(p) + i] = m[i]
           /\ \A i \in 1 .. Len(r) : Steps[Len(p) + Len(m) + i] = r[i]
  <1> DEFINE creation == CreationSteps(config.builder)
             rest == BuildSteps(config)
  <1>1. creation \in Seq(Before) /\ creation \in Seq(Before \ {"StepRun", "StepAddFloppy"})
    <2>1. CASE config.builder = "iso"
      <3>1. creation = << "StepConnect", "StepResolveDatastore",
                          "StepDownload", "StepCreateCD", "StepRemoteUpload",
                          "StepCreateVM" >>
        BY <2>1 DEF CreationSteps
      <3>2. QED BY <3>1 DEF Before, StepNames, Unloaders, Producers
    <2>2. CASE config.builder # "iso"
      <3>1. creation = << "StepConnect", "StepResolveDatastore",
                          "StepCreateCD", "StepRemoteUpload", "StepCloneVM" >>
        BY <2>2 DEF CreationSteps
      <3>2. QED BY <3>1 DEF Before, StepNames, Unloaders, Producers
    <2>3. QED BY <2>1, <2>2
  <1>2. InThree(rest, config.opts)
    BY IsoInThree, CloneInThree DEF BuildSteps
  <1>3. PICK q \in Seq(Before), m \in Seq(Unloaders), r \in Seq(After) :
          /\ rest = q \o (m \o r)
          /\ Contains(m, "StepRemoveCDRom")
          /\ \/ Contains(m, "StepShutdown") /\ Contains(m, "StepRemoveFloppy")
             \/ q \in Seq(Before \ {"StepRun", "StepAddFloppy"})
          /\ Ending(r, config.opts)
    BY <1>2 DEF InThree
  <1> HIDE DEF creation, rest
  <1>4. r \in Seq(After)
    BY <1>3 DEF Ending
  <1>5. Steps = creation \o rest
    BY DEF Steps, creation, rest
  <1> DEFINE p == creation \o q
  <1>6. /\ p \in Seq(Before)
        /\ Len(p) = Len(creation) + Len(q)
        /\ \A i \in 1 .. Len(creation) : p[i] = creation[i]
        /\ \A i \in 1 .. Len(q) : p[Len(creation) + i] = q[i]
    BY <1>1, ConcatAt
  <1>7. q \in Seq(Before \ {"StepRun", "StepAddFloppy"})
          => p \in Seq(Before \ {"StepRun", "StepAddFloppy"})
    BY <1>1, ConcatType
  <1> HIDE DEF p
  <1>8. /\ creation \in Seq(StepNames) /\ q \in Seq(StepNames)
        /\ m \in Seq(StepNames) /\ r \in Seq(StepNames)
    BY <1>1, <1>4 DEF Before, After, Unloaders, StepNames
  <1> DEFINE mr == m \o r
             qmr == q \o mr
  <1>9. /\ mr \in Seq(StepNames) /\ Len(mr) = Len(m) + Len(r)
        /\ \A i \in 1 .. Len(m) : mr[i] = m[i]
        /\ \A i \in 1 .. Len(r) : mr[Len(m) + i] = r[i]
    BY <1>8, ConcatAt
  <1>10. rest = qmr
    BY <1>3
  <1> HIDE DEF mr
  <1>11. /\ qmr \in Seq(StepNames) /\ Len(qmr) = Len(q) + Len(mr)
         /\ \A i \in 1 .. Len(q) : qmr[i] = q[i]
         /\ \A i \in 1 .. Len(mr) : qmr[Len(q) + i] = mr[i]
    <2> HIDE DEF qmr
    <2>1. qmr = q \o mr
      BY DEF qmr
    <2>2. qmr = Cat(q, mr)
      BY Zenon, <2>1 DEF Cat
    <2>3. QED BY ZenonT(30), <1>8, <1>9, <2>2, CatAt
  <1> HIDE DEF qmr
  <1>12. /\ Len(Steps) = Len(creation) + Len(qmr)
         /\ \A i \in 1 .. Len(creation) : Steps[i] = creation[i]
         /\ \A i \in 1 .. Len(qmr) : Steps[Len(creation) + i] = qmr[i]
    <2>1. Steps = creation \o qmr
      BY Zenon, <1>5, <1>10
    <2>2. Steps = Cat(creation, qmr)
      BY Zenon, <2>1 DEF Cat
    <2>3. creation \in Seq(StepNames) /\ qmr \in Seq(StepNames)
      BY <1>8, <1>11
    <2>4. QED BY <2>2, <2>3, CatAt
  <1> DEFINE a == Len(creation)
             b == Len(q)
             c == Len(m)
             d == Len(r)
  <1>13. a \in Nat /\ b \in Nat /\ c \in Nat /\ d \in Nat
    BY <1>8
  <1>14. Len(p) = a + b /\ Len(mr) = c + d /\ Len(qmr) = b + (c + d)
    BY <1>6, <1>9, <1>11
  <1>15. \A i \in 1 .. Len(p) : Steps[i] = p[i]
    <2> TAKE i \in 1 .. Len(p)
    <2>1. CASE i \in 1 .. a
      BY <1>6, <1>12, <2>1
    <2>2. CASE i \notin 1 .. a
      <3>1. /\ i - a \in 1 .. b /\ i - a \in 1 .. Len(qmr)
            /\ i = a + (i - a)
        BY <1>13, <1>14, <2>2
      <3> HIDE DEF a, b
      <3>2. Steps[i] = qmr[i - a] /\ p[i] = q[i - a]
        BY <1>6, <1>12, <3>1 DEF a, b
      <3>3. QED BY <1>11, <3>1, <3>2 DEF b
    <2>3. QED BY <2>1, <2>2
  <1>16. \A i \in 1 .. Len(mr) : Steps[a + b + i] = mr[i]
    <2> TAKE i \in 1 .. Len(mr)
    <2> HIDE DEF a, b, c, d
    <2>1. b + i \in 1 .. Len(qmr) /\ a + (b + i) = a + b + i
      BY <1>13, <1>14
    <2>2. Steps[a + (b + i)] = qmr[b + i] /\ qmr[b + i] = mr[i]
      BY <1>11, <1>12, <2>1 DEF a, b
    <2>3. QED BY <2>1, <2>2
  <1>17. \A i \in 1 .. Len(m) : Steps[Len(p) + i] = m[i]
    <2> TAKE i \in 1 .. Len(m)
    <2> HIDE DEF a, b, c, d
    <2>1. i \in 1 .. Len(mr)
      BY <1>13, <1>14 DEF c
    <2>2. QED BY <1>9, <1>14, <1>16, <2>1
  <1>18. \A i \in 1 .. Len(r) : Steps[Len(p) + Len(m) + i] = r[i]
    <2> TAKE i \in 1 .. Len(r)
    <2> HIDE DEF a, b, c, d
    <2>1. c + i \in 1 .. Len(mr) /\ a + b + (c + i) = Len(p) + Len(m) + i
      BY <1>13, <1>14 DEF c, d
    <2>2. QED BY <1>9, <1>16, <2>1 DEF c
  <1>19. Len(Steps) = Len(p) + Len(m) + Len(r)
    BY <1>12, <1>13, <1>14
  <1> HIDE DEF a, b, c, d
  <1>20. QED BY <1>3, <1>4, <1>6, <1>7, <1>15, <1>17, <1>18, <1>19

LEMMA StepsOrder ==
  ASSUME config \in Configs
  PROVE  StepsOrdered
  <1>1. PICK p \in Seq(Before), m \in Seq(Unloaders), r \in Seq(After) :
          /\ Contains(m, "StepRemoveCDRom")
          /\ \/ Contains(m, "StepShutdown") /\ Contains(m, "StepRemoveFloppy")
             \/ p \in Seq(Before \ {"StepRun", "StepAddFloppy"})
          /\ Ending(r, config.opts)
          /\ Len(Steps) = Len(p) + Len(m) + Len(r)
          /\ \A i \in 1 .. Len(p) : Steps[i] = p[i]
          /\ \A i \in 1 .. Len(m) : Steps[Len(p) + i] = m[i]
          /\ \A i \in 1 .. Len(r) : Steps[Len(p) + Len(m) + i] = r[i]
    BY StepsIndexed
  <1> DEFINE a == Len(p)
             b == a + Len(m)
  <1>2. /\ a \in Nat /\ Len(m) \in Nat /\ Len(r) \in Nat /\ b \in Nat
        /\ Len(Steps) = b + Len(r)
    BY <1>1
  <1>3. \A i \in 1 .. a : Steps[i] \in Before /\ Steps[i] = p[i]
    BY <1>1
  <1>4. \A i \in a + 1 .. b : Steps[i] \in Unloaders
    <2> TAKE i \in a + 1 .. b
    <2>1. i - a \in 1 .. Len(m) /\ i = a + (i - a)
      BY <1>2
    <2> HIDE DEF b
    <2>2. Steps[i] = m[i - a]
      BY <1>1, <2>1
    <2>3. QED BY <2>1, <2>2
  <1>5. \A i \in b + 1 .. Len(Steps) : Steps[i] \in After
    <2> TAKE i \in b + 1 .. Len(Steps)
    <2>1. i - b \in 1 .. Len(r) /\ i = b + (i - b)
      BY <1>2
    <2>2. Steps[i] = r[i - b]
      BY <1>1, <2>1
    <2>3. QED BY <2>1, <2>2
  <1>6. ASSUME NEW s, Contains(m, s)
        PROVE  \E j \in a + 1 .. b : Steps[j] = s
    <2>1. PICK i \in 1 .. Len(m) : m[i] = s
      BY <1>6 DEF Contains
    <2>2. a + i \in a + 1 .. b /\ Steps[a + i] = s
      BY <1>1, <1>2, <2>1
    <2>3. QED BY <2>2
  <1>7. ASSUME NEW s
        PROVE  Contains(r, s) <=> \E j \in b + 1 .. Len(Steps) : Steps[j] = s
    <2>1. ASSUME NEW i \in 1 .. Len(r), r[i] = s
          PROVE  \E j \in b + 1 .. Len(Steps) : Steps[j] = s
      <3>1. b + i \in b + 1 .. Len(Steps) /\ Steps[b + i] = s
        BY <1>1, <1>2, <2>1
      <3>2. QED BY <3>1
    <2>2. ASSUME NEW j \in b + 1 .. Len(Steps), Steps[j] = s
          PROVE  \E i \in 1 .. Len(r) : r[i] = s
      <3>1. j - b \in 1 .. Len(r) /\ b + (j - b) = j
        BY <1>2
      <3>2. r[j - b] = s
        BY <1>1, <2>2, <3>1
      <3>3. QED BY <3>1, <3>2
    <2>3. QED BY <2>1, <2>2 DEF Contains
  <1> HIDE DEF a, b
  <1>8. ASSUME NEW i \in 1 .. Len(Steps)
        PROVE  i \in 1 .. a \/ i \in a + 1 .. b \/ i \in b + 1 .. Len(Steps)
    BY <1>2
  <1>9. a <= b /\ b <= Len(Steps)
    BY <1>2 DEF b
  <1>10. ASSUME NEW i \in 1 .. Len(Steps), Steps[i] \in Loaders
         PROVE  \E j \in i + 1 .. Len(Steps) : Steps[j] = Unloader(Steps[i])
    <2>1. Before \cap Loaders = Loaders /\ Unloaders \cap Loaders = {} /\ After \cap Loaders = {}
      BY DEF Before, After, Loaders, Unloaders, Producers, StepNames
    <2>2. i \in 1 .. a
      BY <1>4, <1>5, <1>8, <1>10, <2>1
    <2>3. Contains(m, Unloader(Steps[i]))
      <3>1. CASE Steps[i] = "StepAddCDRom"
        BY <1>1, <3>1 DEF Unloader
      <3>2. CASE Steps[i] \in {"StepRun", "StepAddFloppy"}
        <4>1. p \notin Seq(Before \ {"StepRun", "StepAddFloppy"})
          <5>1. p[i] \in {"StepRun", "StepAddFloppy"}
            BY <1>3, <2>2, <3>2
          <5>2. QED BY <2>2, <5>1 DEF a
        <4>2. QED BY <1>1, <3>2, <4>1 DEF Unloader
      <3>3. QED BY <1>10, <3>1, <3>2 DEF Loaders
    <2>4. PICK j \in a + 1 .. b : Steps[j] = Unloader(Steps[i])
      BY <1>6, <2>3
    <2>5. j \in i + 1 .. Len(Steps)
      BY <1>2, <1>9, <2>2
    <2>6. QED BY <2>4, <2>5
  <1>11. ASSUME NEW i \in 1 .. Len(Steps), NEW j \in 1 .. Len(Steps),
                Steps[i] \in Unloaders, Steps[j] \in Producers
         PROVE  i < j
    <2>1. /\ Before \cap (Unloaders \cup Producers) = {}
          /\ Unloaders \cap Producers = {} /\ After \cap Unloaders = {}
      BY DEF Before, After, Loaders, Unloaders, Producers, StepNames
    <2>2. i \in a + 1 .. b
      BY <1>3, <1>5, <1>8, <1>11, <2>1
    <2>3. j \in b + 1 .. Len(Steps)
      BY <1>3, <1>4, <1>8, <1>11, <2>1
    <2>4. QED BY <1>2, <2>2, <2>3
  <1>12. ASSUME NEW s \in Producers
         PROVE  Occurs(s) <=> Contains(r, s)
    <2>1. Before \cap Producers = {} /\ Unloaders \cap Producers = {}
      BY DEF Before, Unloaders, Producers
    <2>2. ASSUME NEW i \in 1 .. Len(Steps), Steps[i] = s
          PROVE  i \in b + 1 .. Len(Steps)
      BY <1>3, <1>4, <1>8, <2>1, <2>2
    <2>3. \A j \in b + 1 .. Len(Steps) : j \in 1 .. Len(Steps)
      BY <1>2
    <2>4. QED BY <1>7, <2>2, <2>3 DEF Occurs
  <1>13. /\ Occurs("StepCreateSnapshot") /\ Occurs("StepConvertToTemplate")
         /\ Occurs("StepImportToContentLibrary") <=> Opt("content_library")
         /\ Occurs("StepExport") <=> Opt("export")
    BY <1>1, <1>12 DEF Producers, Ending, Opt
  <1>14. QED BY <1>10, <1>11, <1>13 DEF StepsOrdered

-----------------------------------------------------------------------------
(* The inductive invariant *)

\* The step s is still to be run, or running.
Pending(s) == Running /\ \E i \in pc .. Len(Steps) : Steps[i] = s

\* An interrupted StepShutdown lets a running machine pass: the runner then
\* stops before the next step.
StopsNext == phase = "loop" /\ ctxDone /\ pc <= Len(Steps)

\* While the steps run, what is on the machine has its removal ahead.
LoadedInv ==
  /\ Running => untracked = {}
  /\ Running /\ pc > CreatorAt => "exists" \in vm
  /\ Running /\ "on" \in vm => Pending("StepShutdown") \/ StopsNext
  /\ Running /\ "media" \in vm => Pending("StepRemoveCDRom")
  /\ Running /\ "floppy drive" \in vm => Pending("StepRemoveFloppy")
  /\ Running /\ "floppy" \in files => Pending("StepRemoveFloppy")

\* And what is asked for is made, or the step that makes it is ahead.
ProductInv ==
  Running =>
    /\ Opt("create_snapshot") =>
         "snapshot" \in vm \/ Pending("StepCreateSnapshot")
    /\ Opt("convert_to_template") =>
         "template" \in vm \/ Pending("StepConvertToTemplate")
    /\ ImportsVM =>
         "library item" \in outputs \/ Pending("StepImportToContentLibrary")
    /\ Opt("export") => "ovf" \in outputs \/ Pending("StepExport")

\* The clean-up of StepRun is ahead of a machine that is on, or that boots in
\* the temporary order.
PowerInv ==
  /\ "on" \in vm => Due({"StepRun"}) \/ (~Running /\ cleanupFailed)
  /\ "temporary boot order" \in vm =>
       TemporaryBootOrder /\ ("error" \in bag \/ Due({"StepRun"}))

MayDestroy ==
  Opt("destroy") \/ (ImportsVM /\ Opt("content_library_destroy"))

ReasonInv ==
  /\ "halted" \in bag => broke
  /\ "destroy_vm" \in bag => MayDestroy

\* What holds once the steps of a successful build have all run.
FinishedInv ==
  ~Running /\ ~broke /\ phase # "discarded" =>
    /\ vm \cap {"on", "media", "floppy drive"} = {}
    /\ "floppy" \notin files
    /\ ImportsVM => "library item" \in outputs
    /\ Opt("export") => "ovf" \in outputs
    /\ \/ /\ "exists" \in vm
          /\ Opt("create_snapshot") => "snapshot" \in vm
          /\ Opt("convert_to_template") => "template" \in vm
       \/ MayDestroy \/ ctxDone

PInv == LoadedInv /\ ProductInv /\ PowerInv /\ ReasonInv /\ FinishedInv

-----------------------------------------------------------------------------
(* What any step does to the machine and its products *)

\* A step from which the build goes on leaves nothing untracked, and loads the
\* machine only if it is a loader; an unloader leaves nothing of its kind.
LoadEffect ==
  phase' = "loop" =>
    /\ untracked' = untracked
    /\ "on" \in vm' =>
         \/ Steps[pc] = "StepRun"
         \/ "on" \in vm /\ (Steps[pc] = "StepShutdown" => ctxDone)
    /\ "media" \in vm' =>
         Steps[pc] = "StepAddCDRom" \/ ("media" \in vm /\ Steps[pc] # "StepRemoveCDRom")
    /\ "floppy drive" \in vm' =>
         \/ Steps[pc] = "StepAddFloppy"
         \/ "floppy drive" \in vm /\ Steps[pc] # "StepRemoveFloppy"
    /\ "floppy" \in files' =>
         \/ Steps[pc] = "StepAddFloppy"
         \/ /\ "floppy" \in files
            /\ Steps[pc] = "StepRemoveFloppy" => "uploaded_floppy_path" \notin bag

\* Only a producer makes a product, and it does when asked to; none is lost.
MakeEffect ==
  /\ outputs \subseteq outputs'
  /\ Steps[pc] \notin Creators => vm \cap {"snapshot", "template"} \subseteq vm'
  /\ ((vm' \cup outputs') \ (vm \cup outputs))
       \cap {"snapshot", "template", "library item", "ovf"} # {}
       => Steps[pc] \in Producers
  /\ phase' = "loop" =>
       /\ Steps[pc] = "StepCreateSnapshot" /\ Opt("create_snapshot") => "snapshot" \in vm'
       /\ Steps[pc] = "StepConvertToTemplate" /\ Opt("convert_to_template") =>
            "template" \in vm'
       /\ Steps[pc] = "StepImportToContentLibrary" /\ ~Opt("skip_import") =>
            "library item" \in outputs'
       /\ Steps[pc] = "StepExport" => "ovf" \in outputs'

\* Only StepRun powers on, and only a creating step or the import asks for the
\* destruction of the machine.
PowerEffect ==
  /\ "on" \in vm' => "on" \in vm \/ Steps[pc] = "StepRun"
  /\ "temporary boot order" \in vm' =>
       \/ "temporary boot order" \in vm
       \/ Steps[pc] = "StepRun" /\ TemporaryBootOrder
  /\ "halted" \in bag' => "halted" \in bag \/ phase' = "cleanup"
  /\ "destroy_vm" \in bag' =>
       \/ "destroy_vm" \in bag
       \/ Steps[pc] \in Creators /\ Opt("destroy")
       \/ /\ Steps[pc] = "StepImportToContentLibrary" /\ ~Opt("skip_import")
          /\ Opt("content_library_destroy")

GrowthEffect == LoadEffect /\ MakeEffect /\ PowerEffect

LEMMA PlainGrowth ==
  ASSUME TypeOK, NEW s \in Early \cup (Later \ (Unloaders \cup Producers)),
         Plain(s) \/ InterruptibleSdkStep(s)
  PROVE  GrowthEffect
  <1>1. /\ At(s)
        /\ UNCHANGED <<world, untracked>>
        /\ Continues(bag) \/ Fails(bag) \/ Halts(bag)
    BY DEF Plain, InterruptibleSdkStep
  <1>2. Steps[pc] \notin Creators \cup Unloaders \cup Producers
    BY <1>1 DEF At, Early, Later, Creators, Unloaders, Producers
  <1>3. /\ UNCHANGED <<vm, files, outputs, untracked>>
        /\ "halted" \in bag' => "halted" \in bag \/ phase' = "cleanup"
        /\ "destroy_vm" \in bag' => "destroy_vm" \in bag
    BY <1>1 DEF Continues, Halts, Fails, world
  <1>4. LoadEffect
    BY <1>2, <1>3 DEF LoadEffect, Unloaders
  <1>5. MakeEffect
    BY <1>2, <1>3 DEF MakeEffect, Producers
  <1>6. PowerEffect
    BY <1>3 DEF PowerEffect
  <1>7. QED BY <1>4, <1>5, <1>6 DEF GrowthEffect

LEMMA RunStepGrowth ==
  ASSUME TypeOK, RunStep
  PROVE  GrowthEffect
  <1>1. \A s \in Early \cup (Later \ (Unloaders \cup Producers)) :
          Plain(s) \/ InterruptibleSdkStep(s) => GrowthEffect
    BY PlainGrowth
  <1>2. { "StepResolveDatastore", "StepDownload", "StepCreateCD",
          "StepConfigureHardware", "StepAddFlag", "StepConfigParams",
          "StepCustomize", "StepCreateFloppy", "StepApplyTags", "StepSetVApp",
          "StepHTTPIPDiscover", "StepHTTPServer", "StepSshKeyPair",
          "StepConnectCommunicator", "StepProvision",
          "StepRemoveNetworkAdapter", "StepRemoveVTPM" }
          \subseteq Early \cup (Later \ (Unloaders \cup Producers))
    BY DEF Early, Later, Creators, StepNames, Unloaders, Producers
  <1>3. CASE \/ StepResolveDatastore \/ StepDownload \/ StepCreateCD
             \/ StepConfigureHardware \/ StepAddFlag \/ StepConfigParams
             \/ StepCustomize \/ StepCreateFloppy \/ StepApplyTags
             \/ StepSetVApp \/ StepHTTPIPDiscover \/ StepHTTPServer
             \/ StepSshKeyPair \/ StepConnectCommunicator \/ StepProvision
             \/ StepRemoveNetworkAdapter \/ StepRemoveVTPM
    BY <1>1, <1>2, <1>3
       DEF StepResolveDatastore, StepDownload, StepCreateCD,
           StepConfigureHardware, StepAddFlag, StepConfigParams, StepCustomize,
           StepCreateFloppy, StepApplyTags, StepSetVApp, StepHTTPIPDiscover,
           StepHTTPServer, StepSshKeyPair, StepConnectCommunicator,
           StepProvision, StepRemoveNetworkAdapter, StepRemoveVTPM
  <1> USE DEF GrowthEffect, LoadEffect, MakeEffect, PowerEffect, Producers,
              Creators, At, Continues, Halts, Fails
  <1>4. CASE StepConnect
    BY <1>4 DEF StepConnect
  <1>5. CASE StepRemoteUpload
    BY <1>5 DEF StepRemoteUpload
  <1>6. CASE StepCreateVM
    BY <1>6 DEF StepCreateVM, CreationFails, CreationSucceeds, PreCleanVM
  <1>7. CASE StepCloneVM
    BY <1>7 DEF StepCloneVM, CreationFails, CreationSucceeds, PreCleanVM
  <1>8. CASE StepAddCDRom
    BY <1>8 DEF StepAddCDRom
  <1>9. CASE StepAddFloppy
    BY <1>9 DEF StepAddFloppy
  <1>10. CASE StepRun
    BY <1>10 DEF StepRun
  <1>11. CASE StepBootCommand
    BY <1>11 DEF StepBootCommand, world
  <1>12. CASE StepWaitForIp
    BY <1>12 DEF StepWaitForIp, world
  <1>13. CASE StepShutdown
    BY <1>13 DEF StepShutdown
  <1>14. CASE StepRemoveFloppy
    BY <1>14 DEF StepRemoveFloppy
  <1>15. CASE StepRemoveCDRom
    BY <1>15 DEF StepRemoveCDRom, EjectsMedia
  <1>16. CASE StepReattachCDRom
    BY <1>16 DEF StepReattachCDRom, EjectsMedia
  <1>17. CASE StepCreateSnapshot
    BY <1>17 DEF StepCreateSnapshot, MarksVM
  <1>18. CASE StepConvertToTemplate
    BY <1>18 DEF StepConvertToTemplate, MarksVM
  <1>19. CASE StepImportToContentLibrary
    BY <1>19 DEF StepImportToContentLibrary
  <1>20. CASE StepExport
    BY <1>20 DEF StepExport
  <1>21. QED
    BY <1>3, <1>4, <1>5, <1>6, <1>7, <1>8, <1>9, <1>10, <1>11, <1>12, <1>13, <1>14, <1>15, <1>16, <1>17, <1>18, <1>19, <1>20
       DEF RunStep

-----------------------------------------------------------------------------
(* What any clean-up does to the machine *)

CoolEffect ==
  /\ vm \ {"on", "temporary boot order"} \subseteq vm' \/ DestroyDue
  /\ Steps[pc] = "StepRun" /\ "on" \in vm' => cleanupFailed' \/ ~Stopped
  /\ Steps[pc] = "StepRun" /\ TemporaryBootOrder =>
       "temporary boot order" \notin vm' \/ "error" \in bag'

LEMMA CleanupCools ==
  ASSUME TypeOK, CleanupStep, ~NothingToClean
  PROVE  CoolEffect
  <1> USE DEF CoolEffect, CleaningUp
  <1>1. CASE StepRunCleanup
    BY <1>1 DEF StepRunCleanup, TypeOK
  <1>2. CASE CleanupVM
    BY <1>2 DEF CleanupVM
  <1>3. CASE \/ StepAddFloppyCleanup \/ StepRemoteUploadCleanup
             \/ StepConnectCleanup \/ NoCleanup
    BY <1>3 DEF StepAddFloppyCleanup, StepRemoteUploadCleanup,
                StepConnectCleanup, NoCleanup, world
  <1>4. QED BY <1>1, <1>2, <1>3 DEF CleanupStep

-----------------------------------------------------------------------------
(* What becomes of a step that is still to be run *)

LEMMA PendingAfterStep ==
  ASSUME TypeOK, ControlEffect, phase' = "loop", NEW s, Pending(s), Steps[pc] # s
  PROVE  Pending(s)'
  <1>1. Steps' = Steps /\ pc' = pc + 1 /\ pc \in Nat /\ Len(Steps) \in Nat
    BY CounterType, StepsConstant DEF ControlEffect
  <1>2. PICK i \in pc .. Len(Steps) : Steps[i] = s
    BY DEF Pending
  <1>3. i \in pc + 1 .. Len(Steps)
    BY <1>1, <1>2
  <1>4. QED BY <1>1, <1>2, <1>3 DEF Pending, Running

\* A loader has its unloader ahead.
LEMMA PendingAfterLoader ==
  ASSUME TypeOK, ControlEffect, phase' = "loop", Steps[pc] \in Loaders,
         NEW s, s = Unloader(Steps[pc])
  PROVE  Pending(s)'
  <1>1. /\ Steps' = Steps /\ pc' = pc + 1 /\ pc \in 1 .. Len(Steps)
    BY CounterType, StepsConstant DEF ControlEffect
  <1>2. \E j \in pc + 1 .. Len(Steps) : Steps[j] = s
    BY <1>1, StepsOrder DEF TypeOK, StepsOrdered
  <1>3. QED BY <1>1, <1>2 DEF Pending, Running

LEMMA PendingUnchanged ==
  ASSUME UNCHANGED <<config, pc>>, Running', NEW s, Pending(s)
  PROVE  Pending(s)'
  <1>1. Steps' = Steps
    BY StepsConstant
  <1>2. QED BY <1>1 DEF Pending

\* Nothing is unloaded by the last step, or after a product has been made.
LEMMA UnloadersFirst ==
  ASSUME TypeOK, phase = "step"
  PROVE  /\ Steps[pc] \in Unloaders => pc + 1 <= Len(Steps)
         /\ Steps[pc] \in Producers => \A s \in Unloaders : ~Pending(s)
  <1>1. StepsOrdered
    BY StepsOrder DEF TypeOK
  <1>2. pc \in 1 .. Len(Steps) /\ Len(Steps) \in Nat
    BY CounterType
  <1>3. ASSUME Steps[pc] \in Unloaders
        PROVE  pc + 1 <= Len(Steps)
    <2>1. PICK j \in 1 .. Len(Steps) : Steps[j] = "StepCreateSnapshot"
      BY <1>1 DEF StepsOrdered, Occurs
    <2>2. pc < j
      BY <1>1, <1>2, <1>3, <2>1 DEF StepsOrdered, Producers
    <2>3. QED BY <1>2, <2>1, <2>2
  <1>4. ASSUME Steps[pc] \in Producers, NEW s \in Unloaders, Pending(s)
        PROVE  FALSE
    <2>1. PICK i \in pc .. Len(Steps) : Steps[i] = s
      BY <1>4 DEF Pending
    <2>2. i \in 1 .. Len(Steps)
      BY <1>2, <2>1
    <2>3. i < pc
      BY <1>1, <1>2, <1>4, <2>1, <2>2 DEF StepsOrdered
    <2>4. QED BY <1>2, <2>1, <2>3
  <1>5. QED BY <1>3, <1>4

LEMMA OptionsConstant ==
  ASSUME UNCHANGED config
  PROVE  /\ \A o : Opt(o)' = Opt(o)
         /\ ImportsVM' = ImportsVM /\ MayDestroy' = MayDestroy
         /\ TemporaryBootOrder' = TemporaryBootOrder
  BY DEF Opt, ImportsVM, MayDestroy, TemporaryBootOrder

-----------------------------------------------------------------------------
(* The inductive invariant is kept *)

LEMMA InitPInv == Init => PInv
  <1> SUFFICES ASSUME Init PROVE PInv
    OBVIOUS
  <1>1. TypeOK
    BY InitTypeOK
  <1>2. /\ phase = "loop" /\ pc = 1 /\ Running /\ ~broke /\ bag = {}
        /\ vm = {} /\ files = {} /\ untracked = {}
    BY DEF Init, Running
  <1>3. CreatorAt \in 2 .. Len(Steps)
    BY <1>1, CounterType
  <1>4. StepsOrdered
    BY <1>1, StepsOrder DEF TypeOK
  <1>5. \A s : Occurs(s) => Pending(s)
    BY <1>2 DEF Occurs, Pending
  <1>6. LoadedInv
    BY <1>2, <1>3 DEF LoadedInv
  <1>7. ProductInv
    BY <1>4, <1>5 DEF StepsOrdered, ProductInv, ImportsVM
  <1>8. PowerInv /\ ReasonInv
    BY <1>2 DEF PowerInv, ReasonInv
  <1>9. FinishedInv
    BY <1>2 DEF FinishedInv
  <1>10. QED BY <1>6, <1>7, <1>8, <1>9 DEF PInv

\* A step keeps it: what the step loads has its unloader ahead, what it unloads
\* is gone, and what it should make is there.
LEMMA RunStepPInv ==
  ASSUME IInv, PInv, RunStep
  PROVE  PInv'
  <1>1. /\ TypeOK /\ ControlInv /\ TrackedInv /\ KeysInv
        /\ LoadedInv /\ ProductInv /\ PowerInv /\ ReasonInv
    BY DEF IInv, PInv
  <1>2. ControlEffect /\ StopEffect /\ TypeEffect /\ MachineEffect
    BY <1>1, RunStepEffect DEF StepEffect
  <1>3. LoadEffect /\ MakeEffect /\ PowerEffect
    BY <1>1, RunStepGrowth DEF GrowthEffect
  <1>4. /\ phase = "step" /\ Running /\ ~broke
        /\ (phase' = "loop" /\ pc' = pc + 1) \/ (phase' = "cleanup" /\ pc' = pc)
        /\ config' = config
        /\ Running' <=> phase' = "loop"
    BY <1>1, <1>2 DEF ControlEffect, ControlInv, Running
  <1>5. /\ pc \in 1 .. Len(Steps) /\ Len(Steps) \in Nat /\ CreatorAt \in 2 .. Len(Steps)
        /\ Steps' = Steps /\ CreatorAt' = CreatorAt
    BY <1>1, <1>4, CounterType, StepsConstant
  <1>6. /\ Steps[pc] \in Creators <=> pc = CreatorAt
        /\ pc <= CreatorAt => vm = {}
    <2>1. /\ pc < CreatorAt => Steps[pc] \in Early \cup {"StepConnect"}
          /\ pc = CreatorAt => Steps[pc] \in Creators
          /\ pc > CreatorAt => Steps[pc] \in Later
      BY <1>1, <1>5, StepsShape DEF TypeOK
    <2>2. Steps[pc] \in Creators <=> pc = CreatorAt
      BY <1>5, <2>1 DEF Early, Later, Creators
    <2>3. QED BY <1>1, <1>4, <2>2 DEF KeysInv
  <1>7. ASSUME phase' = "loop", NEW s, Pending(s), Steps[pc] # s
        PROVE  Pending(s)'
    BY <1>1, <1>2, <1>7, PendingAfterStep
  <1>8. /\ phase' = "loop" /\ Steps[pc] = "StepRun" => Pending("StepShutdown")'
        /\ phase' = "loop" /\ Steps[pc] = "StepAddCDRom" => Pending("StepRemoveCDRom")'
        /\ phase' = "loop" /\ Steps[pc] = "StepAddFloppy" => Pending("StepRemoveFloppy")'
    BY <1>1, <1>2, PendingAfterLoader DEF Loaders, Unloader
  <1>9. LoadedInv'
    <2>1. Running' => untracked' = {}
      BY <1>1, <1>3, <1>4 DEF LoadedInv, LoadEffect
    <2>2. Running' /\ pc' > CreatorAt => "exists" \in vm'
      <3>1. CASE pc > CreatorAt
        BY <1>1, <1>2, <1>4, <1>5, <1>6, <3>1 DEF LoadedInv, MachineEffect
      <3>2. CASE pc = CreatorAt
        BY <1>2, <1>4, <1>6, <3>2 DEF MachineEffect
      <3>3. CASE pc < CreatorAt
        BY <1>4, <1>5, <3>3
      <3>4. QED BY <1>5, <3>1, <3>2, <3>3
    <2>3. Running' /\ "on" \in vm' => Pending("StepShutdown")' \/ StopsNext'
      <3> SUFFICES ASSUME phase' = "loop", "on" \in vm'
                   PROVE  Pending("StepShutdown")' \/ StopsNext'
        BY <1>4
      <3>1. CASE Steps[pc] = "StepRun"
        BY <1>8, <3>1
      <3>2. CASE Steps[pc] # "StepRun" /\ Steps[pc] # "StepShutdown"
        <4>1. "on" \in vm
          BY <1>3, <3>2 DEF LoadEffect
        <4>2. Pending("StepShutdown")
          BY <1>1, <1>4, <4>1 DEF LoadedInv, StopsNext
        <4>3. QED BY <1>7, <3>2, <4>2
      <3>3. CASE Steps[pc] = "StepShutdown"
        <4>1. ctxDone /\ ctxDone' = ctxDone
          BY <1>2, <1>3, <3>3 DEF LoadEffect, StopEffect
        <4>2. pc + 1 <= Len(Steps)
          BY <1>1, <1>4, <3>3, UnloadersFirst DEF Unloaders
        <4>3. pc' <= Len(Steps)'
          BY <1>4, <1>5, <4>2
        <4>4. QED BY <4>1, <4>3 DEF StopsNext
      <3>4. QED BY <3>1, <3>2, <3>3
    <2>4. Running' /\ "media" \in vm' => Pending("StepRemoveCDRom")'
      BY <1>1, <1>3, <1>4, <1>7, <1>8 DEF LoadedInv, LoadEffect
    <2>5. Running' /\ "floppy drive" \in vm' => Pending("StepRemoveFloppy")'
      BY <1>1, <1>3, <1>4, <1>7, <1>8 DEF LoadedInv, LoadEffect
    <2>6. Running' /\ "floppy" \in files' => Pending("StepRemoveFloppy")'
      <3>1. "floppy" \in files => "uploaded_floppy_path" \in bag
        BY <1>1, <1>4 DEF LoadedInv, TrackedInv
      <3>2. QED BY <1>1, <1>3, <1>4, <1>7, <1>8, <3>1 DEF LoadedInv, LoadEffect
    <2>7. QED BY <1>5, <2>1, <2>2, <2>3, <2>4, <2>5, <2>6 DEF LoadedInv
  <1>10. ProductInv'
    <2> SUFFICES ASSUME phase' = "loop"
                 PROVE  /\ Opt("create_snapshot") =>
                             "snapshot" \in vm' \/ Pending("StepCreateSnapshot")'
                        /\ Opt("convert_to_template") =>
                             "template" \in vm' \/ Pending("StepConvertToTemplate")'
                        /\ ImportsVM =>
                             \/ "library item" \in outputs'
                             \/ Pending("StepImportToContentLibrary")'
                        /\ Opt("export") => "ovf" \in outputs' \/ Pending("StepExport")'
      BY <1>4, OptionsConstant DEF ProductInv
    <2>1. vm \cap {"snapshot", "template"} \subseteq vm'
      <3>1. CASE Steps[pc] \in Creators
        <4>1. vm = {}
          BY <1>5, <1>6, <3>1
        <4>2. QED BY <4>1
      <3>2. CASE Steps[pc] \notin Creators
        BY <1>3, <3>2 DEF MakeEffect
      <3>3. QED BY <3>1, <3>2
    <2>2. Opt("create_snapshot") => "snapshot" \in vm' \/ Pending("StepCreateSnapshot")'
      BY <1>1, <1>3, <1>4, <1>7, <2>1 DEF ProductInv, MakeEffect
    <2>3. Opt("convert_to_template") => "template" \in vm' \/ Pending("StepConvertToTemplate")'
      BY <1>1, <1>3, <1>4, <1>7, <2>1 DEF ProductInv, MakeEffect
    <2>4. ImportsVM => \/ "library item" \in outputs'
                       \/ Pending("StepImportToContentLibrary")'
      BY <1>1, <1>3, <1>4, <1>7 DEF ProductInv, MakeEffect, ImportsVM
    <2>5. Opt("export") => "ovf" \in outputs' \/ Pending("StepExport")'
      BY <1>1, <1>3, <1>4, <1>7 DEF ProductInv, MakeEffect
    <2>6. QED BY <2>2, <2>3, <2>4, <2>5
  <1>11. PowerInv'
    <2>1. Due({"StepRun"}) \/ Steps[pc] \in {"StepRun"} => Due({"StepRun"})'
      BY <1>1, <1>2, DueAfterStep
    <2>2. "on" \in vm' => Due({"StepRun"})'
      BY <1>1, <1>3, <1>4, <2>1 DEF PowerInv, PowerEffect
    <2>3. "error" \in bag => "error" \in bag'
      BY <1>2 DEF TypeEffect
    <2>4. "temporary boot order" \in vm' =>
            TemporaryBootOrder /\ ("error" \in bag' \/ Due({"StepRun"})')
      BY <1>1, <1>3, <2>1, <2>3 DEF PowerInv, PowerEffect
    <2>5. QED BY <1>4, <2>2, <2>4, OptionsConstant DEF PowerInv
  <1>12. ReasonInv'
    <2>1. "halted" \in bag' => broke'
      BY <1>1, <1>2, <1>3, <1>4 DEF ReasonInv, StopEffect, PowerEffect
    <2>2. Steps[pc] = "StepImportToContentLibrary" => Opt("content_library")
      BY <1>1, <1>5, StepsOrder DEF TypeOK, StepsOrdered, Occurs
    <2>3. "destroy_vm" \in bag' => MayDestroy
      BY <1>1, <1>3, <2>2 DEF ReasonInv, PowerEffect, MayDestroy, ImportsVM
    <2>4. QED BY <1>4, <2>1, <2>3, OptionsConstant DEF ReasonInv
  <1>13. FinishedInv'
    BY <1>2, <1>4 DEF StopEffect, FinishedInv
  <1>14. QED BY <1>9, <1>10, <1>11, <1>12, <1>13 DEF PInv

\* A clean-up keeps it: it takes nothing from a successful build but the power
\* and the boot order, unless the machine may go.
LEMMA CleanupPInv ==
  ASSUME IInv, PInv, CleanupStep, ~NothingToClean
  PROVE  PInv'
  <1>1. /\ TypeOK /\ ControlInv /\ PowerInv /\ ReasonInv /\ FinishedInv
    BY DEF IInv, PInv
  <1>2. CleanupEffect /\ CoolEffect
    BY <1>1, CleanupStepEffect, CleanupCools
  <1>3. /\ phase = "cleanup" /\ ~Running /\ ~Running' /\ phase' # "discarded"
        /\ config' = config /\ ctxDone' = ctxDone /\ broke' = broke
        /\ outputs' = outputs /\ vm' \subseteq vm /\ files' \subseteq files
        /\ bag' = bag \/ bag' = bag \cup {"error"}
        /\ cleanupFailed => cleanupFailed'
    BY <1>2 DEF CleanupEffect, Running
  <1>4. broke => Stopped
    BY <1>1 DEF ControlInv, Stopped
  <1>5. Steps[pc] \notin {"StepRun"} /\ Due({"StepRun"}) => Due({"StepRun"})'
    BY <1>1, <1>2, DueAfterCleanup
  <1>6. LoadedInv' /\ ProductInv'
    BY <1>3 DEF LoadedInv, ProductInv
  <1>7. PowerInv'
    <2>1. "on" \in vm' => Due({"StepRun"})' \/ cleanupFailed'
      <3> SUFFICES ASSUME "on" \in vm', ~cleanupFailed'
                   PROVE  Due({"StepRun"})'
        OBVIOUS
      <3>1. "on" \in vm /\ Due({"StepRun"})
        BY <1>1, <1>3 DEF PowerInv
      <3>2. Stopped
        BY <1>1, <1>3, <1>4, <3>1 DEF FinishedInv
      <3>3. Steps[pc] # "StepRun"
        BY <1>2, <3>2 DEF CoolEffect
      <3>4. QED BY <1>5, <3>1, <3>3
    <2>2. "temporary boot order" \in vm' =>
            TemporaryBootOrder /\ ("error" \in bag' \/ Due({"StepRun"})')
      BY <1>1, <1>2, <1>3, <1>5 DEF PowerInv, CoolEffect
    <2>3. QED BY <1>3, <2>1, <2>2, OptionsConstant DEF PowerInv
  <1>8. ReasonInv'
    BY <1>1, <1>3, OptionsConstant DEF ReasonInv
  <1>9. FinishedInv'
    <2> SUFFICES ASSUME ~broke
                 PROVE  /\ vm' \cap {"on", "media", "floppy drive"} = {}
                        /\ "floppy" \notin files'
                        /\ ImportsVM => "library item" \in outputs'
                        /\ Opt("export") => "ovf" \in outputs'
                        /\ \/ /\ "exists" \in vm'
                              /\ Opt("create_snapshot") => "snapshot" \in vm'
                              /\ Opt("convert_to_template") => "template" \in vm'
                           \/ MayDestroy \/ ctxDone
      BY <1>3, OptionsConstant DEF FinishedInv
    <2>1. /\ vm \cap {"on", "media", "floppy drive"} = {} /\ "floppy" \notin files
          /\ ImportsVM => "library item" \in outputs
          /\ Opt("export") => "ovf" \in outputs
          /\ \/ /\ "exists" \in vm
                /\ Opt("create_snapshot") => "snapshot" \in vm
                /\ Opt("convert_to_template") => "template" \in vm
             \/ MayDestroy \/ ctxDone
      BY <1>1, <1>3 DEF FinishedInv
    <2>2. DestroyDue => MayDestroy \/ ctxDone
      BY <1>1 DEF DestroyDue, Stopped, ControlInv, ReasonInv
    <2>3. vm \ {"on", "temporary boot order"} \subseteq vm' \/ DestroyDue
      BY <1>2 DEF CoolEffect
    <2>4. QED BY <1>3, <2>1, <2>2, <2>3
  <1>10. QED BY <1>6, <1>7, <1>8, <1>9 DEF PInv

\* The end of the loop turns what is not pending any more into what is finished.
LEMMA NextStepPInv ==
  ASSUME IInv, PInv, NextStep
  PROVE  PInv'
  <1>1. /\ TypeOK /\ ControlInv /\ KeysInv
        /\ LoadedInv /\ ProductInv /\ PowerInv /\ ReasonInv
    BY DEF IInv, PInv
  <1>2. /\ phase = "loop" /\ Running /\ ~broke
        /\ UNCHANGED <<config, ctxDone, vm, files, outputs, untracked, cleanupFailed>>
    BY <1>1 DEF NextStep, world, history, Running, ControlInv
  <1>3. /\ pc \in 1 .. Len(Steps) + 1 /\ Len(Steps) \in Nat /\ CreatorAt \in 2 .. Len(Steps)
        /\ Steps' = Steps /\ CreatorAt' = CreatorAt
    BY <1>1, <1>2, CounterType, StepsConstant
  <1>4. \/ /\ phase' = "step" /\ pc' = pc /\ bag' = bag /\ broke' = broke
           /\ ~ctxDone /\ pc <= Len(Steps)
        \/ /\ phase' = "cleanup" /\ bag' = bag /\ broke' = broke /\ pc > Len(Steps)
        \/ /\ phase' = "cleanup" /\ bag' = bag \cup {"cancelled"} /\ broke' = TRUE
    BY <1>3 DEF NextStep
  <1>5. Running' <=> phase' = "step"
    BY <1>4 DEF Running
  <1>6. ASSUME Running', NEW s, Pending(s)
        PROVE  Pending(s)'
    BY <1>2, <1>4, <1>5, <1>6, PendingUnchanged
  <1>7. pc > Len(Steps) => \A s : ~Pending(s)
    BY <1>3 DEF Pending
  <1>8. LoadedInv'
    <2> SUFFICES ASSUME Running'
                 PROVE  LoadedInv'
      BY DEF LoadedInv
    <2>1. pc' = pc /\ ~StopsNext
      BY <1>4, <1>5 DEF StopsNext
    <2>2. /\ "on" \in vm' => Pending("StepShutdown")'
          /\ "media" \in vm' => Pending("StepRemoveCDRom")'
          /\ "floppy drive" \in vm' => Pending("StepRemoveFloppy")'
          /\ "floppy" \in files' => Pending("StepRemoveFloppy")'
      BY <1>1, <1>2, <1>6, <2>1 DEF LoadedInv
    <2>3. untracked' = {} /\ (pc' > CreatorAt' => "exists" \in vm')
      BY <1>1, <1>2, <1>3, <2>1 DEF LoadedInv
    <2>4. QED BY <2>2, <2>3 DEF LoadedInv
  <1>9. ProductInv'
    BY <1>1, <1>2, <1>6, OptionsConstant DEF ProductInv
  <1>10. PowerInv'
    <2>1. Due({"StepRun"}) => Due({"StepRun"})'
      BY <1>1, DueAfterNextStep
    <2>2. bag \subseteq bag'
      BY <1>4
    <2>3. QED BY <1>1, <1>2, <2>1, <2>2, OptionsConstant DEF PowerInv
  <1>11. ReasonInv'
    <2>1. /\ "halted" \in bag' => "halted" \in bag
          /\ "destroy_vm" \in bag' => "destroy_vm" \in bag
      BY <1>4
    <2>2. QED BY <1>1, <1>2, <2>1, OptionsConstant DEF ReasonInv
  <1>12. FinishedInv'
    <2> SUFFICES ASSUME ~Running', ~broke'
                 PROVE  /\ vm \cap {"on", "media", "floppy drive"} = {}
                        /\ "floppy" \notin files
                        /\ ImportsVM => "library item" \in outputs
                        /\ Opt("export") => "ovf" \in outputs
                        /\ \/ /\ "exists" \in vm
                              /\ Opt("create_snapshot") => "snapshot" \in vm
                              /\ Opt("convert_to_template") => "template" \in vm
                           \/ MayDestroy \/ ctxDone
      BY <1>2, OptionsConstant DEF FinishedInv
    <2>1. pc > Len(Steps)
      BY <1>4, <1>5
    <2>2. ~StopsNext /\ pc > CreatorAt /\ \A s : ~Pending(s)
      BY <1>3, <1>7, <2>1 DEF StopsNext
    <2>3. vm \cap {"on", "media", "floppy drive"} = {} /\ "floppy" \notin files
      BY <1>1, <1>2, <2>2 DEF LoadedInv
    <2>4. "exists" \in vm
      BY <1>1, <1>2, <2>2 DEF LoadedInv
    <2>5. QED BY <1>1, <1>2, <2>2, <2>3, <2>4 DEF ProductInv
  <1>13. QED BY <1>8, <1>9, <1>10, <1>11, <1>12 DEF PInv

\* Whoever interrupts the build and the guest that powers itself off.
LEMMA IntruderPInv ==
  ASSUME IInv, PInv, Cancel \/ RecordCancellation \/ GuestPowersOff
  PROVE  PInv'
  <1>1. LoadedInv /\ ProductInv /\ PowerInv /\ ReasonInv /\ FinishedInv
    BY DEF PInv
  <1>2. /\ UNCHANGED <<config, phase, pc, files, outputs, broke, untracked, cleanupFailed>>
        /\ ctxDone => ctxDone'
        /\ vm' \subseteq vm /\ vm \ {"on"} \subseteq vm'
        /\ bag' = bag \/ bag' = bag \cup {"cancelled"}
    BY DEF Cancel, RecordCancellation, GuestPowersOff, runner, world, history
  <1>3. Steps' = Steps /\ CreatorAt' = CreatorAt /\ (Running' <=> Running)
    BY <1>2, StepsConstant DEF Running
  <1>4. ASSUME NEW s, Pending(s) PROVE Pending(s)'
    <2>1. Running'
      BY <1>3, <1>4 DEF Pending
    <2>2. QED BY <1>2, <1>4, <2>1, PendingUnchanged
  <1>5. Due({"StepRun"}) => Due({"StepRun"})'
    BY <1>2, DueUnchanged
  <1>6. StopsNext => StopsNext'
    BY <1>2, <1>3 DEF StopsNext
  <1>7. LoadedInv'
    BY <1>1, <1>2, <1>3, <1>4, <1>6 DEF LoadedInv
  <1>8. ProductInv'
    BY <1>1, <1>2, <1>3, <1>4, OptionsConstant DEF ProductInv
  <1>9. PowerInv'
    BY <1>1, <1>2, <1>3, <1>5, OptionsConstant DEF PowerInv
  <1>10. ReasonInv'
    BY <1>1, <1>2, OptionsConstant DEF ReasonInv
  <1>11. FinishedInv'
    BY <1>1, <1>2, <1>3, OptionsConstant DEF FinishedInv
  <1>12. QED BY <1>7, <1>8, <1>9, <1>10, <1>11 DEF PInv

\* The end of Builder.Run and what comes after it.
LEMMA EndPInv ==
  ASSUME IInv, PInv,
         NothingToClean \/ Return \/ ArtifactDestroy \/ Terminated \/ UNCHANGED vars
  PROVE  PInv'
  <1> USE DEF vars, runner, world, history
  <1>1. LoadedInv /\ ProductInv /\ PowerInv /\ ReasonInv /\ FinishedInv
    BY DEF PInv
  <1>2. CASE NothingToClean \/ Return \/ ArtifactDestroy
    <2>1. /\ phase \in {"return", "done"} \/ (phase = "cleanup" /\ pc = 0)
          /\ phase' \in {"return", "done", "discarded"}
          /\ UNCHANGED <<config, bag, ctxDone, broke, files>>
          /\ vm' \subseteq vm /\ (cleanupFailed => cleanupFailed')
          /\ phase' # "discarded" => vm' = vm /\ outputs' = outputs
      BY <1>2 DEF NothingToClean, Return, ArtifactDestroy
    <2>2. ~Running /\ ~Running' /\ phase # "discarded"
      BY <2>1 DEF Running
    <2>3. ~Due({"StepRun"})
      BY <2>1, <2>2 DEF Due, Entered
    <2>4. LoadedInv' /\ ProductInv'
      BY <2>2 DEF LoadedInv, ProductInv
    <2>5. PowerInv'
      BY <1>1, <2>1, <2>2, <2>3, OptionsConstant DEF PowerInv
    <2>6. ReasonInv'
      BY <1>1, <2>1, OptionsConstant DEF ReasonInv
    <2>7. FinishedInv'
      BY <1>1, <2>1, <2>2, OptionsConstant DEF FinishedInv
    <2>8. QED BY <2>4, <2>5, <2>6, <2>7 DEF PInv
  <1>3. CASE Terminated \/ UNCHANGED vars
    <2>1. UNCHANGED vars
      BY <1>3 DEF Terminated
    <2>2. Steps' = Steps /\ CreatorAt' = CreatorAt /\ (Running' <=> Running)
      BY <2>1, StepsConstant DEF Running
    <2>3. ASSUME NEW s, Pending(s) PROVE Pending(s)'
      <3>1. Running'
        BY <2>2, <2>3 DEF Pending
      <3>2. QED BY <2>1, <2>3, <3>1, PendingUnchanged
    <2>4. Due({"StepRun"}) => Due({"StepRun"})'
      BY <2>1, DueUnchanged
    <2>5. StopsNext => StopsNext'
      BY <2>1, <2>2 DEF StopsNext
    <2>6. LoadedInv'
      BY <1>1, <2>1, <2>2, <2>3, <2>5 DEF LoadedInv
    <2>7. ProductInv'
      BY <1>1, <2>1, <2>2, <2>3, OptionsConstant DEF ProductInv
    <2>8. PowerInv'
      BY <1>1, <2>1, <2>2, <2>4, OptionsConstant DEF PowerInv
    <2>9. ReasonInv'
      BY <1>1, <2>1, OptionsConstant DEF ReasonInv
    <2>10. FinishedInv'
      BY <1>1, <2>1, <2>2, OptionsConstant DEF FinishedInv
    <2>11. QED BY <2>6, <2>7, <2>8, <2>9, <2>10 DEF PInv
  <1>4. QED BY <1>2, <1>3

LEMMA NextPInv == IInv /\ PInv /\ [Next]_vars => PInv'
  <1> SUFFICES ASSUME IInv, PInv, [Next]_vars PROVE PInv'
    OBVIOUS
  <1>1. \/ RunStep
        \/ CleanupStep /\ ~NothingToClean
        \/ NextStep
        \/ Cancel \/ RecordCancellation \/ GuestPowersOff
        \/ NothingToClean \/ Return \/ ArtifactDestroy \/ Terminated \/ UNCHANGED vars
    BY DEF Next, Builder, CleanupStep
  <1>2. QED BY <1>1, RunStepPInv, CleanupPInv, NextStepPInv, IntruderPInv, EndPInv

LEMMA ProductInvariance == Spec => [](IInv /\ PInv)
  <1>1. Init => IInv /\ PInv
    BY InitIInv, InitPInv
  <1>2. (IInv /\ PInv) /\ [Next]_vars => (IInv /\ PInv)'
    BY NextIInv, NextPInv
  <1>3. QED BY <1>1, <1>2, PTL DEF Spec

-----------------------------------------------------------------------------
(* The properties *)

\* When a clean-up is about to destroy the machine, the machine is off, in
\* every build of every configuration: the clean-up of StepRun, which powers it
\* off, runs before that of the step that created it, or has failed.
THEOREM ColdWhenDestroyed == Spec => []DestroysColdMachine
  <1>1. IInv /\ PInv => DestroysColdMachine
    <2> SUFFICES ASSUME IInv, PInv, CleaningUp({"StepCreateVM", "StepCloneVM"}),
                        "on" \in vm
                 PROVE  cleanupFailed
      BY DEF DestroysColdMachine
    <2>1. TypeOK /\ PowerInv
      BY DEF IInv, PInv
    <2>2. phase = "cleanup" /\ pc > 0 /\ Steps[pc] \in Creators
      BY DEF CleaningUp, Creators
    <2>3. /\ pc \in 1 .. Len(Steps) /\ Len(Steps) \in Nat /\ CreatorAt \in 2 .. Len(Steps)
      BY <2>1, <2>2, CounterType
    <2>4. \A i \in 1 .. Len(Steps) :
            /\ i = 1 => Steps[i] = "StepConnect"
            /\ i \in 2 .. CreatorAt - 1 => Steps[i] \in Early
            /\ i = CreatorAt => Steps[i] \in Creators
            /\ i > CreatorAt => Steps[i] \in Later
      BY <2>1, StepsShape DEF TypeOK
    <2>5. pc <= CreatorAt
      BY <2>2, <2>3, <2>4 DEF Later
    <2>6. \A i \in 1 .. pc : Steps[i] \in Early \cup Creators \cup {"StepConnect"}
      BY <2>3, <2>4, <2>5
    <2>7. \A i \in 1 .. pc : Steps[i] # "StepRun"
      BY <2>6 DEF Early, Creators
    <2>8. ~Due({"StepRun"})
      BY <2>2, <2>7 DEF Due, Entered
    <2>9. QED BY <2>1, <2>8 DEF PowerInv
  <1>2. QED BY ProductInvariance, <1>1, PTL

\* What a build that ran to its end returns is what its configuration asks for:
\* nothing temporary is left on the machine, every product is there, and the
\* machine itself is, unless its destruction was asked for or interrupted.
THEOREM ArtifactIsComplete == Spec => []CompleteArtifact
  <1>1. IInv /\ PInv => CompleteArtifact
    <2> SUFFICES ASSUME IInv, PInv, phase = "done", result = "artifact", ~broke
                 PROVE  CompleteArtifact
      BY DEF CompleteArtifact
    <2>1. ControlInv /\ PowerInv /\ FinishedInv
      BY DEF IInv, PInv
    <2>2. ~Running /\ ~Due({"StepRun"})
      BY DEF Running, Due
    <2>3. "temporary boot order" \notin vm
      BY <2>1, <2>2 DEF PowerInv, ControlInv
    <2>4. QED BY <2>1, <2>2, <2>3 DEF FinishedInv, CompleteArtifact, MayDestroy
  <1>2. QED BY ProductInvariance, <1>1, PTL

\* No step makes a snapshot, a template, a library item or an export of a
\* machine that runs or has a medium in its drives: the steps that unload it
\* come before, and an interrupted one stops the build.
THEOREM ColdProducts == Spec => ProductsAreCold
  <1> DEFINE Made == ((vm' \cup outputs') \ (vm \cup outputs))
                       \cap {"snapshot", "template", "library item", "ovf"}
             Cold == vm \cap {"on", "media", "floppy drive"} = {}
  <1>1. ASSUME IInv, PInv, [Next]_vars
        PROVE  Made # {} => Cold
    <2>1. TypeOK /\ LoadedInv
      BY <1>1 DEF IInv, PInv
    <2>2. CASE RunStep
      <3>1. phase = "step" /\ Running
        BY <2>1, <2>2, RunStepEffect DEF StepEffect, ControlEffect, Running
      <3>2. Made # {} => Steps[pc] \in Producers
        BY <2>1, <2>2, RunStepGrowth DEF GrowthEffect, MakeEffect
      <3>3. Steps[pc] \in Producers =>
              /\ ~Pending("StepShutdown") /\ ~Pending("StepRemoveCDRom")
              /\ ~Pending("StepRemoveFloppy")
        BY <2>1, <3>1, UnloadersFirst DEF Unloaders
      <3>4. ~StopsNext
        BY <3>1 DEF StopsNext
      <3>5. Steps[pc] \in Producers => Cold
        BY <2>1, <3>1, <3>3, <3>4 DEF LoadedInv
      <3>6. QED BY <3>2, <3>5
    <2>3. CASE CleanupStep /\ ~NothingToClean
      <3>1. vm' \subseteq vm /\ outputs' = outputs
        BY <2>1, <2>3, CleanupStepEffect DEF CleanupEffect
      <3>2. QED BY <3>1
    <2>4. CASE \/ NextStep \/ Cancel \/ RecordCancellation \/ GuestPowersOff
               \/ NothingToClean \/ Return \/ ArtifactDestroy \/ Terminated
               \/ UNCHANGED vars
      <3>1. vm' \subseteq vm /\ outputs' \subseteq outputs
        BY <2>4 DEF NextStep, Cancel, RecordCancellation, GuestPowersOff,
                    NothingToClean, Return, ArtifactDestroy, Terminated, vars, world
      <3>2. QED BY <3>1
    <2>5. QED BY <1>1, <2>2, <2>3, <2>4 DEF Next, Builder, CleanupStep
  <1>2. IInv /\ PInv /\ [Next]_vars => [Made # {} => Cold]_vars
    BY <1>1
  <1>3. QED BY ProductInvariance, <1>2, PTL DEF Spec, ProductsAreCold
=============================================================================
