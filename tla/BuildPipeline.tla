---------------------------- MODULE BuildPipeline ----------------------------
(***************************************************************************)
(* One build of the vsphere-iso or the vsphere-clone builder: the step      *)
(* list that Builder.Run assembles, the multistep runner that executes it   *)
(* while the context may be cancelled at any moment, what every step leaves *)
(* in the state bag and in vCenter, the clean-ups that run in reverse       *)
(* order, and what Builder.Run finally returns.                             *)
(*                                                                          *)
(* The state bag is the set of its keys: a key is in the set when the code  *)
(* has Put it and not removed it.  The virtual machine of the build is the  *)
(* set of facts that hold of it in vCenter; the empty set means that there  *)
(* is no such machine.  Every call to vCenter may fail, and a call that     *)
(* fails may still have taken effect.                                       *)
(***************************************************************************)
EXTENDS Naturals, Sequences

CONSTANT Configs        \* the decoded configurations a build may be given

Options ==
  { "communicator", "boot_order", "boot_command", "ip_wait", "http_ip_discover",
    "ssh_key_pair", "customize", "iso_paths", "cd_files", "floppy_files",
    "floppy_img_path", "remote_cache_cleanup", "reattach_cdroms",
    "create_snapshot", "convert_to_template", "content_library",
    "content_library_destroy", "skip_import", "export", "destroy", "force" }

ASSUME ConfigsAssumption ==
  Configs \subseteq [builder : {"iso", "clone"}, opts : SUBSET Options]

StepNames ==
  { "StepConnect", "StepResolveDatastore", "StepDownload", "StepCreateCD",
    "StepRemoteUpload", "StepCreateVM", "StepCloneVM", "StepConfigureHardware",
    "StepAddFlag", "StepAddCDRom", "StepConfigParams", "StepCustomize",
    "StepCreateFloppy", "StepAddFloppy", "StepApplyTags", "StepSetVApp",
    "StepHTTPIPDiscover", "StepHTTPServer", "StepSshKeyPair", "StepRun",
    "StepBootCommand", "StepWaitForIp", "StepConnectCommunicator",
    "StepProvision", "StepShutdown", "StepRemoveFloppy", "StepRemoveCDRom",
    "StepReattachCDRom", "StepRemoveNetworkAdapter", "StepRemoveVTPM",
    "StepCreateSnapshot", "StepConvertToTemplate",
    "StepImportToContentLibrary", "StepExport" }

\* Keys of the multistep state bag that decide what the code does.  The
\* malformed key is the one StepReattachCDRom puts when listing devices fails.
Keys ==
  { "driver", "vm", "destroy_vm", "cd_path", "uploaded_floppy_path", "ip",
    "error", "error listing cdrom devices: %v", "cancelled", "halted" }

\* Facts about the virtual machine of this build, as vCenter sees them.
VMFacts ==
  { "exists", "on", "temporary boot order", "floppy drive", "media",
    "snapshot", "template" }

\* What a build leaves behind besides the machine itself.
Outputs == {"library item", "ovf"}

VARIABLES
  config,         \* the configuration of this build
  phase,          \* where Builder.Run is: see TypeOK
  pc,             \* index of the step to run, running or to clean up
  ctxDone,        \* the context of Builder.Run has been cancelled
  bag,            \* keys present in the state bag
  vm,             \* facts that hold of the build's virtual machine
  files,          \* temporary images on the datastore: "cd", "floppy"
  session,        \* the driver has an open SOAP session with vCenter
  oldVM,          \* a machine of the configured name exists from before
  outputs,        \* what the late steps have produced
  result,         \* what Builder.Run has returned
  broke,          \* history: the runner left its loop early
  untracked,      \* history: resources created by a call that reported failure
  cleanupFailed   \* history: a vCenter call made by a clean-up has failed

runner == <<phase, pc, ctxDone, bag, broke>>
world == <<vm, files, session, oldVM, outputs>>
history == <<untracked, cleanupFailed>>
vars == <<config, runner, world, result, history>>

-----------------------------------------------------------------------------
(* The step lists of the two builders *)

Opt(o) == o \in config.opts

When(condition, steps) == IF condition THEN steps ELSE << >>

\* Mutant: the upload is put before the connection it needs.
MutantCreationSteps(builder) ==
  IF builder = "iso"
  THEN << "StepRemoteUpload", "StepConnect", "StepResolveDatastore",
          "StepDownload", "StepCreateCD", "StepCreateVM" >>
  ELSE << "StepRemoteUpload", "StepConnect", "StepResolveDatastore",
          "StepCreateCD", "StepCloneVM" >>

\* The steps up to the one that creates the machine.
CreationSteps(builder) ==
  IF builder = "iso"
  THEN << "StepConnect", "StepResolveDatastore", "StepDownload",
          "StepCreateCD", "StepRemoteUpload", "StepCreateVM" >>
  ELSE << "StepConnect", "StepResolveDatastore", "StepCreateCD",
          "StepRemoteUpload", "StepCloneVM" >>

\* The steps that follow it in the vsphere-iso builder.
IsoSteps(o) ==
  << "StepConfigureHardware", "StepAddFlag", "StepAddCDRom",
     "StepConfigParams", "StepCreateFloppy", "StepAddFloppy", "StepApplyTags",
     "StepSetVApp" >>
  \o When("http_ip_discover" \in o, << "StepHTTPIPDiscover" >>)
  \o << "StepHTTPServer" >>
  \o When("ssh_key_pair" \in o, << "StepSshKeyPair" >>)
  \o << "StepRun", "StepBootCommand" >>
  \o When("communicator" \in o,
          When("ip_wait" \in o, << "StepWaitForIp" >>)
          \o << "StepConnectCommunicator", "StepProvision" >>)
  \o << "StepShutdown", "StepRemoveFloppy", "StepRemoveCDRom",
        "StepReattachCDRom", "StepRemoveNetworkAdapter", "StepRemoveVTPM",
        "StepCreateSnapshot", "StepConvertToTemplate" >>
  \o When("content_library" \in o, << "StepImportToContentLibrary" >>)
  \o When("export" \in o, << "StepExport" >>)

\* The steps that follow it in the vsphere-clone builder.
CloneSteps(o) ==
  << "StepConfigureHardware", "StepAddFlag", "StepAddCDRom",
     "StepConfigParams" >>
  \o When("customize" \in o, << "StepCustomize" >>)
  \o When("communicator" \notin o, << "StepApplyTags" >>)
  \o When("communicator" \in o,
          << "StepCreateFloppy", "StepAddFloppy" >>
          \o When("http_ip_discover" \in o, << "StepHTTPIPDiscover" >>)
          \o << "StepHTTPServer", "StepSshKeyPair", "StepRun",
                "StepBootCommand" >>
          \o When("ip_wait" \in o, << "StepWaitForIp" >>)
          \o << "StepConnectCommunicator", "StepProvision", "StepApplyTags",
                "StepShutdown", "StepRemoveFloppy" >>)
  \o << "StepRemoveCDRom", "StepReattachCDRom", "StepRemoveVTPM",
        "StepCreateSnapshot", "StepRemoveNetworkAdapter",
        "StepConvertToTemplate" >>
  \o When("content_library" \in o, << "StepImportToContentLibrary" >>)
  \o When("export" \in o, << "StepExport" >>)

BuildSteps(c) == IF c.builder = "iso" THEN IsoSteps(c.opts) ELSE CloneSteps(c.opts)

Steps == CreationSteps(config.builder) \o BuildSteps(config)

Init ==
  /\ config \in Configs
  /\ phase = "loop"
  /\ pc = 1
  /\ ctxDone = FALSE
  /\ bag = {}
  /\ vm = {}
  /\ files = {}
  /\ session = FALSE
  /\ oldVM \in BOOLEAN
  /\ outputs = {}
  /\ result = "pending"
  /\ broke = FALSE
  /\ untracked = {}
  /\ cleanupFailed = FALSE

-----------------------------------------------------------------------------
(* The multistep runner *)

\* The user interrupts Packer: the context is cancelled.
Cancel ==
  /\ ~ctxDone
  /\ phase \in {"loop", "step", "cleanup"}
  /\ ctxDone' = TRUE
  /\ UNCHANGED <<config, phase, pc, bag, broke, world, result, history>>

\* The goroutine of the runner that records the cancellation in the bag.  It
\* runs until the clean-ups are over, at its own pace.
RecordCancellation ==
  /\ ctxDone
  /\ "cancelled" \notin bag
  /\ phase \in {"loop", "step", "cleanup"}
  /\ bag' = bag \cup {"cancelled"}
  /\ UNCHANGED <<config, phase, pc, ctxDone, broke, world, result, history>>

\* The top of the runner's loop: stop if the context is done, stop if there is
\* no step left, enter the next step otherwise.
NextStep ==
  /\ phase = "loop"
  /\ IF pc > Len(Steps)
     THEN /\ phase' = "cleanup" /\ pc' = pc - 1
          /\ UNCHANGED <<bag, broke>>
     ELSE IF ctxDone
     THEN /\ phase' = "cleanup" /\ pc' = pc - 1
          /\ bag' = bag \cup {"cancelled"} /\ broke' = TRUE
     ELSE /\ phase' = "step"
          /\ UNCHANGED <<pc, bag, broke>>
  /\ UNCHANGED <<config, ctxDone, world, result, history>>

At(s) == phase = "step" /\ Steps[pc] = s

\* A step returns, leaving the bag as b.  The runner registers its clean-up
\* and looks at the cancellation key before the returned action.
Continues(b) ==
  /\ bag' = b
  /\ IF "cancelled" \in b
     THEN phase' = "cleanup" /\ broke' = TRUE /\ UNCHANGED pc
     ELSE phase' = "loop" /\ pc' = pc + 1 /\ UNCHANGED broke
  /\ UNCHANGED <<config, ctxDone, result, cleanupFailed>>

Halts(b) ==
  /\ bag' = IF "cancelled" \in b THEN b ELSE b \cup {"halted"}
  /\ phase' = "cleanup"
  /\ broke' = TRUE
  /\ UNCHANGED <<config, pc, ctxDone, result, cleanupFailed>>

Fails(b) == Halts(b \cup {"error"})

\* A step that only reads, or that changes what no property here depends on.
Plain(s) ==
  /\ At(s)
  /\ Continues(bag) \/ Fails(bag)
  /\ UNCHANGED <<world, untracked>>

-----------------------------------------------------------------------------
(* Steps up to the creation of the machine *)

\* Mutant: the driver is put under a misspelled key.
MutantStepConnect ==
  /\ At("StepConnect")
  /\ session' = TRUE /\ Continues(bag \cup {"vcenter driver"})
  /\ UNCHANGED <<untracked, vm, files, oldVM, outputs>>

\* NewDriver logs in to SOAP, then to REST, then looks the datacenter up; when
\* it fails after the first login the session it opened belongs to nobody.
StepConnect ==
  /\ At("StepConnect")
  /\ \/ session' = TRUE /\ Continues(bag \cup {"driver"}) /\ UNCHANGED untracked
     \/ Fails(bag) /\ UNCHANGED <<session, untracked>>
     \/ session' = TRUE /\ untracked' = untracked \cup {"session"} /\ Fails(bag)
  /\ UNCHANGED <<vm, files, oldVM, outputs>>

StepResolveDatastore == Plain("StepResolveDatastore")

StepDownload == Plain("StepDownload")

StepCreateCD == Plain("StepCreateCD")

\* The image made from cd_files is uploaded under a fresh name; the boot ISO
\* stays in the remote cache and is not the build's to delete.
StepRemoteUpload ==
  /\ At("StepRemoteUpload")
  /\ \/ /\ files' = IF Opt("cd_files") THEN files \cup {"cd"} ELSE files
        /\ Continues(IF Opt("cd_files") THEN bag \cup {"cd_path"} ELSE bag)
        /\ UNCHANGED untracked
     \/ /\ UNCHANGED <<files, untracked>>
        /\ Fails(bag)
     \/ /\ Opt("cd_files")
        /\ files' = files \cup {"cd"}
        /\ untracked' = untracked \cup {"cd"}
        /\ Fails(bag)
  /\ UNCHANGED <<vm, session, oldVM, outputs>>

\* PreCleanVM returns nil: the name is free, or -force has removed its owner.
PreCleanVM ==
  /\ oldVM => Opt("force")
  /\ oldVM' = FALSE

\* PreCleanVM, the placement lookups or the creating call fail.  A creating
\* call that reports failure (a dropped connection, a cancelled wait, a result
\* of the wrong type, a failed configuration of the deployed machine) may have
\* left a machine that the bag never learns of.
CreationFails ==
  /\ \/ UNCHANGED <<oldVM, vm, untracked>>
     \/ PreCleanVM /\ UNCHANGED <<vm, untracked>>
     \/ PreCleanVM /\ vm' = {"exists"} /\ untracked' = untracked \cup {"vm"}
  /\ Fails(bag)

CreationSucceeds ==
  /\ PreCleanVM
  /\ vm' = {"exists"}
  /\ Continues(bag \cup {"vm"} \cup (IF Opt("destroy") THEN {"destroy_vm"} ELSE {}))
  /\ UNCHANGED untracked

StepCreateVM ==
  /\ At("StepCreateVM")
  /\ CreationSucceeds \/ CreationFails
  /\ UNCHANGED <<files, session, outputs>>

\* Whatever the source (template, content library item, OVF), a deployment that
\* returns neither a machine nor an error is turned into an error.
StepCloneVM ==
  /\ At("StepCloneVM")
  /\ CreationSucceeds \/ CreationFails
  /\ UNCHANGED <<files, session, outputs>>

-----------------------------------------------------------------------------
(* Steps between the creation of the machine and its shutdown *)

StepConfigureHardware == Plain("StepConfigureHardware")

StepAddFlag == Plain("StepAddFlag")

\* Every ISO path becomes a CD-ROM device, one call after the other.
StepAddCDRom ==
  /\ At("StepAddCDRom")
  /\ LET mounts == Opt("iso_paths") \/ "cd_path" \in bag
         loaded == IF mounts THEN vm \cup {"media"} ELSE vm
     IN \/ vm' = loaded /\ Continues(bag)
        \/ vm' \in {vm, loaded} /\ Fails(bag)
  /\ UNCHANGED <<files, session, oldVM, outputs, untracked>>

StepConfigParams == Plain("StepConfigParams")

StepCustomize == Plain("StepCustomize")

StepCreateFloppy == Plain("StepCreateFloppy")

\* The key is put between the upload and the attachment, so that a failing
\* attachment leaves an image the clean-up knows of.  An image that is on the
\* datastore already is attached without being uploaded.
StepAddFloppy ==
  /\ At("StepAddFloppy")
  /\ \/ /\ ~Opt("floppy_files")
        /\ vm' = IF Opt("floppy_img_path") THEN vm \cup {"floppy drive"} ELSE vm
        /\ Continues(bag)
        /\ UNCHANGED <<files, untracked>>
     \/ /\ Opt("floppy_files") \/ Opt("floppy_img_path")
        /\ vm' = vm \/ (~Opt("floppy_files") /\ vm' = vm \cup {"floppy drive"})
        /\ Fails(bag)
        /\ UNCHANGED <<files, untracked>>
     \/ /\ Opt("floppy_files")
        /\ files' = files \cup {"floppy"}
        /\ \/ /\ vm' = vm \cup {"floppy drive"}
              /\ Continues(bag \cup {"uploaded_floppy_path"})
              /\ UNCHANGED untracked
           \/ /\ vm' \in {vm, vm \cup {"floppy drive"}}
              /\ Fails(bag \cup {"uploaded_floppy_path"})
              /\ UNCHANGED untracked
           \/ /\ UNCHANGED vm
              /\ Fails(bag)
              /\ untracked' = untracked \cup {"floppy"}
  /\ UNCHANGED <<session, oldVM, outputs>>

StepApplyTags == Plain("StepApplyTags")

StepSetVApp == Plain("StepSetVApp")

StepHTTPIPDiscover == Plain("StepHTTPIPDiscover")

StepHTTPServer == Plain("StepHTTPServer")

StepSshKeyPair == Plain("StepSshKeyPair")

\* SetOrder is true for vsphere-iso only.
TemporaryBootOrder == config.builder = "iso" /\ ~Opt("boot_order")

StepRun ==
  /\ At("StepRun")
  /\ LET ordered == IF TemporaryBootOrder THEN vm \cup {"temporary boot order"} ELSE vm
     IN \/ vm' = ordered \cup {"on"} /\ Continues(bag)
        \/ vm' \in {vm, ordered, ordered \cup {"on"}} /\ Fails(bag)
  /\ UNCHANGED <<files, session, oldVM, outputs, untracked>>

\* An interrupt while waiting for the boot halts the build without an error.
StepBootCommand ==
  /\ At("StepBootCommand")
  /\ \/ Continues(bag)
     \/ Opt("boot_command") /\ Fails(bag)
     \/ Opt("boot_command") /\ ctxDone /\ Halts(bag)
  /\ UNCHANGED <<world, untracked>>

\* The wait ends with an address, with an error (the overall timeout included)
\* or with an interrupt, which halts the build without an error.
StepWaitForIp ==
  /\ At("StepWaitForIp")
  /\ \/ Continues(bag \cup {"ip"})
     \/ Fails(bag)
     \/ ctxDone /\ Halts(bag)
  /\ UNCHANGED <<world, untracked>>

\* communicator.StepConnect and StepProvision of the SDK: both halt without an
\* error when they are interrupted.
InterruptibleSdkStep(s) ==
  /\ At(s)
  /\ Continues(bag) \/ Fails(bag) \/ (ctxDone /\ Halts(bag))
  /\ UNCHANGED <<world, untracked>>

StepConnectCommunicator == InterruptibleSdkStep("StepConnectCommunicator")

StepProvision == InterruptibleSdkStep("StepProvision")

\* The guest may shut itself down at any time while it runs.
GuestPowersOff ==
  /\ "on" \in vm
  /\ phase \in {"loop", "step", "cleanup"}
  /\ vm' = vm \ {"on"}
  /\ UNCHANGED <<config, runner, files, session, oldVM, outputs, result, history>>

\* Mutant: the end of shutdown_timeout is no error either.
MutantShutdownTimeout ==
  /\ At("StepShutdown")
  /\ vm' \in {vm, vm \ {"on"}} /\ Continues(bag)
  /\ UNCHANGED <<files, session, oldVM, outputs, untracked>>

\* Mutant: there is no shutdown_timeout.
MutantShutdownForever ==
  /\ At("StepShutdown")
  /\ "on" \notin vm /\ Continues(bag)
  /\ UNCHANGED <<world, untracked>>

\* WaitForShutdown returns nil when the context is done, whatever the power
\* state: the step then continues with a machine that still runs.
StepShutdown ==
  /\ At("StepShutdown")
  /\ \/ vm' = vm \ {"on"} /\ Continues(bag)
     \/ ctxDone /\ UNCHANGED vm /\ Continues(bag)
     \/ UNCHANGED vm /\ Fails(bag)
  /\ UNCHANGED <<files, session, oldVM, outputs, untracked>>

-----------------------------------------------------------------------------
(* Steps after the shutdown *)

\* The drives go first, then the uploaded image, then its key; a deletion that
\* fails leaves the key for the clean-up of StepAddFloppy.
StepRemoveFloppy ==
  /\ At("StepRemoveFloppy")
  /\ LET removed == vm \ {"floppy drive"}
     IN \/ vm' \in {vm, removed} /\ Fails(bag) /\ UNCHANGED files
        \/ /\ "uploaded_floppy_path" \notin bag
           /\ vm' = removed /\ Continues(bag) /\ UNCHANGED files
        \/ /\ "uploaded_floppy_path" \in bag
           /\ vm' = removed /\ files' = files \ {"floppy"}
           /\ Continues(bag \ {"uploaded_floppy_path"}) \/ Fails(bag)
  /\ UNCHANGED <<session, oldVM, outputs, untracked>>

\* Mutant: the error is not put in the bag.
MutantEjectsMedia(b) ==
  \/ vm' = vm \ {"media"} /\ Continues(b)
  \/ vm' \in {vm, vm \ {"media"}} /\ Halts(b)

EjectsMedia(b) ==
  \/ vm' = vm \ {"media"} /\ Continues(b)
  \/ vm' \in {vm, vm \ {"media"}} /\ Fails(b)

StepRemoveCDRom ==
  /\ At("StepRemoveCDRom")
  /\ EjectsMedia(bag)
  /\ UNCHANGED <<files, session, oldVM, outputs, untracked>>

\* When the listing of the devices fails the step halts, but the error goes in
\* the bag under the text of a format string.
StepReattachCDRom ==
  /\ At("StepReattachCDRom")
  /\ \/ ~Opt("reattach_cdroms") /\ Continues(bag) /\ UNCHANGED vm
     \/ Opt("reattach_cdroms") /\ EjectsMedia(bag)
     \/ /\ Opt("reattach_cdroms") /\ UNCHANGED vm
        /\ Halts(bag \cup {"error listing cdrom devices: %v"})
  /\ UNCHANGED <<files, session, oldVM, outputs, untracked>>

StepRemoveNetworkAdapter == Plain("StepRemoveNetworkAdapter")

StepRemoveVTPM == Plain("StepRemoveVTPM")

\* A step that gives the machine one more fact when the option o asks for it.
MarksVM(o, fact) ==
  /\ \/ ~Opt(o) /\ Continues(bag) /\ UNCHANGED vm
     \/ Opt(o) /\ vm' = vm \cup {fact} /\ Continues(bag)
     \/ Opt(o) /\ vm' \in {vm, vm \cup {fact}} /\ Fails(bag)
  /\ UNCHANGED <<files, session, oldVM, outputs, untracked>>

StepCreateSnapshot ==
  At("StepCreateSnapshot") /\ MarksVM("create_snapshot", "snapshot")

StepConvertToTemplate ==
  At("StepConvertToTemplate") /\ MarksVM("convert_to_template", "template")

\* The boot order is cleared before the import.  The request to destroy the
\* machine is recorded as soon as the import is done, and the lookups that
\* follow for the metadata can still fail the build.
StepImportToContentLibrary ==
  /\ At("StepImportToContentLibrary")
  /\ LET cleared == vm \ {"temporary boot order"}
         imported == outputs \cup {"library item"}
         destroyed == IF Opt("content_library_destroy")
                      THEN bag \cup {"destroy_vm"} ELSE bag
     IN \/ Opt("skip_import") /\ Continues(bag) /\ UNCHANGED <<vm, outputs>>
        \/ /\ ~Opt("skip_import")
           /\ \/ vm' \in {vm, cleared} /\ Fails(bag) /\ UNCHANGED outputs
              \/ vm' = cleared /\ outputs' = imported /\ Fails(bag)
              \/ /\ vm' = cleared /\ outputs' = imported
                 /\ Continues(destroyed) \/ Fails(destroyed)
  /\ UNCHANGED <<files, session, oldVM, untracked>>

StepExport ==
  /\ At("StepExport")
  /\ \/ outputs' = outputs \cup {"ovf"} /\ Continues(bag)
     \/ UNCHANGED outputs /\ Fails(bag)
  /\ UNCHANGED <<vm, files, session, oldVM, untracked>>

-----------------------------------------------------------------------------
(* The clean-ups, in reverse order of the steps *)

\* Mutant: the clean-ups do not look at the cancellation.
MutantStopped == "halted" \in bag

Stopped == bag \cap {"cancelled", "halted"} # {}

\* Mutants: a build that halted keeps its machine; the machine always goes.
MutantHaltedKeepsVM == "vm" \in bag /\ bag \cap {"cancelled", "destroy_vm"} # {}

MutantAlwaysDestroy == "vm" \in bag

DestroyDue == "vm" \in bag /\ (Stopped \/ "destroy_vm" \in bag)

\* The next clean-up, or the end of the runner after that of the first step.
Cleaned ==
  /\ IF pc = 1 THEN phase' = "return" /\ pc' = 0
               ELSE pc' = pc - 1 /\ UNCHANGED phase
  /\ UNCHANGED <<config, ctxDone, broke, result, untracked>>

CleaningUp(S) == phase = "cleanup" /\ pc > 0 /\ Steps[pc] \in S

\* Mutant: the boot order of a successful build is left alone.
MutantStepRunCleanup ==
  /\ CleaningUp({"StepRun"})
  /\ vm' = IF Stopped THEN vm \ {"on", "temporary boot order"} ELSE vm
  /\ Cleaned
  /\ UNCHANGED <<bag, files, session, oldVM, outputs, cleanupFailed>>

StepRunCleanup ==
  /\ CleaningUp({"StepRun"})
  /\ LET cleared == IF TemporaryBootOrder THEN vm \ {"temporary boot order"} ELSE vm
     IN \/ \* clearing the boot order fails: the machine is not powered off
           /\ TemporaryBootOrder
           /\ bag' = bag \cup {"error"} /\ cleanupFailed' = TRUE
           /\ vm' \in {vm, cleared}
        \/ /\ ~Stopped
           /\ vm' = cleared
           /\ UNCHANGED <<bag, cleanupFailed>>
        \/ /\ Stopped
           /\ vm' = cleared \ {"on"}
           /\ UNCHANGED <<bag, cleanupFailed>>
        \/ /\ Stopped
           /\ cleanupFailed' = TRUE
           /\ vm' \in {cleared, cleared \ {"on"}}
           /\ UNCHANGED bag
  /\ Cleaned
  /\ UNCHANGED <<files, session, oldVM, outputs>>

StepAddFloppyCleanup ==
  /\ CleaningUp({"StepAddFloppy"})
  /\ \/ /\ ~(Stopped /\ "uploaded_floppy_path" \in bag)
        /\ UNCHANGED <<bag, files, cleanupFailed>>
     \/ /\ Stopped /\ "uploaded_floppy_path" \in bag
        /\ files' = files \ {"floppy"}
        /\ UNCHANGED <<bag, cleanupFailed>>
     \/ /\ Stopped /\ "uploaded_floppy_path" \in bag
        /\ bag' = bag \cup {"error"} /\ cleanupFailed' = TRUE
        /\ UNCHANGED files
  /\ Cleaned
  /\ UNCHANGED <<vm, session, oldVM, outputs>>

\* The vsphere-clone builder has no such option.
RemoteCacheCleanup == config.builder = "iso" /\ Opt("remote_cache_cleanup")

StepRemoteUploadCleanup ==
  /\ CleaningUp({"StepRemoteUpload"})
  /\ LET due == "cd_path" \in bag /\ (Stopped \/ RemoteCacheCleanup)
     IN \/ ~due /\ UNCHANGED <<files, cleanupFailed>>
        \/ due /\ files' = files \ {"cd"} /\ UNCHANGED cleanupFailed
        \/ due /\ cleanupFailed' = TRUE /\ UNCHANGED files
  /\ Cleaned
  /\ UNCHANGED <<bag, vm, session, oldVM, outputs>>

\* The clean-up of StepCreateVM and of StepCloneVM.  vCenter does not destroy a
\* machine that is powered on; a failure is printed and nothing else.
CleanupVM ==
  /\ CleaningUp({"StepCreateVM", "StepCloneVM"})
  /\ \/ ~DestroyDue /\ UNCHANGED <<vm, cleanupFailed>>
     \/ DestroyDue /\ "on" \notin vm /\ vm' = {} /\ UNCHANGED cleanupFailed
     \/ DestroyDue /\ cleanupFailed' = TRUE /\ UNCHANGED vm
  /\ Cleaned
  /\ UNCHANGED <<bag, files, session, oldVM, outputs>>

StepConnectCleanup ==
  /\ CleaningUp({"StepConnect"})
  /\ \/ "driver" \notin bag /\ UNCHANGED <<session, cleanupFailed>>
     \/ "driver" \in bag /\ session' = FALSE /\ UNCHANGED cleanupFailed
     \/ "driver" \in bag /\ cleanupFailed' = TRUE /\ UNCHANGED session
  /\ Cleaned
  /\ UNCHANGED <<bag, vm, files, oldVM, outputs>>

\* The clean-ups of the other steps touch nothing that is modelled.
NoCleanup ==
  /\ CleaningUp(StepNames \ { "StepConnect", "StepRemoteUpload", "StepCreateVM",
                              "StepCloneVM", "StepAddFloppy", "StepRun" })
  /\ Cleaned
  /\ UNCHANGED <<bag, world, cleanupFailed>>

\* The runner's loop may stop before the first step.
NothingToClean ==
  /\ phase = "cleanup" /\ pc = 0
  /\ phase' = "return"
  /\ UNCHANGED <<config, pc, ctxDone, bag, broke, world, result, history>>

-----------------------------------------------------------------------------
(* The end of Builder.Run, and what is later done with the artifact *)

Return ==
  /\ phase = "return"
  /\ phase' = "done"
  /\ result' = IF "error" \in bag THEN "error"
               ELSE IF "vm" \notin bag THEN "nil" ELSE "artifact"
  /\ UNCHANGED <<config, pc, ctxDone, bag, broke, world, history>>

\* Packer discards an artifact that a post-processor has replaced.  Destroying
\* the machine takes the driver's session; the removal of the exported files and
\* the destruction may each fail, which is logged, and nil is returned.
ArtifactDestroy ==
  /\ phase = "done" /\ result = "artifact"
  /\ phase' = "discarded"
  /\ outputs' \in {outputs, outputs \ {"ovf"}}
  /\ Opt("export") \/ UNCHANGED outputs
  /\ \/ session /\ "on" \notin vm /\ vm' = {} /\ UNCHANGED cleanupFailed
     \/ session /\ cleanupFailed' = TRUE /\ UNCHANGED vm
     \/ ~session /\ UNCHANGED <<vm, cleanupFailed>>
  /\ UNCHANGED <<config, pc, ctxDone, bag, broke, files, session, oldVM, result,
                 untracked>>

Terminated == phase \in {"done", "discarded"} /\ UNCHANGED vars

RunStep ==
  \/ StepConnect \/ StepResolveDatastore \/ StepDownload \/ StepCreateCD
  \/ StepRemoteUpload \/ StepCreateVM \/ StepCloneVM \/ StepConfigureHardware
  \/ StepAddFlag \/ StepAddCDRom \/ StepConfigParams \/ StepCustomize
  \/ StepCreateFloppy \/ StepAddFloppy \/ StepApplyTags \/ StepSetVApp
  \/ StepHTTPIPDiscover \/ StepHTTPServer \/ StepSshKeyPair \/ StepRun
  \/ StepBootCommand \/ StepWaitForIp \/ StepConnectCommunicator
  \/ StepProvision \/ StepShutdown \/ StepRemoveFloppy \/ StepRemoveCDRom
  \/ StepReattachCDRom \/ StepRemoveNetworkAdapter \/ StepRemoveVTPM
  \/ StepCreateSnapshot \/ StepConvertToTemplate
  \/ StepImportToContentLibrary \/ StepExport

CleanupStep ==
  \/ StepRunCleanup \/ StepAddFloppyCleanup \/ CleanupVM
  \/ StepRemoteUploadCleanup \/ StepConnectCleanup \/ NoCleanup
  \/ NothingToClean

Builder == NextStep \/ RunStep \/ CleanupStep \/ Return

Next ==
  \/ Builder \/ Cancel \/ RecordCancellation \/ GuestPowersOff
  \/ ArtifactDestroy \/ Terminated

Spec == Init /\ [][Next]_vars

\* Builder.Run is one goroutine that nothing blocks for ever.
FairSpec == Spec /\ WF_vars(Builder)

-----------------------------------------------------------------------------
(* Properties *)

\* Type invariant.
TypeOK ==
  /\ config \in Configs
  /\ phase \in {"loop", "step", "cleanup", "return", "done", "discarded"}
  /\ pc \in 0 .. Len(Steps) + 1
  /\ phase = "step" => pc \in 1 .. Len(Steps)
  /\ phase = "loop" => pc >= 1
  /\ phase = "cleanup" => pc <= Len(Steps)
  /\ bag \subseteq Keys
  /\ vm \subseteq VMFacts
  /\ files \subseteq {"cd", "floppy"}
  /\ outputs \subseteq Outputs
  /\ untracked \subseteq {"vm", "cd", "floppy", "session"}
  /\ ctxDone \in BOOLEAN /\ session \in BOOLEAN /\ oldVM \in BOOLEAN
  /\ broke \in BOOLEAN /\ cleanupFailed \in BOOLEAN
  /\ result \in {"pending", "error", "nil", "artifact"}

\* When Builder.Run has returned after stopping early, at whatever step and for
\* whatever reason, the machine, the uploaded images and the session are gone,
\* except what a failing vCenter call created without telling the builder, or a
\* failing clean-up could not remove.  This is the promise of the Cleanup
\* methods of the steps taken together with the keys they look for.
LeavesNothingBehind ==
  phase = "done" /\ ~cleanupFailed =>
    /\ session => "session" \in untracked
    /\ broke => /\ "exists" \in vm => "vm" \in untracked
                /\ files \subseteq untracked

\* The steps that assert the type of "vm" or "driver", themselves or when they are
\* cleaned up (StepSshKeyPair only if it makes a key pair).
VMReaders ==
  { "StepConfigureHardware", "StepAddFlag", "StepAddCDRom", "StepConfigParams",
    "StepCustomize", "StepAddFloppy", "StepApplyTags", "StepSetVApp", "StepSshKeyPair", "StepRun",
    "StepBootCommand", "StepWaitForIp", "StepShutdown", "StepRemoveFloppy",
    "StepRemoveCDRom", "StepReattachCDRom", "StepRemoveNetworkAdapter",
    "StepRemoveVTPM", "StepCreateSnapshot", "StepConvertToTemplate",
    "StepImportToContentLibrary", "StepExport" }

DriverReaders ==
  { "StepResolveDatastore", "StepDownload", "StepRemoteUpload", "StepCreateVM",
    "StepCloneVM", "StepAddFloppy", "StepApplyTags", "StepRemoveFloppy" }

\* A step or a clean-up only asserts the type of a value that is in the state
\* bag: state.Get("vm").(*driver.VirtualMachineDriver) panics otherwise.
RequiredKeysPresent ==
  phase \in {"step", "cleanup"} /\ pc > 0 =>
    /\ Steps[pc] \in VMReaders => "vm" \in bag
    /\ Steps[pc] \in DriverReaders => "driver" \in bag

\* When a clean-up is about to destroy the machine, it has been powered off:
\* by StepShutdown, or by the clean-up of StepRun, which runs before.
DestroysColdMachine ==
  CleaningUp({"StepCreateVM", "StepCloneVM"}) /\ DestroyDue /\ "on" \in vm
    => cleanupFailed

\* Nobody interrupted the build and it stopped early: Builder.Run returns an
\* error.  The one key that StepReattachCDRom misspells is excepted here.
UninterruptedFailureReported ==
  phase = "done" /\ broke /\ ~ctxDone
  /\ "error listing cdrom devices: %v" \notin bag => result = "error"

ImportsVM == Opt("content_library") /\ ~Opt("skip_import")

\* The artifact of a build that ran to its end is what the configuration asks
\* for: everything temporary is off the machine, every product is there, and
\* the machine is missing only if its destruction was asked for.
CompleteArtifact ==
  phase = "done" /\ result = "artifact" /\ ~broke =>
    /\ vm \cap {"on", "media", "floppy drive", "temporary boot order"} = {}
    /\ "floppy" \notin files
    /\ ImportsVM => "library item" \in outputs
    /\ Opt("export") => "ovf" \in outputs
    /\ \/ /\ "exists" \in vm
          /\ Opt("create_snapshot") => "snapshot" \in vm
          /\ Opt("convert_to_template") => "template" \in vm
       \/ Opt("destroy") \/ (ImportsVM /\ Opt("content_library_destroy")) \/ ctxDone

\* Snapshot, template, library item and export are made of a machine that is
\* powered off and has no installation medium left in its drives.
ProductsAreCold ==
  [][ ((vm' \cup outputs') \ (vm \cup outputs))
        \cap {"snapshot", "template", "library item", "ovf"} # {}
      => vm \cap {"on", "media", "floppy drive"} = {} ]_vars

\* Whatever fails and whenever it is interrupted, Builder.Run returns.
BuildReturns == <>(result # "pending")

\* What Packer is promised about the image: BuildContract, of which the build
\* is an implementation.
Image == IF "exists" \in vm THEN "present"
         ELSE IF "vm" \in bag THEN "gone" ELSE "none"

StopRequested == bag \cap {"cancelled", "halted", "destroy_vm"} # {}

Contract == INSTANCE BuildContract WITH
  image <- Image, stop <- StopRequested, outcome <- result

ImplementsContract == Contract!FairSpec

\* iso/builder.go:40: "Returns a finalized artifact or an error if the build
\* process fails."
FinalizedArtifactOrError == phase = "done" /\ broke => result # "artifact"

\* The same, of the builds that nobody interrupted.
UninterruptedFinalizedOrError ==
  phase = "done" /\ broke /\ ~ctxDone => result # "artifact"

\* common/artifact.go:122: "Destroy removes the output directory (if any) and
\* destroys the source virtual machine."
ArtifactDestroysMachine ==
  phase = "discarded" /\ ~broke /\ ~cleanupFailed => vm = {}
=============================================================================
