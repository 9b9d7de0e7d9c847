--------------------------- MODULE SupervisorBuild ---------------------------
(***************************************************************************)
(* One build of the vsphere-supervisor builder.  Its steps create           *)
(* Kubernetes objects in a namespace that other users share, and wait for   *)
(* the controllers of the Supervisor cluster to act on them; the clean-ups  *)
(* delete the objects again.                                                *)
(*                                                                          *)
(* A request to the API server may be refused, and a creation that reports  *)
(* failure may have taken effect.  A wait ends with the event it waits for, *)
(* or with an error: its deadline, an interrupt, a watch that could not be  *)
(* opened or that the server closed.  (The waits for the machine and for    *)
(* its console ignore a closed watch and spin until their deadline.)        *)
(***************************************************************************)
EXTENDS Naturals, Sequences

CONSTANTS
  Configs,   \* the decoded configurations a build may be given
  Foreign    \* sets of objects that other users may hold under our names

Options ==
  { "import", "image_name", "publish_location", "keep_input_artifact",
    "keep_import_request", "clean_imported_image", "tags" }

\* The objects a build deals with, one of each kind.  All but the import
\* request and the image are named after the source machine.
SourceObjects == {"disk", "secret", "vm", "service"}
Objects ==
  SourceObjects \cup {"importRequest", "consoleRequest", "publishRequest", "image"}

ASSUME ConfigsAssumption ==
  /\ Configs \subseteq [communicator : {"none", "ssh", "winrm"}, opts : SUBSET Options]
  /\ Foreign \subseteq SUBSET (Objects \ {"image"})

ImageTypes == {"ISO", "OVF", "unsupported"}

\* The state-bag key a step puts once it has created the object.
Flag ==
  [ importRequest  |-> "item_import_req_created",
    disk           |-> "iso_boot_disk_pvc_created",
    secret         |-> "ovf_bootstrap_secret_created",
    vm             |-> "vm_created",
    service        |-> "vm_service_created",
    publishRequest |-> "vm_pub_req_created" ]

ConnectionStates == {"kube_client", "supervisor_namespace"}
SourceStates == {"source_name", "keep_input_artifact"}

Keys ==
  {Flag[k] : k \in DOMAIN Flag} \cup ConnectionStates \cup SourceStates
  \cup { "publish_location_name", "imported_image_name", "vm_image_type",
         "vm_ip", "ip", "error" }

\* What the initStep of a step looks for in the state bag.
RequiredStates ==
  [ StepValidatePublish |-> ConnectionStates,
    StepImportImage     |-> ConnectionStates,
    StepCreateSource    |-> ConnectionStates,
    StepWatchSource     |-> ConnectionStates \cup {"source_name", "vm_image_type"},
    StepPublishSource   |-> ConnectionStates \cup SourceStates
                            \cup {"publish_location_name"} ]

\* Where a step waits for something that happens in the cluster.
Waits == {"watch import", "watch vm", "watch console", "wait ingress", "watch publish"}

Places ==
  Waits \cup {"start", "create disk", "create secret", "create vm",
              "create service", "create console"}

VARIABLES
  config,        \* the configuration of this build
  phase,         \* where Builder.Run is: loop, step, cleanup, return, done
  pc,            \* index of the step to run, running or to clean up
  at,            \* where the running step is
  ctxDone,       \* the context of Builder.Run has been cancelled
  bag,           \* keys present in the state bag
  broke,         \* the runner left its loop early
  panicking,     \* the goroutine of the build is unwinding from a panic
  imageType,     \* vm_image_type, or "unknown"
  seen,          \* stage of the machine in the last event of its watch
  fields,        \* fields and locals of steps that have been set
  owner,         \* who holds each object: "nobody", "packer" or "other"
  stage,         \* how far the controllers have brought each object
  published,     \* the published image is in the content library
  result,        \* what Builder.Run has returned
  untracked,     \* history: objects created by a call that reported failure
  undeleted,     \* history: objects whose deletion failed in a clean-up
  provisioned    \* history: the provisioners ran to their end

runner == <<phase, pc, ctxDone, broke, panicking>>
local == <<imageType, seen, fields>>
cluster == <<owner, stage, published>>
history == <<untracked, undeleted, provisioned>>
vars == <<config, runner, at, bag, local, cluster, result, history>>

Opt(o) == o \in config.opts

When(condition, steps) == IF condition THEN steps ELSE << >>

Communicates == config.communicator # "none"

\* Mutant: the machine is published before it is provisioned.
MutantSteps ==
  When(config.communicator = "ssh", << "StepSSHKeyGen" >>)
  \o << "StepConnectSupervisor", "StepValidatePublish" >>
  \o When(Opt("import"), << "StepImportImage" >>)
  \o << "StepCreateSource", "StepWatchSource", "StepApplyTags", "StepPublishSource" >>
  \o When(Communicates, << "StepConnectCommunicator", "StepProvision" >>)

Steps ==
  When(config.communicator = "ssh", << "StepSSHKeyGen" >>)
  \o << "StepConnectSupervisor", "StepValidatePublish" >>
  \o When(Opt("import"), << "StepImportImage" >>)
  \o << "StepCreateSource", "StepWatchSource" >>
  \o When(Communicates, << "StepConnectCommunicator", "StepProvision" >>)
  \o << "StepApplyTags", "StepPublishSource" >>

Init ==
  /\ config \in Configs
  /\ phase = "loop" /\ pc = 1 /\ at = "start"
  /\ ctxDone = FALSE /\ broke = FALSE /\ panicking = FALSE
  /\ bag = {} /\ imageType = "unknown" /\ seen = 0 /\ fields = {}
  /\ \E others \in Foreign :
       owner = [k \in Objects |-> IF k \in others THEN "other" ELSE "nobody"]
  /\ stage = [k \in Objects |-> 0]
  /\ published = FALSE /\ result = "pending"
  /\ untracked = {} /\ undeleted = {} /\ provisioned = FALSE

-----------------------------------------------------------------------------
(* The multistep runner.  No step of this builder reads the keys that record *)
(* a cancellation or a halt, so they are left out of the bag.                *)

Cancel ==
  /\ ~ctxDone
  /\ phase \in {"loop", "step", "cleanup"}
  /\ ctxDone' = TRUE
  /\ UNCHANGED <<config, phase, pc, broke, panicking, at, bag, local, cluster,
                 result, history>>

NextStep ==
  /\ phase = "loop"
  /\ IF pc > Len(Steps)
     THEN phase' = "cleanup" /\ pc' = pc - 1 /\ UNCHANGED broke
     ELSE IF ctxDone
     THEN phase' = "cleanup" /\ pc' = pc - 1 /\ broke' = TRUE
     ELSE phase' = "step" /\ UNCHANGED <<pc, broke>>
  /\ UNCHANGED <<config, ctxDone, panicking, at, bag, local, cluster, result,
                 history>>

At(step, place) == phase = "step" /\ Steps[pc] = step /\ at = place

\* The running step goes on at another place.
Stays(place, b) ==
  /\ at' = place /\ bag' = b
  /\ UNCHANGED <<config, runner, result, undeleted>>

Continues(b) ==
  /\ at' = "start" /\ bag' = b
  /\ phase' = "loop" /\ pc' = pc + 1
  /\ UNCHANGED <<config, ctxDone, broke, panicking, result, undeleted>>

Halts(b) ==
  /\ at' = "start" /\ bag' = b
  /\ phase' = "cleanup" /\ broke' = TRUE
  /\ UNCHANGED <<config, pc, ctxDone, panicking, result, undeleted>>

Fails(b) == Halts(b \cup {"error"})

\* A panic unwinds the runner: the deferred clean-ups of the steps before run.
Panics ==
  /\ at' = "start"
  /\ phase' = "cleanup" /\ pc' = pc - 1 /\ broke' = TRUE /\ panicking' = TRUE
  /\ UNCHANGED <<config, ctxDone, bag, result, undeleted>>

Initialised(step) == RequiredStates[step] \subseteq bag

-----------------------------------------------------------------------------
(* Requests to the API server *)

\* The object is created and the call says so.
Creates(k) ==
  /\ owner[k] = "nobody"
  /\ owner' = [owner EXCEPT ![k] = "packer"]
  /\ UNCHANGED <<stage, published, untracked>>

\* Nothing is created, because an object of that name exists or for any other
\* reason before or at the call; or the object is created and the call fails.
CreateFails(k) ==
  /\ \/ UNCHANGED <<owner, untracked>>
     \/ /\ owner[k] = "nobody"
        /\ owner' = [owner EXCEPT ![k] = "packer"]
        /\ untracked' = untracked \cup {k}
  /\ Fails(bag)
  /\ UNCHANGED <<stage, published>>

\* The objects of ks are deleted, except those whose deletion fails.
Deletes(ks) ==
  /\ \E failed \in SUBSET {k \in ks : owner[k] # "nobody"} :
       /\ owner' = [k \in Objects |-> IF k \in ks \ failed THEN "nobody" ELSE owner[k]]
       /\ undeleted' = undeleted \cup {k \in failed : owner[k] = "packer"}
  /\ UNCHANGED <<stage, published>>

-----------------------------------------------------------------------------
(* The steps up to the source machine *)

StepSSHKeyGen ==
  /\ At("StepSSHKeyGen", "start")
  /\ Continues(bag) \/ Fails(bag)
  /\ UNCHANGED <<local, cluster, untracked, provisioned>>

\* Mutant: the client is put under another key.
MutantStepConnectSupervisor ==
  /\ At("StepConnectSupervisor", "start")
  /\ Continues(bag \cup {"client", "supervisor_namespace"}) \/ Fails(bag)
  /\ UNCHANGED <<local, cluster, untracked, provisioned>>

StepConnectSupervisor ==
  /\ At("StepConnectSupervisor", "start")
  /\ Continues(bag \cup ConnectionStates) \/ Fails(bag)
  /\ UNCHANGED <<local, cluster, untracked, provisioned>>

\* Mutant: the location is put only when there is one.
MutantStepValidatePublish ==
  /\ At("StepValidatePublish", "start")
  /\ \/ ~Opt("publish_location") /\ Continues(bag)
     \/ Opt("publish_location") /\ Continues(bag \cup {"publish_location_name"})
  /\ UNCHANGED <<local, cluster, untracked, provisioned>>

\* The location is put in the bag even when it is empty.  A dry run that fails
\* for another reason than the missing feature is let pass.
StepValidatePublish ==
  /\ At("StepValidatePublish", "start")
  /\ LET b == bag \cup {"publish_location_name"}
     IN \/ /\ Opt("publish_location") => Initialised("StepValidatePublish")
           /\ Continues(b)
        \/ Opt("publish_location") /\ Fails(b)
  /\ UNCHANGED <<local, cluster, untracked, provisioned>>

\* Validation and the creation of the import request.
StepImportImage ==
  /\ At("StepImportImage", "start")
  /\ \/ /\ Initialised("StepImportImage")
        /\ Creates("importRequest")
        /\ Stays("watch import", bag \cup {Flag["importRequest"]})
     \/ CreateFails("importRequest")
  /\ UNCHANGED <<local, provisioned>>

\* An event of the import request: the item is known as soon as one names it,
\* and the import is over when one says that it is complete.
WatchItemImport ==
  /\ At("StepImportImage", "watch import")
  /\ \E s \in 1 .. stage["importRequest"] :
       IF s = 2 THEN Continues(bag \cup {"imported_image_name"})
                ELSE Stays("watch import", bag)
  /\ fields' = fields \cup {"item name"}
  /\ UNCHANGED <<imageType, seen, cluster, untracked, provisioned>>

\* The type of the image decides the objects.  A type that is neither ISO nor
\* OVF halts the build, and the error variable is nil.
StepCreateSource ==
  /\ At("StepCreateSource", "start")
  /\ \/ /\ Initialised("StepCreateSource")
        /\ Opt("image_name") \/ "imported_image_name" \in bag
        /\ LET b == bag \cup {"vm_image_type"}
           IN \/ imageType' = "ISO" /\ Stays("create disk", b)
              \/ imageType' = "OVF" /\ Stays("create secret", b)
              \/ imageType' = "unsupported" /\ Halts(b)
     \/ Fails(bag) /\ UNCHANGED imageType
  /\ UNCHANGED <<seen, fields, cluster, untracked, provisioned>>

CreateBootDisk ==
  /\ At("StepCreateSource", "create disk")
  /\ \/ Creates("disk") /\ Stays("create vm", bag \cup {Flag["disk"]})
     \/ CreateFails("disk")
  /\ UNCHANGED <<local, provisioned>>

\* Loading the bootstrap data may fail before the request.
CreateBootstrapSecret ==
  /\ At("StepCreateSource", "create secret")
  /\ \/ Creates("secret") /\ Stays("create vm", bag \cup {Flag["secret"]})
     \/ CreateFails("secret")
  /\ UNCHANGED <<local, provisioned>>

\* Mutant: the flag is put at the end of the step, with the other states.
MutantCreateVM ==
  /\ At("StepCreateSource", "create vm")
  /\ \/ /\ Creates("vm")
        /\ IF Communicates
           THEN Stays("create service", bag)
           ELSE Continues(bag \cup {Flag["vm"]} \cup SourceStates)
     \/ CreateFails("vm")
  /\ UNCHANGED <<local, provisioned>>

CreateVM ==
  /\ At("StepCreateSource", "create vm")
  /\ \/ /\ Creates("vm")
        /\ IF Communicates
           THEN Stays("create service", bag \cup {Flag["vm"]})
           ELSE Continues(bag \cup {Flag["vm"]} \cup SourceStates)
     \/ CreateFails("vm")
  /\ UNCHANGED <<local, provisioned>>

CreateVMService ==
  /\ At("StepCreateSource", "create service")
  /\ \/ /\ Creates("service")
        /\ Continues(bag \cup {Flag["service"]} \cup SourceStates)
     \/ CreateFails("service")
  /\ UNCHANGED <<local, provisioned>>

-----------------------------------------------------------------------------
(* The source machine gets ready *)

StepWatchSource ==
  /\ At("StepWatchSource", "start")
  /\ \/ Initialised("StepWatchSource") /\ Stays("watch vm", bag)
     \/ Fails(bag)
  /\ UNCHANGED <<local, cluster, untracked, provisioned>>

\* Mutant: the address is not looked at.
MutantVMSeen(s) ==
  LET b == bag \cup {"vm_ip"}
  IN IF Flag["service"] \in bag THEN Stays("wait ingress", b) ELSE Continues(b)

\* An event shows the machine on the network; at stage 2 it has an address.
VMSeen(s) ==
  LET b == bag \cup {"vm_ip"}
  IN IF s < 2 THEN Stays("watch vm", bag)
     ELSE IF Flag["service"] \in bag THEN Stays("wait ingress", b)
     ELSE Continues(b)

\* Events before stage 1 (off, or without a network) are skipped.  For an ISO
\* image, the first event after that asks for the web console.
WaitForVMReady ==
  /\ At("StepWatchSource", "watch vm")
  /\ seen' \in {s \in 1 .. stage["vm"] : s >= seen}
  /\ IF imageType = "ISO" /\ "console shown" \notin fields
     THEN Stays("create console", bag)
     ELSE VMSeen(seen')
  /\ UNCHANGED <<imageType, fields, cluster, untracked, provisioned>>

CreateConsoleRequest ==
  /\ At("StepWatchSource", "create console")
  /\ \/ Creates("consoleRequest") /\ Stays("watch console", bag)
     \/ CreateFails("consoleRequest")
  /\ UNCHANGED <<local, provisioned>>

\* The response arrives, and the address is read from the event of the machine
\* that asked for the console.
WaitForConsole ==
  /\ At("StepWatchSource", "watch console")
  /\ stage["consoleRequest"] = 1
  /\ fields' = fields \cup {"console shown"}
  /\ VMSeen(seen)
  /\ UNCHANGED <<imageType, seen, cluster, untracked, provisioned>>

GetVMIngressIP ==
  /\ At("StepWatchSource", "wait ingress")
  /\ stage["service"] = 1
  /\ Continues(bag \cup {"ip"})
  /\ UNCHANGED <<local, cluster, untracked, provisioned>>

\* Mutant: a wait that is over halts the build without an error.
MutantGivesUp ==
  /\ phase = "step" /\ at \in Waits
  /\ Halts(bag)
  /\ UNCHANGED <<local, cluster, untracked, provisioned>>

\* Mutant: waiting for the machine has no deadline.
MutantWaitsForEver ==
  /\ phase = "step" /\ at \in Waits \ {"watch vm"}
  /\ Fails(bag)
  /\ UNCHANGED <<local, cluster, untracked, provisioned>>

\* A wait ends without its event: deadline, interrupt, failing or closed watch,
\* response that cannot be decrypted.
GivesUp ==
  /\ phase = "step" /\ at \in Waits
  /\ Fails(bag)
  /\ UNCHANGED <<local, cluster, untracked, provisioned>>

-----------------------------------------------------------------------------
(* The steps after that *)

\* Steps of the SDK, which halt without an error when they are interrupted.
StepConnectCommunicator ==
  /\ At("StepConnectCommunicator", "start")
  /\ Continues(bag) \/ Fails(bag) \/ (ctxDone /\ Halts(bag))
  /\ UNCHANGED <<local, cluster, untracked, provisioned>>

StepProvision ==
  /\ At("StepProvision", "start")
  /\ \/ Continues(bag) /\ provisioned' = TRUE
     \/ Fails(bag) /\ UNCHANGED provisioned
     \/ ctxDone /\ Halts(bag) /\ UNCHANGED provisioned
  /\ UNCHANGED <<local, cluster, untracked>>

\* The step asserts the types of state.Get("vm") and state.Get("driver"), which
\* no step of this builder puts.
StepApplyTags ==
  /\ At("StepApplyTags", "start")
  /\ \/ ~Opt("tags") /\ Continues(bag)
     \/ Opt("tags") /\ Panics
  /\ UNCHANGED <<local, cluster, untracked, provisioned>>

StepPublishSource ==
  /\ At("StepPublishSource", "start")
  /\ \/ /\ Initialised("StepPublishSource") /\ ~Opt("publish_location")
        /\ Continues(bag)
        /\ UNCHANGED <<cluster, untracked>>
     \/ /\ Initialised("StepPublishSource") /\ Opt("publish_location")
        /\ Creates("publishRequest")
        /\ Stays("watch publish", bag \cup {Flag["publishRequest"]})
     \/ Opt("publish_location") /\ CreateFails("publishRequest")
  /\ UNCHANGED <<local, provisioned>>

\* Mutant: any event of the request ends the watch.
MutantWatchVMPublish ==
  /\ At("StepPublishSource", "watch publish")
  /\ Continues(bag)
  /\ UNCHANGED <<local, cluster, untracked, provisioned>>

WatchVMPublish ==
  /\ At("StepPublishSource", "watch publish")
  /\ stage["publishRequest"] = 1
  /\ Continues(bag)
  /\ UNCHANGED <<local, cluster, untracked, provisioned>>

-----------------------------------------------------------------------------
(* The clean-ups, last step first *)

CleaningUp(step) == phase = "cleanup" /\ pc > 0 /\ Steps[pc] = step

Cleaned ==
  /\ pc' = pc - 1
  /\ UNCHANGED <<config, phase, ctxDone, broke, panicking, at, bag, local,
                 result, untracked, provisioned>>

\* The test for the flag compares with false: an absent key is nil, which is
\* not false, so the request is deleted whether or not this build made it.
StepPublishSourceCleanup ==
  /\ CleaningUp("StepPublishSource")
  /\ Deletes(IF Opt("keep_input_artifact") THEN {} ELSE {"publishRequest"})
  /\ Cleaned

\* Mutant: what to delete is decided by the type of the image.
MutantCreated ==
  {"vm", "service"} \cup (IF imageType = "ISO" THEN {"disk"} ELSE {"secret"})

\* The source objects whose creation the state bag records.
Created == {k \in SourceObjects : Flag[k] \in bag}

StepCreateSourceCleanup ==
  /\ CleaningUp("StepCreateSource")
  /\ Deletes(IF Opt("keep_input_artifact") THEN {} ELSE Created)
  /\ Cleaned

\* Mutant: a failed build keeps the request, for a look at it.
MutantStepImportImageCleanup ==
  /\ CleaningUp("StepImportImage")
  /\ Deletes(IF "error" \in bag \/ Opt("keep_import_request") THEN {}
             ELSE {"importRequest"})
  /\ Cleaned

StepImportImageCleanup ==
  /\ CleaningUp("StepImportImage")
  /\ Deletes(IF Flag["importRequest"] \notin bag THEN {}
             ELSE (IF Opt("keep_import_request") THEN {} ELSE {"importRequest"})
                  \cup (IF Opt("clean_imported_image") /\ "item name" \in fields
                        THEN {"image"} ELSE {}))
  /\ Cleaned

NoCleanup ==
  /\ phase = "cleanup" /\ pc > 0
  /\ Steps[pc] \notin {"StepPublishSource", "StepCreateSource", "StepImportImage"}
  /\ UNCHANGED <<cluster, undeleted>>
  /\ Cleaned

NothingToClean ==
  /\ phase = "cleanup" /\ pc = 0
  /\ phase' = "return"
  /\ UNCHANGED <<config, pc, ctxDone, broke, panicking, at, bag, local, cluster,
                 result, history>>

\* Builder.Run returns an error if the bag has one, and otherwise reports that
\* the build finished successfully.
Return ==
  /\ phase = "return"
  /\ phase' = "done"
  /\ result' = IF panicking THEN "panic"
               ELSE IF "error" \in bag THEN "error" ELSE "nil"
  /\ UNCHANGED <<config, pc, ctxDone, broke, panicking, at, bag, local, cluster,
                 history>>

-----------------------------------------------------------------------------
(* The controllers of the Supervisor cluster *)

Reconciles(k, s) ==
  /\ owner[k] = "packer" /\ stage[k] < s
  /\ stage' = [stage EXCEPT ![k] = s]
  /\ UNCHANGED <<config, runner, at, bag, local, result, history>>

\* The item of the library exists from stage 1 on; the import is complete at 2.
ImportController ==
  /\ \E s \in 1 .. 2 : Reconciles("importRequest", s)
  /\ owner' = IF stage["importRequest"] = 0
              THEN [owner EXCEPT !["image"] = "packer"] ELSE owner
  /\ UNCHANGED published

\* The machine is on and in its network at stage 1, and has an address at 2.
VMController ==
  /\ \E s \in 1 .. 2 : Reconciles("vm", s)
  /\ UNCHANGED <<owner, published>>

ServiceController ==
  /\ Reconciles("service", 1)
  /\ UNCHANGED <<owner, published>>

ConsoleController ==
  /\ Reconciles("consoleRequest", 1)
  /\ owner["vm"] = "packer"
  /\ UNCHANGED <<owner, published>>

PublishController ==
  /\ Reconciles("publishRequest", 1)
  /\ owner["vm"] = "packer"
  /\ published' = TRUE
  /\ UNCHANGED owner

-----------------------------------------------------------------------------

Terminated == phase = "done" /\ UNCHANGED vars

RunStep ==
  \/ StepSSHKeyGen \/ StepConnectSupervisor \/ StepValidatePublish
  \/ StepImportImage \/ WatchItemImport
  \/ StepCreateSource \/ CreateBootDisk \/ CreateBootstrapSecret \/ CreateVM
  \/ CreateVMService
  \/ StepWatchSource \/ WaitForVMReady \/ CreateConsoleRequest
  \/ WaitForConsole \/ GetVMIngressIP
  \/ GivesUp
  \/ StepConnectCommunicator \/ StepProvision \/ StepApplyTags
  \/ StepPublishSource \/ WatchVMPublish

CleanupStep ==
  \/ StepPublishSourceCleanup \/ StepCreateSourceCleanup
  \/ StepImportImageCleanup \/ NoCleanup \/ NothingToClean

Builder == NextStep \/ RunStep \/ CleanupStep \/ Return

Controllers ==
  \/ ImportController \/ VMController \/ ServiceController
  \/ ConsoleController \/ PublishController

Next == Builder \/ Cancel \/ Controllers \/ Terminated

Spec == Init /\ [][Next]_vars

\* Every wait of Builder.Run has a deadline; the controllers may never act.
FairSpec == Spec /\ WF_vars(Builder)

-----------------------------------------------------------------------------
(* Properties *)

\* Type invariant.
TypeOK ==
  /\ config \in Configs
  /\ phase \in {"loop", "step", "cleanup", "return", "done"}
  /\ pc \in 0 .. Len(Steps) + 1
  /\ phase = "step" => pc \in 1 .. Len(Steps)
  /\ phase = "loop" => pc >= 1
  /\ phase = "cleanup" => pc <= Len(Steps)
  /\ at \in Places
  /\ ctxDone \in BOOLEAN /\ broke \in BOOLEAN /\ panicking \in BOOLEAN
  /\ bag \subseteq Keys
  /\ imageType \in ImageTypes \cup {"unknown"}
  /\ seen \in 0 .. 2
  /\ fields \subseteq {"item name", "console shown"}
  /\ owner \in [Objects -> {"nobody", "packer", "other"}]
  /\ stage \in [Objects -> 0 .. 2]
  /\ published \in BOOLEAN /\ provisioned \in BOOLEAN
  /\ result \in {"pending", "nil", "error", "panic"}
  /\ untracked \subseteq Objects /\ undeleted \subseteq Objects

\* What the configuration keeps.
ToKeep ==
  (IF Opt("keep_input_artifact") THEN SourceObjects \cup {"publishRequest"} ELSE {})
  \cup (IF Opt("keep_import_request") THEN {"importRequest"} ELSE {})

\* The console request has no clean-up; the image is a product of the import
\* unless its clean-up was asked for and its name is known.
Ledger == Objects \ {"consoleRequest", "image"}

\* When the build has ended, however it ended (an error, an interrupt and a
\* panic included), every object it created is gone, except what it keeps,
\* what a failing call created untold and what could not be deleted.  This is
\* the joint promise of the flags the steps put and the clean-ups read.
LeavesNothingBehind ==
  phase = "done" =>
    /\ \A k \in Ledger :
         owner[k] = "packer" => k \in ToKeep \cup untracked \cup undeleted
    /\ /\ Opt("clean_imported_image") /\ "item name" \in fields
       /\ Flag["importRequest"] \in bag
       => owner["image"] # "packer" \/ "image" \in undeleted

\* No step or clean-up deletes an object that another user holds, nor one that
\* the configuration keeps.  The publish request is the exception.
DeletesOnlyOwn ==
  [][ \A k \in Objects \ {"publishRequest"} :
        owner'[k] # owner[k] /\ owner[k] # "nobody"
          => owner[k] = "packer" /\ k \notin ToKeep ]_vars

\* What the initStep of a step looks for, an earlier step has put, so that
\* "missing required state" is never the reason of a failure.
StatesPresent ==
  phase = "step" /\ at = "start" /\ Steps[pc] \in DOMAIN RequiredStates
    => Initialised(Steps[pc])

\* The communicator is connected and the provisioners run against the machine
\* of this build, which has an address, through a service of this build that has
\* an ingress, whose address is in the bag (CommHost asserts its type).
ProvisionsReadyVM ==
  phase = "step" /\ Steps[pc] \in {"StepConnectCommunicator", "StepProvision"} =>
    /\ owner["vm"] = "packer" /\ stage["vm"] = 2
    /\ owner["service"] = "packer" /\ stage["service"] = 1
    /\ "ip" \in bag

\* A build that stops early and is not interrupted does not report success,
\* whatever failed and wherever, but for the unsupported image type.
FailureReported ==
  phase = "done" /\ broke /\ ~ctxDone /\ imageType # "unsupported"
    => result \in {"error", "panic"}

\* A build that ran to its end and reports success has provisioned its machine
\* and has published it: the request was complete before the clean-ups deleted it.
SuccessIsPublished ==
  phase = "done" /\ result = "nil" /\ ~broke =>
    /\ Communicates => provisioned
    /\ Opt("publish_location") => published

\* Only a provisioned machine is ever published, even by a build that fails.
PublishesProvisionedVM ==
  [][ ~published /\ published' /\ Communicates => provisioned ]_vars

\* Whatever the controllers do or fail to do, the build ends.
BuildEnds == <>(result # "pending")

\* The build keeps the contract with its namespace.
Held == {k \in Ledger : owner[k] = "packer"}

Excused == (ToKeep \cup untracked \cup undeleted) \cap Ledger

Contract == INSTANCE NamespaceContract WITH
  Objects <- Ledger, held <- Held, excused <- Excused, outcome <- result

KeepsContract == Contract!Spec

\* step_publish_source.go:91: "Either the step was skipped or the object was not
\* created successfully."  Then nothing is to be deleted.
SparesForeignPublishRequest ==
  [][ owner["publishRequest"] = "other" => owner'["publishRequest"] = "other" ]_vars

\* builder.go:109: "Build 'vsphere-supervisor' finished successfully."
SuccessIsFinished ==
  phase = "done" /\ result = "nil" /\ ~ctxDone => ~broke

\* docs/builders/vsphere-supervisor.mdx:168: "all tags will be merged and
\* applied to the virtual machine."
NeverPanics == ~panicking

\* step_import_image.go:62: "Clean the imported image after the build finishes.
\* If set to `true`, the imported image will be deleted."
ImportedImageCleaned ==
  /\ phase = "done" /\ Opt("clean_imported_image")
  /\ stage["importRequest"] = 2
  /\ "importRequest" \notin untracked \cup undeleted
  => owner["image"] # "packer" \/ "image" \in undeleted
=============================================================================
