# Verification of the Packer plugin for vSphere

TLA+ modules that model the builders of `packer-plugin-vsphere`, TLC
configurations that check them on small instances, and theorems about them that
TLAPS proves for every value of the constants. Paths below are relative to the
root of the repository.

## The system and its components

The plugin is a set of Go programs that Packer runs, one goroutine per build.
They drive vCenter over SOAP and REST (govmomi), or a Supervisor cluster over
the Kubernetes API. Almost every piece of logic is a *step*: a `Run` that returns
continue or halt, and a `Cleanup`. The runner of the Packer SDK runs the steps in
order and, when it stops for whatever reason, the clean-ups of the steps that ran,
last first. Steps, clean-ups and `Builder.Run` communicate through an untyped
map, the state bag.

| Component | Code | State it keeps | Operations | Interacts with |
|---|---|---|---|---|
| vsphere-iso builder | `builder/vsphere/iso` | the step list, the state bag | `Builder.Run`, `StepCreateVM` | runner, every common step |
| vsphere-clone builder | `builder/vsphere/clone` | the step list, the state bag | `Builder.Run`, `StepCloneVM` (template, library item or OVF), `StepCustomize` | runner, common steps |
| common steps | `builder/vsphere/common/step_*.go` | keys of the state bag, uploaded files, devices | 30 steps with `Run` and `Cleanup` | driver, state bag |
| artifact | `common/artifact.go` | machine, output directory, the driver's session | `Destroy`, `Files`, `State` | what `Builder.Run` left |
| machine driver | `driver/vm*.go`, `driver/driver.go` | SOAP and REST sessions | create, clone, power, devices, log in and out | vCenter |
| inventory lookups | `driver/{datastore,folder,host,...}.go` | none | find | vCenter |
| content library | `driver/content_library*.go`, `common/step_import_to_content_library.go` | the REST session, library items | find, delete, import | vCenter REST |
| OVF deploy and export | `driver/ovf*.go`, `common/step_export.go` | an NFC lease, local files | deploy, export | vCenter, local disk |
| disks and placement | `driver/{disk,controller_address,storage_*}.go`, `clone/storage_prepare.go` | none | pure computations | creation specs |
| tag manager | `common/tags_*.go`, `common/step_apply_tags.go` | caches of categories and tags | resolve, create, attach, with retries | vCenter REST, other builds |
| supervisor builder | `builder/vsphere/supervisor` | Kubernetes objects, flags in the bag | connect, validate, import, create, watch, publish | Supervisor cluster |
| vsphere-template post-processor | `post-processor/vsphere-template` | the machine in the inventory | unregister, register, snapshot, tag | vCenter |
| vsphere post-processor | `post-processor/vsphere` | none | upload with ovftool, retried | ovftool, vCenter |
| data sources | `datasource/*` | none | query, filter, select | vCenter |
| configuration | `*/config.go` | the decoded options | decode, validate | the step lists |

What is hard here, and what makes each component correct:

- *Failure at every call, clean-up in reverse order.* Each step may fail halfway;
  a call may take effect in vCenter and still report failure. Correct means that
  nothing the build created stays behind after a failure, that no step reads a key
  another one did not put, and that the clean-ups meet the machine in the state
  they need (a machine is powered off before it is destroyed).
- *Interrupts.* The context may be cancelled at any moment. A second goroutine of
  the runner records it in the state bag at its own pace, even while clean-ups
  run, and some steps halt on it without an error. Correct means that the
  build returns, and that its outcome (artifact, error, neither) matches what is
  in vCenter.
- *Products.* Snapshot, template, library item and export are made of a machine
  that is off and carries nothing temporary.
- *Sharing between builds*: the remote cache of ISO images, tags, machine names.
- *Sessions*: SOAP and REST log-ins that some calls end and others need.
- *Retries and timeouts*: tag operations, the wait for an address, the
  ovftool upload.
- *Asynchronous objects*: the Supervisor builder watches objects that a controller
  changes.

`PROJECT.json` lists the hazards one by one with their lines, and the properties
that would catch them.

## Plan

| | Modules | What they model | State |
|---|---|---|---|
| 1 | `BuildPipeline`, `BuildContract`, `BuildPipelineProofs` | the two vCenter builders from `Builder.Run` to the artifact | done; every safety property is proved |
| 2 | `SupervisorBuild`, `NamespaceContract`, `SupervisorBuildProofs` | the Supervisor builder, its Kubernetes objects, the controllers and the watches | done; every safety property is proved |
| 3 | `TagManager`, `TagManagerProofs` | builds that resolve, create and attach tags, with errors and retries | done; every safety property is proved |
| 4 | `Deployment`, `DeploymentProofs` | the step that makes the machine, down to tasks and the lease of an OVF import | done; every safety property is proved |
| 5 | `Export`, `ExportProofs` | the export with its lease, manifest and archive | done; every safety property is proved |
| 6 | `LibraryImport`, `LibraryImportProofs` | builds that import into one library item, and the REST session | done; every safety property is proved |
| 7 | `PostProcess`, `PostProcessProofs` | the two post-processors, one after the other | done; every safety property is proved |
| 8 | `DiskAttachment`, `StoragePlacement`, `DataSources`, `Loops`, `Algorithms`, `AlgorithmProofs` | algorithms against reference definitions | done; every safety property is proved |
| 9 | `RemoteCache` | two builds that share the cache of a datastore | open |
| 10 | `WaitForIp` | the goroutine, the settle time, the total timeout and the interrupt | open |
| 11 | `CdRomDevices` | adding, ejecting, re-attaching, the limits of a controller | open |

A component's proofs are in a module of their own, named after it. Modules that hold
theorems declare no recursive operator; each component has its constants, one action per
operation, and invariants as conjunctions of named parts.

The modules fit together through the steps of `BuildPipeline`: what is one action
there, with the outcomes that the rest of the build can tell apart, is a module of
its own here. `Deployment` is `StepCreateVM` and `StepCloneVM`, `Export` is
`StepExport`, `LibraryImport` is `StepImportToContentLibrary` and the steps that use
the REST session, `TagManager` is `StepApplyTags` and `StoragePlacement` is
`StepResolveDatastore` with what the creating steps make of it. `PostProcess` starts
where a build has ended.

### Configurations that show a disagreement

The runs that pass exclude, by name, what the code does otherwise than its
documentation says; such a case has a property that states the documented
behaviour and that TLC finds violated. Four are runs of the project
(`tags_transient`, `export_ova`, `library_session`, `template_override`); the others
have a `.cfg` beside them. None of these cases can be caught by the property
that excludes it:

| Configuration | Violated | Excluded from |
|---|---|---|
| `MCBuildPipeline_interrupted.cfg` | `FinalizedArtifactOrError` | `UninterruptedFailureReported` |
| `MCBuildPipeline_reattach.cfg` | `UninterruptedFinalizedOrError` | `UninterruptedFailureReported` |
| `MCBuildPipeline_discard.cfg` | `ArtifactDestroysMachine` | nothing |
| `MCSupervisorBuild_publish.cfg` | `SparesForeignPublishRequest` | `DeletesOnlyOwn` |
| `MCSupervisorBuild_unsupported.cfg` | `SuccessIsFinished` | `FailureReported` |
| `MCSupervisorBuild_tags.cfg` | `NeverPanics` | nothing |
| `MCSupervisorBuild_clean.cfg` | `ImportedImageCleaned` | `LeavesNothingBehind` |
| `MCTagManager_shared.cfg` | `SharedTagsCreated` | nothing |
| `MCTagManager_transient.cfg` | `TransientErrorsSurvived` | nothing |
| `MCDeployment_prepare.cfg` | `PrepareFindsInvalidSource` | nothing |
| `MCExport_ova.cfg` | `OvaIsMade` | `WholeExport` |
| `MCLibraryImport_session.cfg` | `TagsFindSession` | nothing |
| `MCPostProcess_override.cfg` | `MachineIsNotReplaced` | `NothingIsLost` |
| `MCAlgorithms_units.cfg` | `DisksAtExistingUnits` | `DisksAttachAsAsked` |
| `MCAlgorithms_datastores.cfg` | `DisksKeepTheirDatastores` | `DisksPlacedAsRecommended` |
| `MCAlgorithms_host.cfg` | `MachinesAreOnTheHost` | `QueriesFindTheOne` |

One excuse has no such property: `NothingIsLost` (`PostProcess`) lets `reregister_vm`
leave a machine unregistered when a request of it fails, and no document promises
otherwise.

## BuildPipeline

One build of `vsphere-iso` or `vsphere-clone`. `Configs`, the only constant, is the
set of configurations; a configuration is the builder and the set of options that
decide the step list or a branch of a step.

| Variable | In the code |
|---|---|
| `config` | `b.config` after `Prepare` |
| `phase`, `pc` | where the runner is: at the top of its loop, in step `pc`, cleaning up step `pc`, back in `Builder.Run`, done |
| `ctxDone` | `ctx.Done()` of `Builder.Run` |
| `bag` | the keys present in the state bag |
| `vm` | what holds in vCenter of the machine of this build |
| `files` | the images the build uploaded under a fresh name |
| `session` | the SOAP session of the driver |
| `oldVM` | a machine of the same name from an earlier build |
| `outputs` | library item, exported files |
| `result` | what `Builder.Run` returned |
| `broke`, `untracked`, `cleanupFailed` | history, for the properties |

`CreationSteps`, `IsoSteps` and `CloneSteps` are the step lists of the two
`Builder.Run`. Each step is one action named after it, whose disjuncts are the ways
it can end: what it has put in the bag and done in vCenter, then `Continues`,
`Fails` (error key, halt) or `Halts` (halt without an error). Nothing reads the
state a step is changing while it runs, except for the interrupt, which every step
sees as `ctxDone` at its end, so one action per step loses no behaviour
that the properties can tell apart. `NextStep`, `Continues`, `Halts`, `Cleaned`,
`Cancel` and `RecordCancellation` are the runner of the SDK. `StepRunCleanup`,
`StepAddFloppyCleanup`, `StepRemoteUploadCleanup`, `CleanupVM` and
`StepConnectCleanup` are the clean-ups that do something. `Return` is the end of
`Builder.Run`, `ArtifactDestroy` what Packer may do later.

Abstractions: the values behind the keys; the order of devices; what the
provisioners do. Steps that change nothing the properties speak of are `Plain`:
they continue or fail. Every vCenter call may fail, and the creating and uploading
calls may fail after they took effect (`untracked`). Not modelled: the value of
`on_error` other than the default (clean up); the early return of an invalid HTTP
address before the runner starts; a second build at the same time.

### Properties

- `TypeOK`.
- `LeavesNothingBehind`: after an early stop the machine, the images and the session
  are gone, but for what a failing call created untold or a failing clean-up
  could not remove. After any build the session is closed.
- `RequiredKeysPresent`: a step or clean-up that asserts the type of `vm` or `driver`
  finds it in the bag. 22 steps assert `vm` and eight assert `driver`; these are all
  the steps whose `Run` or `Cleanup` does.
- `DestroysColdMachine`: when `CleanupVM` is about to destroy the machine, it is off,
  unless a clean-up before it failed. The cancellation key may arrive between
  two clean-ups; the property holds because the machine of a build that ran to
  its end is off already.
- `UninterruptedFailureReported`: a build that stopped early, and that nobody
  interrupted, returns an error (but for the key that `StepReattachCDRom` misspells).
- `CompleteArtifact`: the artifact of a build that ran to its end has no medium,
  floppy or temporary boot order left, and every product asked for.
- `ProductsAreCold` (action property): snapshot, template, library item and export
  are made of a machine that is off and empty, even though `WaitForShutdown`
  returns nil on an interrupt.
- `BuildReturns` (liveness) and `ImplementsContract`: the build implements
  `BuildContract`, the abstract specification of a builder: at most one image,
  destroyed only if the build stopped or was asked to destroy it, and an outcome
  that matches.

### Runs

`builds` checks all nine properties on five configurations of vsphere-iso and four
of vsphere-clone (26,746 distinct states); they hold.

Bounds: none but the set of configurations; a build has at most 34 steps and
every outcome of each is explored with the interrupt at every point. Together the
configurations set and leave out every option and put the options that interact
next to each other (floppy and CD images, boot order with and without the
temporary one, import with and without destruction, both with and without
communicator); the theorems cover the others. Deadlock is checked: a build stops
only in `Terminated`.

Fairness: weak fairness of `Builder`, the goroutine of `Builder.Run`. Every wait of
the code is bounded (`shutdown_timeout`, `ip_wait_timeout`, the timeouts of the
communicator) or a call to vCenter that answers or fails, so the goroutine never
blocks for ever. The user (`Cancel`), the runner's second goroutine
(`RecordCancellation`) and the guest (`GuestPowersOff`) get no fairness.

### Disagreements found

- An interrupted build returns the artifact of the machine it destroyed, and no
  error: the comment on `Builder.Run` (`builder/vsphere/iso/builder.go:40`) promises
  a finalized artifact or an error (`MCBuildPipeline_interrupted.cfg`).
- `StepReattachCDRom` puts its listing error under a format string, so that an
  uninterrupted build can do the same (`MCBuildPipeline_reattach.cfg`).
- `Artifact.Destroy` needs the session that the build closed before it returned the
  artifact; it logs the failure and returns nil, and the machine stays
  (`MCBuildPipeline_discard.cfg`).

### What is proved

`BuildPipelineProofs` proves, for every set of configurations:

| Theorem | States |
|---|---|
| `TypeCorrect` | `Spec => []TypeOK` |
| `NothingLeftBehind` | `Spec => []LeavesNothingBehind` |
| `KeysPresent` | `Spec => []RequiredKeysPresent` |
| `FailureReported` | `Spec => []UninterruptedFailureReported` |
| `ContractKept` | `Spec => Contract!Spec`: the safety part of `ImplementsContract` |

The only assumption is `ConfigsAssumption`. The argument: the step lists have a
common shape (`StepsShape`: `StepConnect` is first, exactly one creating step,
after it neither again, and everything that reads the machine after it). The effect of each
step is summarised once (`StepEffect`, one lemma per step), likewise that of a
clean-up (`CleanupStepEffect`). The inductive invariant
`IInv == TypeOK /\ ControlInv /\ TrackedInv /\ KeysInv` adds to the type invariant how
`phase`, `broke`, the stop keys and `result` go together (`ControlInv`); that every
resource which exists is untracked, or has its key in the bag and the clean-up
that looks for the key is still to come, or a clean-up failed (`TrackedInv`); and
which keys are present after which step (`KeysInv`). None of the four properties
is inductive alone: that the machine is gone in the end follows only
from its clean-up being due in every state before.

The second part of the module, on what a build produces, goes on from these under the same
assumption:

| Theorem | States |
|---|---|
| `ColdWhenDestroyed` | `Spec => []DestroysColdMachine` |
| `ArtifactIsComplete` | `Spec => []CompleteArtifact` |
| `ColdProducts` | `Spec => ProductsAreCold` |

They depend on where a step is in the list, which differs from configuration to
configuration. `StepsOrder` says what all the lists have in common: each step that puts
something on the machine (`StepAddCDRom`, `StepAddFloppy`, `StepRun`) has the step that
takes it away after it, all of those come before every step that makes a product,
and the steps of a product are there if and only if it is asked for. It is computed
once for each builder, from the three parts of its list (`IsoInThree`, `CloneInThree`).
The invariant `PInv` is inductive together with `IInv`:

- `LoadedInv`: what is on the machine has the step that removes it still ahead
  (a machine that is on may also have been passed by an interrupted `StepShutdown`,
  but then the runner stops before the next step);
- `ProductInv`: a product asked for is made, or its step is ahead;
- `PowerInv`: of a build that has stopped, the clean-up of `StepRun` is due while the
  machine is on, or a clean-up has failed;
- `ReasonInv`, `FinishedInv`: why the machine may be destroyed, and what is left of the
  first two when all the steps have run.

None of the three properties is inductive: each speaks of one late moment, and holds there
because of where steps long past are in the list.

Only model-checked: `BuildReturns` and the fair half of `ImplementsContract`, since
liveness is out of the prover's reach.

## SupervisorBuild

One build of `vsphere-supervisor`. It creates Kubernetes objects in a namespace
that it shares with other users, waits until the controllers of the Supervisor
cluster have acted on them, and deletes them in its clean-ups. The constants are
`Configs` (communicator and options) and `Foreign`, the sets of objects that other
users may hold under the names this build will use.

| Variable | In the code |
|---|---|
| `config` | `b.config` after `Prepare` |
| `phase`, `pc`, `ctxDone`, `broke`, `panicking` | the runner of the SDK, and the goroutine unwinding from a panic |
| `at` | where the running step is: at its start, before one of its requests, or in one of its waits |
| `bag` | the keys present in the state bag |
| `imageType` | `vm_image_type` |
| `seen` | what the last event of the machine's watch showed |
| `fields` | the fields and locals of steps that decide later: the name of the imported item, whether the console was shown |
| `owner`, `stage` | each object in the API server: nobody's, this build's or another's; how far its controller has brought it |
| `published` | the image is in the content library |
| `result` | what `Builder.Run` returned |
| `untracked`, `undeleted`, `provisioned` | history, for the properties |

`Steps` is the step list of `Builder.Run`. A step that makes one request and does not
wait is one action; a step that makes several requests, or waits, is one action
per request and per event (`StepCreateSource`, `CreateBootDisk`,
`CreateBootstrapSecret`, `CreateVM`, `CreateVMService`; `StepWatchSource`,
`WaitForVMReady`, `CreateConsoleRequest`, `WaitForConsole`, `GetVMIngressIP`;
`StepImportImage`, `WatchItemImport`; `StepPublishSource`, `WatchVMPublish`), so that
controllers and the interrupt come between. `GivesUp` is every other way a wait
ends: its deadline, the interrupt, a watch that cannot be opened or that the
server closes. `Step...Cleanup` are the clean-ups that delete something. The
controllers are external to the repository and are modelled from what the code
waits for: a stage per condition that it tests.

Abstractions: names, specifications and the values of conditions. A creation may be
refused (also because the name is taken) or may take effect and still report
failure. A clean-up that deletes several objects is one action, because nothing
reads them in between; each deletion may fail by itself. An import controller may
reach its last stage at once, and a watch may skip stages, as Kubernetes watches
do. The waits for the machine and for its console ignore a closed watch and spin
until their deadline; they are waits like the others here. The runner's second
goroutine only writes keys that no step of this builder reads, and is left out.
Communicators other than `none`, `ssh` and `winrm` are not modelled. The
console request is never deleted by the code, in no build, so it is outside
`LeavesNothingBehind`.

### Properties

- `TypeOK`.
- `LeavesNothingBehind`: when the build has ended, by an error, an interrupt or a
  panic too, every object it created is gone, but for what the configuration
  keeps, what a failing call created untold, and what could not be deleted. (The
  web console request always stays: no clean-up deletes it.) The
  flags that five steps put and three clean-ups read promise this together.
- `DeletesOnlyOwn` (action property): nothing another user holds, and nothing the
  configuration keeps, is deleted, but for the publish request (see below).
- `StatesPresent`: an `initStep` never fails for a state that is missing.
- `ProvisionsReadyVM`: the provisioners run against the machine of this build, which
  has its address, behind a service of this build that has an ingress.
- `FailureReported`: an early stop nobody asked for is reported.
- `SuccessIsPublished`, `PublishesProvisionedVM` (action property): a reported success
  has provisioned and published its machine, in this order.
- `BuildEnds` (liveness): whatever the controllers do or fail to do.
- `KeepsContract`: the build implements `NamespaceContract`, the abstract
  specification: a build takes objects, gives them back, and when it announces an
  outcome it holds only what it is excused to hold.

### Runs

`supervisor` checks all ten properties on six configurations in seven namespaces
(166,576 distinct states); they hold.

Bounds: the configurations and the namespaces. Every communicator, every option set
and unset, every object taken by another user (two at once only where one build
makes one or the other); the theorems cover the other combinations. At most one
object of a kind is made per build, so nothing else is unbounded. Deadlock is
checked.

Fairness: weak fairness of `Builder`. Every wait of the code has a deadline
(`watch_import_timeout_sec`, `watch_source_timeout_sec`,
`watch_publish_timeout_sec`) after which
`GivesUp` is what happens, so the goroutine always has a next step. Controllers
and `Cancel` get no fairness: a build ends although nobody serves its requests.

### Disagreements found

- The clean-up of the publishing step compares `state.Get(...)` with false; an absent
  key is nil, so a build that never made the request deletes the object of that
  name, another user's included (`MCSupervisorBuild_publish.cfg`).
- An image that is neither ISO nor OVF halts the build without an error, and the
  build is logged as finished successfully (`MCSupervisorBuild_unsupported.cfg`).
- `StepApplyTags` reads keys that no step of this builder puts; with tags the build
  panics (`MCSupervisorBuild_tags.cfg`).
- The imported image is deleted only if an event that names it was read before the
  wait ended (`MCSupervisorBuild_clean.cfg`).

### What is proved

`SupervisorBuildProofs` proves, for every set of configurations and every `Foreign`:

| Theorem | States |
|---|---|
| `TypeCorrect` | `Spec => []TypeOK` |
| `NothingLeftBehind` | `Spec => []LeavesNothingBehind` |
| `FailureIsReported` | `Spec => []FailureReported` |
| `OnlyOwnDeleted` | `Spec => DeletesOnlyOwn` |
| `ContractKept` | `Spec => KeepsContract` |
| `StatesArePresent` | `Spec => []StatesPresent` |
| `ProvisionsReady` | `Spec => []ProvisionsReadyVM` |
| `SuccessPublished` | `Spec => []SuccessIsPublished` |
| `OnlyProvisionedPublished` | `Spec => PublishesProvisionedVM` |

The only assumption is `ConfigsAssumption`. The argument has three layers.
`StepsOrder` computes, for any configuration, which steps come before which.
`RunStepEffect`, `CleanupStepEffect` and `ControllersEffect` say once what an action
of a step, a clean-up or a controller may do at most. On these rest two inductive
invariants:

- `Inv` adds to the type invariant how control state and outcome go together
  (`ControlInv`), and that every object of this build is excused, or has its flag in
  the bag and its clean-up still to come (`TrackedInv`; `ImageInv` for the image).
  `LeavesNothingBehind` is not inductive: it speaks of the end only, and that
  nothing is left then follows from every clean-up being due in all the states
  before. The first five theorems follow from `Inv`.
- `IInv` adds what each step has achieved once the build has gone past it
  (`PassedInv`) and what a step knows at its places (`PlacesInv`). It is what links
  the provisioners, several steps later, to the machine and the address an
  earlier step saw; the last four theorems follow from it.

Only model-checked: `BuildEnds`, since liveness is out of the prover's reach.

## TagManager

Builds that tag their machines (`StepApplyTags`, `tags_manager.go`, `tags_retry.go`).
They share the tags of the server and nothing else.

| Variable | In the code |
|---|---|
| `config` | `TagsConfig`, and the tags the machine already has |
| `at`, `next`, `attempt` | the operation under `withRetry`, the index of the loop, the attempt |
| `ids`, `tagCache`, `categoryCache` | `resolvedIDs` and the two caches |
| `attachedSet` | the listing of `ApplyTags` |
| `failure` | the kind of the error that is returned |
| `tags`, `attached` | the server: tags that exist, tags of each machine |

`GetTagByID`, `GetCategoryByName`, `FindTag` and `CreateTag` are the requests of
`ResolveTagIDs`, `ListAttachedTags` and `AttachTag` those of `ApplyTags`. `Error` is
a request that fails: `withRetry` repeats it after a transient error (`Retries`) and
returns a permanent one. Creating and attaching may take effect and still answer
with an error. Delays are left out, as they change nothing but the moment at which an
interrupt is seen. Descriptions of tags, templates in names (they may fail to
render) and the wording of errors are abstracted.

Properties: `TypeOK`; `AppliesWhatIsWanted` (a success has attached exactly what was
asked for, a failure a prefix of it, and nothing unasked is created);
`ResolvesBeforeAttaching` (action property: a tag that cannot be resolved leaves the
machine as it was); `Ends` (liveness).

Runs: `tags_retry`, two builds, ten configurations, three attempts, both kinds of
errors: 56,834 states. The configurations have a tag that is asked for twice, one that
two builds create, one that is attached already, and each way of being
invalid. `tags_transient` shows a disagreement: a transient error
between `CreateTag` and the `GetTag` under the same retry makes the second attempt
fail with "already exists", which is not retried; and a category that cannot be read
is skipped and then "not found", which is not retried either. Fairness: weak, of each
build's next operation; attempts are counted, so each operation ends. Two builds
that create the same tag may both find it missing; one of them then fails
(`MCTagManager_shared.cfg`).

Proved in `TagManagerProofs`, for any builds, configurations and number of attempts:
`TypeCorrect`, `WantedIsApplied` (`AppliesWhatIsWanted`) and `ResolvedFirst`
(`ResolvesBeforeAttaching`). Assumed are `TagsAssumption` (a category and a name determine
the tag; tags that exist are tags; IDs of tags are well-formed, and the empty string, which
stands for a missing one, is not), `ConfigsAssumption` (types) and `RetryAssumption` (one
attempt at least). The invariant says, for each build, that `resolvedIDs` holds the tags of
just the items before the index of the loop (`ResolutionInv`), that the machine has
the tags before that index, or one more where the answer to `AttachTag` was lost
(`AttachInv`), and of all builds that a tag which is not from before is wanted by one of
them (`CreatedInv`). The property sees neither the loop nor the lost answer, so it is not
inductive. Only model-checked: `Ends`.

## Deployment

The step that makes the machine: `StepCreateVM`, and `StepCloneVM` from a template, an
OVF source or a library item, with the requests of the driver in their order.

| Variable | In the code |
|---|---|
| `config`, `world` | the configuration; what the server and the source hold |
| `at`, `failure`, `cancelled` | where the step is, why it halted, its context |
| `old` | the machine that was at the path |
| `machine`, `settings` | the new machine, and which of the settings asked for it has |
| `task`, `lease` | the server's task or NFC lease |
| `updater`, `sent`, `abort` | `StartUpdater`, the loop over the files, the answer to `lease.Abort` or `task.Cancel` |

`PreCleanVM` is four actions, one per request, so that a failure comes between them;
an error of `PowerOff` is ignored as in the code. `AwaitTask` distinguishes the
contexts: `CreateVM` waits with the driver's, the others with the step's, and only
`Clone` cancels its task. `AbortLease` sends the abort with the step's context, which
may be the one that is cancelled, and ignores the answer. `ServerRunsTask` and
`LeaseExpires` are the server. Which setting a source applies in its first or its second
request, or not at all, is `WithNetwork`, `WithMapping` and `PostSettings`. The
specifications themselves are abstracted to the set of settings they carry; where a
disk goes is `DiskAttachment` and `StoragePlacement`.

Properties: `TypeOK`; `AsConfigured` (what is handed to the next step is complete and
has all that was asked for, so that the checks of `Prepare`, of the step and
of the driver together leave nothing silently out, but for a network
that the descriptor has no use for); `OldMachineKept` (the machine in the way is lost
only with `-force`, and never before the template is found); `LeftBehind` (what a failed
step leaves is excused by a lost answer, a refused abort or one of three named
failures); `Settles` (liveness: no task, lease or partial machine stays for ever).

Run `deploy`: every source with up to two settings, and the three that depend on one
another, in four worlds: 16,526 states. Together the worlds have and lack every device and
property a setting needs, an old machine in every state, the template
itself in the way, and no to two files. Fairness: the step goes on (every wait
is a request that answers or fails), tasks end, and the server enforces the time limit of
a lease nobody renews.

Disagreements: `Prepare` accepts a URL without a host, and `skip_tls_verify` with http,
which the driver refuses after `-force` has destroyed the old machine
(`MCDeployment_prepare.cfg`).

Proved in `DeploymentProofs`, for all configurations and worlds: `TypeCorrect`,
`DeployedAsConfigured` (`AsConfigured`), `OldMachineIsKept` (`OldMachineKept`) and
`NothingElseLeftBehind` (`LeftBehind`). `DeploymentAssumption` gives the types, and that a
template in the way is a machine in the way. The invariant adds what the checks that were
passed let through (`CheckedInv`), up to where the old machine stays and that nothing new
exists before it is gone (`OldInv`), and how machine, settings, task and lease go together,
one part for sources that end in a task and one for those that end in a lease (`TaskInv`,
`LeaseInv`): `Made`, the settings of the first request, is what `PostSettings` of the
second completes (lemma `MadeAndPost`). Only model-checked: `Settles`.

## Export

`StepExport`: the lease, the files that are downloaded, descriptor, manifest and archive.
`output` says of each file of the output directory whether it is absent, from before,
partial or of this export; `hashed` is what the manifest will list. One action per
request or file operation; any may fail and leave a partial file. The lease is
completed before the descriptor is asked for, and no path aborts it: `Settles`
(liveness) shows that it ends because the updater stops with the step and the server
lets it expire. `WholeExport`: no descriptor, manifest or archive without every file it
stands for, complete and of the same export, whatever fails; a reported export is there.

Runs: `export`, a machine with two disks and another file between them, every
configuration, every output directory: 107,920 states. `export_ova` shows a disagreement:
with the manifest "none" the step returns before the conversion, so the format `ova`
makes no OVA and reports success. Also met, and not a run: `Prepare` looks only for
the descriptor or the archive, so the other files of an earlier export are overwritten
without `force`, although `step_export.go:91` says that an error is returned. Fairness
as in `Deployment`.

Proved in `ExportProofs`: `TypeCorrect` and `ExportIsWhole` (`WholeExport`), for any list of
items of any length, under `ExportAssumption`: the items are images, no two the same, and
no image has the name of a file the step writes itself. While files are downloaded, those
before the index are of this export and exactly they are listed (`DownloadInv`); a file that
describes others is written at one place only, after them (`WriteInv`). `WholeExport`
alone would not survive a step, as it says nothing of the files before the
descriptor is there. Only model-checked: `Settles`.

## LibraryImport

Builds that import into one library item, and the session of the REST client
that the steps of a build share. `item` and `content` are the item of the name and whose
machine it holds; `session` is the client's session, which `Login` opens and several
look-ups close. One action per request; a look-up whose error the code takes to mean
"there is none" has that outcome whenever the request may fail.
Only steps that use the session are here; the machine is a value.

Properties: `TypeOK`; `ReplacedOnRequest` (action property: an item is deleted or
refilled only by a build that is to overwrite it, or that imports OVF templates, also
when another build's item comes in between look-up and deletion); `ImportedIsThere`
(when all have ended an item is there if one imported, unless a build failed between
deleting the old item and creating its own).

Runs: `library_import`, two builds, every configuration of the import, every library:
283,449 states. Two builds are enough because an item is the meeting of a deleter and a
creator. `library_session` shows a disagreement: the look-up of an ISO that is
in a library logs the client out (`content_library.go:112`), and the tags that are
applied after it find no session. Safety only; nothing here waits.

Proved in `LibraryImportProofs`, for any number of builds: `TypeCorrect`, `ItemIsThere`
(`ImportedIsThere`) and `OnlyReplacedOnRequest` (`ReplacedOnRequest`).
`LibraryAssumption` gives the types, that a library which is not found has no item, and
that no build is named as the old item. The property holds at the end and says that the
item is there; the invariant says the same of every moment: there is no item only if a build
is `Stranded` between its deletion and its creation or has failed there, or if no build has
come past its creation yet and none was there from before (`ContentInv`).

## PostProcess

`vsphere`, which uploads a machine with ovftool, and `vsphere-template`, which makes a
template of what was uploaded or of what a builder left. Both find machines by path;
`inventory` says which thing is at each path that matters, `template` which things
are templates, `destroyed` what is gone. `OtherBuild` registers a template of the same
name at any moment, `Interrupt` cancels the context: the runner then stops before the
next step without an error. `Upload` is one attempt; whether one succeeded is not
looked at (`post-processor.go:281`).

Properties: `TypeOK`; `TemplateIsMade` (an uninterrupted success has left a
template with its tags, at the path asked for, and of the chain's machine unless another of its
name was in a folder that is searched); `NothingIsLost` (what was registered stays so,
unless it was a template that `override` replaced, a machine that ovftool overwrote, or
what `reregister_vm` unregistered).

Runs: `post_process`, every configuration and inventory, two attempts: 650,454 states.
`template_override` shows a disagreement: without `template_name` the
template of an earlier build is found as the machine, is destroyed to make room for
itself, and the step fails. Deadlock is not checked: the chain stops when it has ended. Also
met: the error of the upload is ignored, and the chain goes on with whatever has the
name; with `reregister_vm` the machine that has the template's path is unregistered without
`override` (`step_mark_as_template.go:130`); without it `template_name` and
`folder` are ignored; and a snapshot is taken only of a machine in
"Discovered virtual machine", wherever the machine was found.

Proved in `PostProcessProofs`, for all configurations and inventories and any number of
attempts: `TypeCorrect`, `SuccessIsATemplate` (`TemplateIsMade`) and `InventoryIsKept`
(`NothingIsLost`). `PostProcessAssumption` gives the types and one attempt at
least. The invariant adds at which places a machine has been found and where it can come from
(`MachineInv`; until then the folders change only by uploads, `FoldersInv`), that what is to
be tagged is a registered template at its place (`MadeInv`), who may have destroyed what
(`DestroyedInv`), and that something known is out of the inventory only between the
unregistering and the registering of `reregister_vm`, or after an error there
(`RegisteredInv`). Nothing of this module is left to TLC alone but the disagreement.

## Algorithms

`DiskAttachment`, `StoragePlacement` and `DataSources` have no state of their own: they
are functions of what the server has and what the configuration asks for, as operators.
A loop of the code is a recursive function of the number of its turns, so that what holds
after each turn can be proved by induction; `Loops` has the one loop that two of
them share, which keeps the members of a list that pass. Each module says which inputs it is
for (`IsConfiguration`, `IsTemplate`, `IsRequested`, `IsOffered`, `IsQuery`, `IsInventory`):
the types of the options, and facts about vCenter such as that a machine has one controller on a
bus and that a listing names no object twice.

`Algorithms` is a state machine whose initial states choose what the server has and whose one
step chooses what is asked for, for any sets of inputs of these kinds. `MCAlgorithms` gives it bounded inputs, and
the run `algorithms` checks each result against a definition of what it should be
(1,038,374 states):

- `DisksAttachAsAsked`: what `prepareStorage` and `addStorageDevices` accept is attached as
  asked, each disk once, on a unit and controller that exist; what they refuse is
  refused for the template, for a bus out of turn, or for an address that is spelled in two
  ways. Bounds: up to three disks, two controllers of a kind, two units (four of
  PVSCSI), which is enough for a controller to be full, a bus to be taken, and the unit
  of the controller itself to lie between two others. A bus that the template already has
  makes the check of the configuration take another type than the allocation does, and
  `disk.go:129` then makes a controller without checking its unit: an excluded case, which
  `MCAlgorithms_units.cfg` shows.
- `DisksPlacedAsRecommended`: every disk goes where it is configured, where Storage
  DRS recommends or where its policy fits. Up to three disks, two datastores, two
  actions (three that name a destination only). Recommendations are in the order in which
  disks are attached, those without an address first, but `DiskDatastores` is matched
  by the order of the blocks (`disk.go:43`): where a disk with an address comes before one
  without, they change places. The property excludes this and
  `MCAlgorithms_datastores.cfg` shows it, with two datastores in the cluster.
- `QueriesFindTheOne`: a data source answers with the object it is asked for, or with
  one no other scores higher than, independent of the order of the listing. Inventories of
  two objects, with a host and a cluster; one unreadable object. "At the host" has the
  documented meaning, "only on the specified ESX host"
  (`datasource/virtualmachine/data.go:50`). The code filters by host with the names of the
  host's machines (`virtualmachine/filters.go:48`), so a machine of the same name elsewhere
  passes: a query by host in an inventory with such a machine (`NameIsShared`) is
  excluded, and `MCAlgorithms_host.cfg` shows it.

The reference definitions are stated without walking over the disks or objects, so
that they do not repeat the code.

### What is proved

`AlgorithmProofs` proves the three, for any number of disks, types, controllers,
recommendations, policies, objects and filters, and for any limits of the controllers:

| Theorem | States | From, for one input |
|---|---|---|
| `DisksAreAttached` | `Spec => []DisksAttachAsAsked` | `DisksAttached` |
| `DisksArePlaced` | `Spec => []DisksPlacedAsRecommended` | `PlacedWell` |
| `QueriesAreAnswered` | `Spec => []QueriesFindTheOne` | `DataSourceFindsTheOne` |

The assumptions: `AlgorithmsAssumption` (the sets hold inputs of the kinds above),
`DiskAttachmentAssumption` (limits are numbers, and PVSCSI controllers allow as many SCSI
disks as others or more), `StoragePlacementAssumption` and `DataSourcesAssumption` ("none" and "unset"
are told apart from values). The state machine adds only that what is asked for fits the algorithm
(`InputsAreTyped`); the argument is about the functions. A function of the number of turns is
shown to be what its definition says by the library's theorem on well-founded recursion;
then a named predicate of the number of turns is shown for 0 and from one turn to the
next, and `BoundedInduction` gives it for the last.

- *Disks.* The invariant of the allocation is `Fine`: one controller on a bus, each disk so
  far at a place of its own that the template did not use, on a controller that is there
  and at a unit it has. `Turn` adds, for the disks with an address, that an entry of
  `disk_controller_type` has made at most one controller (`Counted`) and, where all disks have
  an address, that the buses that are there and the next entry are those of the first n disks
  (`ExplicitFit`). That second part links two walks over the storage blocks: the check of
  the configuration counts buses as they are first mentioned, without the template; the
  allocation counts the controllers it makes. They meet where no bus mentioned is in the
  template (`TypeIndexIs`), which is why a bus of the template is the excluded case. For what is
  not refused, each test of the allocation is shown to succeed (`UnitIsFree`, `BusIsNext`,
  `NotTooManyDisks`).
- *Placement.* After the first loop a disk is where the last action that moves it says
  (`MovesAre`). In the second, the disks without a move take the destinations in order:
  `DestinationsTaken` says that the ranks of a disk and its action are equal and that no
  destination is skipped while a disk is left over. So the two loops amount to the definition by
  ranks (`RecommendationIs`).
- *Queries.* The filters of each data source judge an object as the definition does, or fail
  because it cannot be read (`Judges`, one lemma for each of the nine). With `KeptIs`, what is left
  of the listing is what is asked for (`FilteredIs`), where no machine of the host shares
  its name with one elsewhere (`NameIsShared`); `ResolveOneIs` says what the selection
  makes of it, and both depend on the order only among equal scores.

## What is proved and what is only checked

Proved by TLAPS, for every value of the constants: every safety invariant and every action
property that a passing run checks, of the seven state machines from `BuildPipeline` to
`PostProcess` and of the algorithms, and the safety part of the two refinements. The
assumptions are those named in each section; they state types and facts about vSphere, never
something the code has to achieve, and TLC evaluates them in the runs. Each inductive
invariant of the state machines was checked by TLC on the instance of its run before it was proved.

Model-checked only:

- Liveness (`BuildReturns`, `BuildEnds`, `Ends`, both `Settles`, and the fair half of
  `ImplementsContract`): it needs fairness and ENABLED, which the prover does not have.
- The disagreements: a counterexample is one behaviour, which TLC shows.

## Not modelled

- `RemoteCache`: two builds that share a datastore's cache of ISO images;
  in `BuildPipeline` the upload is one action of one build.
- `WaitForIp`: the goroutine inside the wait for an address, which races with the
  settle time and the timeout; the step is one action with its outcomes.
- `CdRomDevices`: how many CD-ROM devices there are and on which controller.
- Inventory look-ups (datastore, folder, host, pool, network, cluster): they keep no
  state, and appear as failures of the steps that make them.
- The validation of the options that no module here reads, and the
  specifications of devices: data, without control that a property could be about.
- Generated HCL2 code and documentation scripts, which keep no state.
