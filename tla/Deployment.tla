------------------------------ MODULE Deployment ------------------------------
(***************************************************************************)
(* The step that makes the machine: StepCreateVM of the vsphere-iso builder *)
(* and StepCloneVM of the vsphere-clone builder with its three sources, down*)
(* to the requests of the driver.  The server runs tasks and leases on its  *)
(* own, so that a machine may appear after the step has given up, and a     *)
(* lease that nobody renews expires.                                        *)
(*                                                                          *)
(* Any request may fail.  Interrupt cancels the step's context; the driver  *)
(* makes some requests with that context and others with its own.           *)
(***************************************************************************)
EXTENDS Naturals, FiniteSets

CONSTANTS
  Configs,   \* configurations: see ConfigType
  Worlds     \* what the server and the source of the machine hold: see WorldType

\* What a configuration may ask for besides the machine itself.
Settings == {"network", "mac", "annotation", "size", "storage", "vapp", "option", "linked"}

\* ovf_source: url is the protocol of a proper URL, or what is wrong with it.
OvfSources ==
  [url : {"", "https", "http", "no host", "other protocol", "other file"},
   path : {"", "file", "other file", "missing"},
   username : BOOLEAN, password : BOOLEAN, skipTlsVerify : BOOLEAN]

ConfigType ==
  [source : {"create", "template", "ovf", "library"}, force : BOOLEAN,
   wants : SUBSET Settings, ovf : OvfSources]

\* old: the machine at the path of the new one; same: it is the template itself;
\* item: type of the library item; has: what the template or descriptor defines.
WorldType ==
  [old : {"none", "off", "on", "template"}, same : BOOLEAN,
   item : {"ovf", "vm-template", "iso"}, files : Nat,
   has : SUBSET {"networks", "adapter", "disk", "options", "properties", "snapshot"}]

ASSUME DeploymentAssumption ==
  /\ \A c \in Configs : c \in ConfigType
  /\ \A w \in Worlds : w \in WorldType /\ (w.same => w.old # "none")

VARIABLES
  config, world, \* chosen at the start
  at,        \* where the step is
  old,       \* state of the machine that was at the path
  machine,   \* the new machine: "none", "partial" (files missing), "whole"
  settings,  \* what has been set on the new machine
  task,      \* the server's task that makes the machine
  lease,     \* the server's lease for the upload
  updater,   \* StartUpdater's goroutine renews the lease
  sent,      \* files uploaded
  abort,     \* answer to lease.Abort or task.Cancel: "none", "accepted", "refused"
  cancelled, \* the step's context is cancelled
  failure    \* why the step halted

given == <<config, world>>
upload == <<lease, updater, sent, abort>>
server == <<old, machine, settings, task, upload>>
vars == <<given, at, server, cancelled, failure>>

-----------------------------------------------------------------------------
(* Validation *)

\* Mutant: nothing is said about a MAC address without a network.
MutantPrepared(c) ==
  /\ c.source = "template" => "option" \notin c.wants
  /\ ~({"linked", "size"} \subseteq c.wants)

\* CloneConfig.prepareOvfSource, with prepareContentLibrarySource.
PreparedSource(c) ==
  LET s == c.ovf
  IN /\ c.source = "ovf" =>
          /\ (s.url = "") # (s.path = "")
          /\ s.url \in {"", "https", "http", "no host"} /\ s.path \in {"", "file"}
          /\ s.path # "" => ~s.username /\ ~s.password /\ ~s.skipTlsVerify
          /\ s.url # "" => s.username = s.password
          /\ {"size", "linked", "storage"} \cap c.wants = {}
     /\ c.source = "library" => "linked" \notin c.wants

\* CloneConfig.Prepare, what concerns the settings.
Prepared(c) ==
  /\ c.source = "template" => "option" \notin c.wants
  /\ ~({"linked", "size"} \subseteq c.wants)
  /\ "mac" \in c.wants => "network" \in c.wants \/ c.source \in {"ovf", "library"}

\* VCenterDriver.validateOvfSource, with validateOvfURL.
ValidOvfSource(s) ==
  \/ /\ s.path = "file" /\ s.url = ""
     /\ ~s.username /\ ~s.password /\ ~s.skipTlsVerify
  \/ /\ s.path = "" /\ s.url \in {"https", "http"}
     /\ s.username = s.password
     /\ s.skipTlsVerify => s.url = "https"

\* StepCloneVM.validateContentLibrarySourceOptions.
ValidLibraryOptions(c, item) ==
  /\ item = "vm-template" =>
       /\ "mac" \in c.wants => "network" \in c.wants
       /\ "option" \notin c.wants
  /\ item = "ovf" => c.wants \cap {"size", "storage"} = {}

\* A configuration of vsphere-iso has no source to ask anything of.
Accepted(c) ==
  IF c.source = "create" THEN c.wants \subseteq {"network", "mac", "annotation", "storage"}
  ELSE Prepared(c) /\ PreparedSource(c)

Init ==
  /\ config \in {c \in Configs : Accepted(c)}
  /\ world \in Worlds
  /\ world.same => config.source = "template"
  /\ at = IF config.source = "template" THEN "find template" ELSE "lookup"
  /\ old = world.old
  /\ machine = "none" /\ settings = {}
  /\ task = "none" /\ lease = "none" /\ updater = FALSE
  /\ sent = 0 /\ abort = "none"
  /\ cancelled = FALSE /\ failure = "none"

-----------------------------------------------------------------------------
(* How an operation ends *)

Asks(s) == s \in config.wants
Has(s) == s \in world.has

GoTo(place) == at' = place /\ UNCHANGED <<given, cancelled, failure>>

Fails(why) ==
  /\ at' = "halted" /\ failure' = why
  /\ UNCHANGED <<given, cancelled>>

\* A request, or a check that does not look at what the model has, fails.
Refused(why) == Fails(why) /\ UNCHANGED server

Interrupt ==
  /\ ~cancelled /\ at \notin {"deployed", "halted"}
  /\ cancelled' = TRUE
  /\ UNCHANGED <<given, at, server, failure>>

-----------------------------------------------------------------------------
(* The template, and the machine that is in the way *)

FindTemplate ==
  /\ at = "find template"
  /\ \/ GoTo("lookup") /\ UNCHANGED server
     \/ Refused("no template")

\* Mutant: a machine in the way is removed without -force.
MutantPreCleanVM ==
  /\ at = "lookup"
  /\ \/ Refused("lookup")
     \/ old = "none" /\ GoTo("resolve") /\ UNCHANGED server
     \/ old # "none" /\ GoTo("power off") /\ UNCHANGED server

PreCleanVM ==
  /\ at = "lookup"
  /\ \/ Refused("lookup")
     \/ old = "none" /\ GoTo("resolve") /\ UNCHANGED server
     \/ old # "none" /\ config.force /\ GoTo("power off") /\ UNCHANGED server
     \/ old # "none" /\ ~config.force /\ Refused("exists")

\* An error of PowerOff is ignored.
PowerOffOld ==
  /\ at = "power off"
  /\ old' \in IF old = "on" THEN {"on", "off"} ELSE {old}
  /\ GoTo("convert")
  /\ UNCHANGED <<machine, settings, task, upload>>

ConvertOld ==
  /\ at = "convert"
  /\ \/ Refused("preclean")
     \/ /\ old' = IF old = "template" THEN "off" ELSE old
        /\ GoTo("destroy")
        /\ UNCHANGED <<machine, settings, task, upload>>

\* A machine that is on cannot be destroyed; the answer may be lost.
DestroyOld ==
  /\ at = "destroy"
  /\ \/ Refused("preclean")
     \/ /\ old # "on" /\ old' = "none"
        /\ GoTo("resolve") \/ Fails("preclean")
        /\ UNCHANGED <<machine, settings, task, upload>>

\* The template may be the machine that was in the way.
TemplateExists == world.same => old # "none"

\* Storage policies, placement and the source; only then the options are checked
\* that depend on it.
ResolveSource ==
  /\ at = "resolve"
  /\ UNCHANGED server
  /\ \/ Fails("source")
     \/ config.source = "create" /\ GoTo("deploy")
     \/ config.source = "template" /\ TemplateExists /\ GoTo("deploy")
     \/ /\ config.source = "library"
        /\ IF ValidLibraryOptions(config, world.item) THEN GoTo("deploy")
           ELSE Fails("options")
     \/ /\ config.source = "ovf"
        /\ IF Asks("option") => ValidOvfSource(config.ovf) /\ Has("options")
           THEN GoTo("deploy")
           ELSE Fails(IF ValidOvfSource(config.ovf) THEN "options" ELSE "invalid source")

-----------------------------------------------------------------------------
(* Tasks: CreateVM, Clone and the deployment of library items *)

StartTask(made) ==
  /\ task' = "running" /\ settings' = made
  /\ GoTo("await")
  /\ UNCHANGED <<old, machine, upload>>

CreateVM ==
  /\ at = "deploy" /\ config.source = "create"
  /\ StartTask(config.wants) \/ Refused("inventory")

\* The MAC address is set along with the network only.
WithNetwork(wants) == IF "network" \in wants THEN wants ELSE wants \ {"mac"}

\* The machine is configured while it is cloned.
CloneTemplate ==
  /\ at = "deploy" /\ config.source = "template"
  /\ \/ Refused("inventory")
     \/ /\ Asks("linked") => Has("snapshot")
        /\ Asks("size") => Has("disk")
        /\ Asks("network") => Has("adapter")
        /\ Asks("vapp") => Has("properties")
        /\ StartTask(WithNetwork(config.wants))

\* Networks are mapped if the descriptor has any; if not, the one that is asked
\* for is not looked at.
WithMapping(wants) == IF Has("networks") THEN wants ELSE wants \ {"network"}

DeployContentLibraryOvf ==
  /\ at = "deploy" /\ config.source = "library" /\ world.item = "ovf"
  /\ \/ Refused("inventory")
     \/ /\ Asks("option") => Has("options")
        /\ Has("networks") => Asks("network")
        /\ StartTask(WithMapping(config.wants \ {"mac"}))

DeployContentLibraryVmtx ==
  /\ at = "deploy" /\ config.source = "library"
  /\ \/ world.item = "vm-template" /\ StartTask(config.wants \cap {"annotation"})
     \/ world.item # "ovf" /\ Refused("inventory")

\* The server finishes a task whether or not somebody waits for it.
ServerRunsTask ==
  /\ task = "running"
  /\ \/ task' = "done" /\ machine' = "whole" /\ UNCHANGED settings
     \/ task' = "failed" /\ settings' = {} /\ UNCHANGED machine
  /\ UNCHANGED <<given, at, old, upload, cancelled, failure>>

\* CreateVM waits with the driver's context and the others with the step's; only
\* Clone cancels its task.
AwaitTask ==
  /\ at = "await"
  /\ UNCHANGED <<old, machine, lease, updater, sent>>
  /\ \/ /\ \/ task = "done" /\ GoTo("configure")
           \/ task = "failed" /\ Fails("task")
           \/ (~cancelled \/ config.source = "create") /\ Fails("answer lost")
           \/ cancelled /\ config.source = "library" /\ Fails("interrupted")
        /\ UNCHANGED <<task, settings, abort>>
     \/ /\ cancelled /\ config.source = "template" /\ Fails("interrupted")
        /\ \/ /\ task = "running"
              /\ task' = "cancelled" /\ settings' = {} /\ abort' = "accepted"
           \/ abort' = "refused" /\ UNCHANGED <<task, settings>>

-----------------------------------------------------------------------------
(* DeployOvf: an import whose files are uploaded under a lease *)

\* Everything up to the import specification: the source is validated, its
\* descriptor read and parsed, and the inventory looked up.
CreateImportSpec ==
  /\ at = "deploy" /\ config.source = "ovf"
  /\ UNCHANGED server
  /\ \/ ~ValidOvfSource(config.ovf) /\ Fails("invalid source")
     \/ ValidOvfSource(config.ovf) /\ Fails("inventory")
     \/ /\ ValidOvfSource(config.ovf) /\ ~cancelled
        /\ Has("networks") => Asks("network")
        /\ GoTo("import")

\* The server makes a machine without files; the answer may be lost.
ImportVApp ==
  /\ at = "import"
  /\ \/ Refused("inventory")
     \/ /\ ~cancelled
        /\ lease' = "open" /\ machine' = "partial"
        /\ settings' = WithMapping(config.wants \ {"annotation", "mac"})
        /\ GoTo("wait") \/ Fails("answer lost")
        /\ UNCHANGED <<old, task, updater, sent, abort>>

\* Mutant: the lease is left as it is.
MutantAbortLease ==
  /\ UNCHANGED <<lease, machine, abort>>
  /\ updater' = FALSE

\* lease.Abort is sent with the step's context and its answer is ignored; the
\* deferred updater.Done follows.
AbortLease ==
  /\ \/ /\ ~cancelled /\ lease = "open"
        /\ lease' = "released" /\ machine' = "none" /\ abort' = "accepted"
     \/ abort' = "refused" /\ UNCHANGED <<lease, machine>>
  /\ updater' = FALSE

WaitForLease ==
  /\ at = "wait"
  /\ UNCHANGED <<old, task, settings, sent>>
  /\ \/ AbortLease /\ Fails("lease")
     \/ /\ ~cancelled /\ lease = "open"
        /\ updater' = TRUE /\ GoTo("upload")
        /\ UNCHANGED <<lease, machine, abort>>

\* Mutant: the loop goes one file too far.
MutantUploadFile ==
  /\ at = "upload" /\ sent <= world.files
  /\ UNCHANGED <<old, task, settings>>
  /\ \/ AbortLease /\ Fails("upload") /\ UNCHANGED sent
     \/ /\ ~cancelled /\ lease = "open"
        /\ sent' = sent + 1 /\ GoTo("upload")
        /\ UNCHANGED <<lease, machine, updater, abort>>

\* The source cannot be opened, a file cannot be read or sent, or one more is.
UploadFile ==
  /\ at = "upload" /\ sent < world.files
  /\ UNCHANGED <<old, task, settings>>
  /\ \/ AbortLease /\ Fails("upload") /\ UNCHANGED sent
     \/ /\ ~cancelled /\ lease = "open"
        /\ sent' = sent + 1 /\ GoTo("upload")
        /\ UNCHANGED <<lease, machine, updater, abort>>

\* Mutant: the updater goes on.
MutantCompleteLease ==
  /\ at = "upload" /\ sent = world.files
  /\ UNCHANGED <<old, task, settings, sent, updater, abort>>
  /\ \/ Fails("complete") /\ UNCHANGED <<lease, machine>>
     \/ /\ ~cancelled /\ lease = "open"
        /\ lease' = "completed" /\ machine' = "whole"
        /\ GoTo("configure") \/ Fails("complete")

\* An error of lease.Complete is returned without an abort.
CompleteLease ==
  /\ at = "upload" /\ sent = world.files
  /\ updater' = FALSE
  /\ UNCHANGED <<old, task, settings, sent, abort>>
  /\ \/ Fails("complete") /\ UNCHANGED <<lease, machine>>
     \/ /\ ~cancelled /\ lease = "open"
        /\ lease' = "completed" /\ machine' = "whole"
        /\ GoTo("configure") \/ Fails("complete")

\* A lease that is not renewed expires, and the server removes the machine.
LeaseExpires ==
  /\ lease = "open" /\ (~updater \/ cancelled)
  /\ lease' = "released" /\ machine' = "none" /\ settings' = {}
  /\ UNCHANGED <<given, at, old, task, updater, sent, abort, cancelled, failure>>

-----------------------------------------------------------------------------
(* What is set after the deployment *)

\* The settings that a second request sets, and what the machine needs for them.
PostSettings ==
  CASE config.source = "ovf" -> config.wants \cap {"annotation", "mac"}
    [] config.source = "library" /\ world.item = "ovf" -> config.wants \cap {"mac"}
    [] config.source = "library" /\ world.item # "ovf" -> WithNetwork(config.wants) \ {"annotation"}
    [] OTHER -> {}

Applicable ==
  /\ PostSettings \cap {"mac", "network"} # {} => Has("adapter")
  /\ "size" \in PostSettings => Has("disk")
  /\ "vapp" \in PostSettings => Has("properties")

\* An error leaves the machine without telling the step's cleanup of it; so does
\* an import that made something else than a machine.
ConfigureMachine ==
  /\ at = "configure"
  /\ \/ /\ Applicable
        /\ settings' = settings \cup PostSettings
        /\ GoTo("deployed")
        /\ UNCHANGED <<old, machine, task, upload>>
     \/ /\ config.source = "ovf" \/ config.source = "library"
        /\ Refused("configure")

-----------------------------------------------------------------------------

Ended == at \in {"deployed", "halted"}

Step ==
  \/ FindTemplate \/ PreCleanVM \/ PowerOffOld \/ ConvertOld \/ DestroyOld
  \/ ResolveSource \/ CreateVM \/ CloneTemplate \/ DeployContentLibraryOvf
  \/ DeployContentLibraryVmtx \/ AwaitTask \/ CreateImportSpec \/ ImportVApp
  \/ WaitForLease \/ UploadFile \/ CompleteLease \/ ConfigureMachine

Server == ServerRunsTask \/ LeaseExpires

Terminated == Ended /\ UNCHANGED vars

Next == Step \/ Server \/ Interrupt \/ Terminated

Spec == Init /\ [][Next]_vars

\* The step goes on, tasks end, and the server enforces the time limit of leases.
FairSpec == Spec /\ WF_vars(Step) /\ WF_vars(ServerRunsTask) /\ WF_vars(LeaseExpires)

-----------------------------------------------------------------------------
(* Properties *)

\* Type invariant.
TypeOK ==
  /\ config \in Configs /\ world \in Worlds
  /\ at \in {"find template", "lookup", "power off", "convert", "destroy", "resolve",
             "deploy", "await", "import", "wait", "upload", "configure", "deployed", "halted"}
  /\ old \in {"none", "off", "on", "template"}
  /\ machine \in {"none", "partial", "whole"} /\ settings \subseteq Settings
  /\ task \in {"none", "running", "done", "failed", "cancelled"}
  /\ lease \in {"none", "open", "completed", "released"}
  /\ updater \in BOOLEAN /\ sent \in 0 .. world.files
  /\ abort \in {"none", "accepted", "refused"} /\ cancelled \in BOOLEAN
  /\ failure \in {"none", "no template", "lookup", "exists", "preclean", "source", "options",
       "invalid source", "inventory", "task", "answer lost", "interrupted", "lease",
       "upload", "complete", "configure"}

\* A machine that the step hands to the following steps has all its files and
\* everything the configuration asks for, whichever of the sources, the checks
\* and the two requests that configure it were to see to that.
AsConfigured ==
  at = "deployed" =>
    /\ machine = "whole"
    /\ settings = IF \/ config.source = "ovf"
                     \/ config.source = "library" /\ world.item = "ovf"
                  THEN WithMapping(config.wants) ELSE config.wants
    /\ config.source = "ovf" => lease = "completed" /\ sent = world.files
    /\ ~updater

\* The machine in the way is lost only with -force, not before the template is
\* found, and never is there a new machine beside it.
OldMachineKept ==
  /\ world.old # "none" /\ old = "none" =>
       config.force /\ failure \notin {"no template", "lookup", "exists"}
  /\ machine # "none" \/ task # "none" => old = "none"

\* A step that fails leaves a machine, a task or a lease only if an answer was lost
\* (as that of a deployment from the library when it is interrupted), if the task
\* or the lease could not be stopped (as with the context that is cancelled), or
\* if it could not be completed or the machine not be configured.
LeftBehind ==
  at = "halted" /\ (machine # "none" \/ task = "running" \/ lease = "open") =>
    \/ failure \in {"answer lost", "complete", "configure"}
    \/ failure = "interrupted" /\ config.source = "library"
    \/ abort = "refused"

\* The step ends, and whatever it leaves settles: no task runs, no lease is open
\* and no machine waits for files for ever.
Settles ==
  <>[](Ended /\ task # "running" /\ lease # "open" /\ machine # "partial" /\ ~updater)

\* step_clone.go:210: "Prepare validates the CloneConfig and returns any validation
\* errors."  Then what it accepts the driver does not find invalid, after -force
\* has destroyed the machine in the way.
PrepareFindsInvalidSource == failure # "invalid source"
=============================================================================
