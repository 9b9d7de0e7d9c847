---------------------------- MODULE DeploymentProofs ----------------------------
(***************************************************************************)
(* Proofs about Deployment, for every set of configurations and of worlds.  *)
(***************************************************************************)
EXTENDS Deployment, TLAPS

-----------------------------------------------------------------------------
(* The inductive invariant *)

\* The places before the machine in the way is gone, and those before the server
\* has been asked for the new one.
Early == {"find template", "lookup", "power off", "convert", "destroy"}
Before == Early \cup {"resolve", "deploy", "import"}

\* What the request that makes the machine sets.
Made ==
  CASE config.source = "create" -> config.wants
    [] config.source = "template" -> WithNetwork(config.wants)
    [] config.source = "library" /\ world.item = "ovf" -> WithMapping(config.wants \ {"mac"})
    [] config.source = "library" /\ world.item # "ovf" -> config.wants \cap {"annotation"}
    [] config.source = "ovf" -> WithMapping(config.wants \ {"annotation", "mac"})
    [] OTHER -> {}

\* What the checks let pass.
CheckedInv ==
  /\ Accepted(config)
  /\ at \in {"deploy", "await", "configure"} /\ config.source = "library" =>
       ValidLibraryOptions(config, world.item)
  /\ at \in {"await", "configure"} /\ config.source = "library" => world.item # "iso"
  /\ failure = "none" <=> at # "halted"

\* The machine in the way stays as it was until the step removes it, which it does
\* only with -force, and no request for a new one is made before it is gone.
OldInv ==
  /\ at \in {"find template", "lookup"} => old = world.old
  /\ at \in {"power off", "convert", "destroy"} => config.force
  /\ at \notin Early \cup {"halted"} => old = "none"
  /\ at \in Before =>
       /\ machine = "none" /\ task = "none" /\ lease = "none" /\ sent = 0
       /\ settings = {} /\ ~updater

\* Machines that a task of the server makes.
TaskInv ==
  /\ task # "none" => config.source # "ovf"
  /\ task = "running" => at \in {"await", "halted"}
  /\ config.source # "ovf" =>
       /\ lease = "none" /\ machine = IF task = "done" THEN "whole" ELSE "none"
       /\ at \notin {"import", "wait", "upload"}
       /\ at = "await" => task \in {"running", "done", "failed"}
       /\ at \in {"configure", "deployed"} => task = "done"
       /\ at \in {"await", "configure"} /\ task \in {"running", "done"} => settings = Made

\* Machines that are uploaded under a lease.
LeaseInv ==
  /\ updater => at = "upload"
  /\ at = "await" => config.source # "ovf"
  /\ lease = "open" => at \in {"wait", "upload", "halted"}
  /\ config.source = "ovf" =>
       /\ machine = CASE lease = "open" -> "partial"
                      [] lease = "completed" -> "whole"
                      [] OTHER -> "none"
       /\ at \in {"wait", "upload"} /\ lease = "open" => settings = Made
       /\ at \in {"configure", "deployed"} => lease = "completed" /\ sent = world.files
       /\ at = "configure" => settings = Made

IInv ==
  /\ TypeOK /\ CheckedInv /\ OldInv /\ TaskInv /\ LeaseInv
  /\ AsConfigured /\ OldMachineKept /\ LeftBehind

-----------------------------------------------------------------------------
(* Lemmas *)

\* Configuration and world stay what they are, and all that is computed from them.
LEMMA GivenStays ==
  ASSUME UNCHANGED given
  PROVE  /\ config' = config /\ world' = world
         /\ Made' = Made /\ PostSettings' = PostSettings
         /\ WithMapping(config.wants)' = WithMapping(config.wants)
         /\ Accepted(config)' = Accepted(config)
         /\ ValidLibraryOptions(config, world.item)' = ValidLibraryOptions(config, world.item)
  <1>1. config' = config /\ world' = world
    BY DEF given
  <1>2. Made' = Made
    BY <1>1 DEF Made, WithMapping, Has
  <1>3. PostSettings' = PostSettings
    BY <1>1 DEF PostSettings
  <1>4. WithMapping(config.wants)' = WithMapping(config.wants)
    BY <1>1 DEF WithMapping, Has
  <1>5. QED BY <1>1, <1>2, <1>3, <1>4

LEMMA GivenType ==
  ASSUME TypeOK
  PROVE  /\ config.source \in {"create", "template", "ovf", "library"}
         /\ config.force \in BOOLEAN /\ config.wants \subseteq Settings
         /\ world.old \in {"none", "off", "on", "template"}
         /\ world.item \in {"ovf", "vm-template", "iso"} /\ world.files \in Nat
  <1>1. config \in ConfigType /\ world \in WorldType
    BY DeploymentAssumption DEF TypeOK
  <1>2. QED BY <1>1 DEF ConfigType, WorldType

\* What the two requests set together is what was asked for, but for a network that
\* the descriptor does not have.
LEMMA MadeAndPost ==
  ASSUME TypeOK, CheckedInv, at = "configure"
  PROVE  /\ Made \subseteq Settings /\ PostSettings \subseteq Settings
         /\ Made \cup PostSettings =
              IF config.source = "ovf" \/ (config.source = "library" /\ world.item = "ovf")
              THEN WithMapping(config.wants) ELSE config.wants
  <1> DEFINE wants == config.wants
  <1>1. wants \subseteq Settings
    BY GivenType
  <1>2. CASE config.source = "create"
    BY <1>1, <1>2 DEF Made, PostSettings
  <1>3. CASE config.source = "template"
    <2>1. "mac" \in wants => "network" \in wants
      BY <1>3 DEF CheckedInv, Accepted, Prepared
    <2>2. WithNetwork(wants) = wants
      BY <2>1 DEF WithNetwork
    <2>3. QED BY <1>1, <1>3, <2>2 DEF Made, PostSettings
  <1>4. CASE config.source = "library" /\ world.item = "ovf"
    BY <1>1, <1>4 DEF Made, PostSettings, WithMapping
  <1>5. CASE config.source = "library" /\ world.item # "ovf"
    <2>1. world.item = "vm-template"
      BY <1>5, GivenType DEF CheckedInv
    <2>2. "mac" \in wants => "network" \in wants
      BY <1>5, <2>1 DEF CheckedInv, ValidLibraryOptions
    <2>3. WithNetwork(wants) = wants
      BY <2>2 DEF WithNetwork
    <2>4. QED BY <1>1, <1>5, <2>3 DEF Made, PostSettings
  <1>6. CASE config.source = "ovf"
    BY <1>1, <1>6 DEF Made, PostSettings, WithMapping
  <1>7. QED BY <1>2, <1>3, <1>4, <1>5, <1>6, GivenType

-----------------------------------------------------------------------------
(* The invariant is kept *)

LEMMA InitIInv == Init => IInv
  <1> SUFFICES ASSUME Init PROVE IInv
    OBVIOUS
  <1>1. world \in WorldType /\ world.files \in Nat /\ world.old \in {"none", "off", "on", "template"}
    BY DeploymentAssumption DEF Init, WorldType
  <1>2. TypeOK
    <2>1. sent = 0 /\ 0 \in 0 .. world.files
      <3>1. 0 \in 0 .. world.files
        BY <1>1
      <3>2. QED BY <3>1 DEF Init
    <2>2. config \in Configs /\ at \in {"find template", "lookup"}
      BY DEF Init
    <2>3. QED BY <1>1, <2>1, <2>2 DEF Init, TypeOK
  <1>3. CheckedInv /\ OldInv /\ TaskInv /\ LeaseInv
    BY DEF Init, CheckedInv, OldInv, TaskInv, LeaseInv, Before, Early
  <1>4. AsConfigured /\ OldMachineKept /\ LeftBehind
    BY DEF Init, AsConfigured, OldMachineKept, LeftBehind
  <1>5. QED BY <1>2, <1>3, <1>4 DEF IInv

\* As long as the server has not been asked for a machine, a step may change the
\* one in the way, and fail, and nothing is left behind.
LEMMA BeforeIInv ==
  ASSUME IInv, UNCHANGED <<machine, settings, task, upload>>, UNCHANGED given,
         cancelled' = cancelled, at \in Before,
         old' \in {"none", "off", "on", "template"},
         \/ at' \in Before /\ failure' = failure
         \/ /\ at' = "halted"
            /\ failure' \in {"no template", "lookup", "exists", "preclean", "source", "options",
                             "invalid source", "inventory"},
         at' \in {"find template", "lookup"} => old' = world.old,
         at' \in {"power off", "convert", "destroy"} => config.force,
         at' \notin Early \cup {"halted"} => old' = "none",
         at' = "import" => config.source = "ovf",
         at' = "deploy" /\ config.source = "library" => ValidLibraryOptions(config, world.item),
         world.old # "none" /\ old' = "none" =>
           config.force /\ failure' \notin {"no template", "lookup", "exists"}
  PROVE  IInv'
  <1>1. /\ config' = config /\ world' = world
        /\ Accepted(config)' = Accepted(config)
        /\ ValidLibraryOptions(config, world.item)' = ValidLibraryOptions(config, world.item)
    BY GivenStays
  <1>2. /\ TypeOK /\ CheckedInv /\ OldInv
        /\ machine = "none" /\ task = "none" /\ lease = "none" /\ sent = 0
        /\ settings = {} /\ ~updater
    BY DEF IInv, OldInv
  <1>3. UNCHANGED <<machine, settings, task, lease, updater, sent, abort>>
    BY DEF upload
  <1>4. at' \in Before \cup {"halted"}
    OBVIOUS
  <1>5. TypeOK'
    BY <1>1, <1>2, <1>3, <1>4 DEF TypeOK, Before, Early
  <1>6. CheckedInv'
    <2>1. at # "halted" /\ (at' \in Before => at' # "halted")
      BY DEF Before, Early
    <2>2. failure' = "none" <=> at' # "halted"
      BY <1>2, <2>1 DEF CheckedInv
    <2>3. QED BY <1>1, <1>2, <1>4, <2>2 DEF CheckedInv, Before, Early
  <1>7. OldInv'
    BY <1>1, <1>2, <1>3, <1>4 DEF OldInv
  <1>8. TaskInv'
    BY <1>1, <1>2, <1>3, <1>4 DEF TaskInv, Before, Early
  <1>9. LeaseInv'
    BY <1>1, <1>2, <1>3, <1>4 DEF LeaseInv, Before, Early
  <1>10. AsConfigured' /\ LeftBehind'
    BY <1>2, <1>3, <1>4 DEF AsConfigured, LeftBehind, Before, Early
  <1>11. OldMachineKept'
    BY <1>1, <1>2, <1>3 DEF OldMachineKept
  <1>12. QED BY <1>5, <1>6, <1>7, <1>8, <1>9, <1>10, <1>11 DEF IInv

LEMMA FindIInv ==
  ASSUME IInv, FindTemplate \/ PreCleanVM
  PROVE  IInv'
  <1>1. at \in {"find template", "lookup"} /\ TypeOK /\ old = world.old /\ failure = "none"
    BY DEF FindTemplate, PreCleanVM, IInv, OldInv, CheckedInv
  <1>2. /\ UNCHANGED <<given, machine, settings, task, upload, old, cancelled>>
        /\ \/ /\ failure' = failure
              /\ \/ at' = "lookup"
                 \/ at' = "resolve" /\ old = "none"
                 \/ at' = "power off" /\ config.force
           \/ at' = "halted" /\ failure' \in {"no template", "lookup", "exists"}
    BY DEF FindTemplate, PreCleanVM, GoTo, Refused, Fails, server
  <1>3. old \in {"none", "off", "on", "template"}
    BY <1>1 DEF TypeOK
  <1>4. at' \in {"lookup", "resolve", "power off", "halted"}
    BY <1>2
  <1>5. QED BY <1>1, <1>2, <1>3, <1>4, BeforeIInv DEF Before, Early

LEMMA RemoveIInv ==
  ASSUME IInv, PowerOffOld \/ ConvertOld \/ DestroyOld
  PROVE  IInv'
  <1>1. at \in {"power off", "convert", "destroy"} /\ TypeOK /\ config.force /\ failure = "none"
    BY DEF PowerOffOld, ConvertOld, DestroyOld, IInv, OldInv, CheckedInv
  <1>2. old \in {"none", "off", "on", "template"}
    BY <1>1 DEF TypeOK
  <1>3. /\ UNCHANGED <<given, machine, settings, task, upload, cancelled>>
        /\ old' \in {old, "on", "off", "none"}
        /\ \/ /\ failure' = failure
              /\ \/ at' \in {"convert", "destroy"}
                 \/ at' = "resolve" /\ old' = "none"
           \/ at' = "halted" /\ failure' = "preclean"
    BY DEF PowerOffOld, ConvertOld, DestroyOld, GoTo, Refused, Fails, server
  <1>4. at' \in {"convert", "destroy", "resolve", "halted"}
    BY <1>3
  <1>5. QED BY <1>1, <1>2, <1>3, <1>4, BeforeIInv DEF Before, Early

LEMMA ResolveIInv ==
  ASSUME IInv, ResolveSource \/ CreateImportSpec
  PROVE  IInv'
  <1>1. /\ at \in {"resolve", "deploy"} /\ TypeOK /\ old = "none" /\ failure = "none"
        /\ OldMachineKept
    BY DEF ResolveSource, CreateImportSpec, IInv, OldInv, CheckedInv, Early
  <1>2. UNCHANGED <<given, machine, settings, task, upload, old, cancelled>>
    BY DEF ResolveSource, CreateImportSpec, GoTo, Fails, server
  <1>3. \/ /\ failure' = failure
           /\ \/ /\ at' = "deploy"
                 /\ config.source = "library" => ValidLibraryOptions(config, world.item)
              \/ at' = "import" /\ config.source = "ovf"
        \/ at' = "halted" /\ failure' \in {"source", "options", "invalid source", "inventory"}
    <2>1. CASE ResolveSource
      BY <2>1 DEF ResolveSource, GoTo, Fails
    <2>2. CASE CreateImportSpec
      BY <2>2 DEF CreateImportSpec, GoTo, Fails
    <2>3. QED BY <2>1, <2>2
  <1>4. world.old # "none" => config.force
    BY <1>1 DEF OldMachineKept
  <1>5. at' \in {"deploy", "import", "halted"}
    BY <1>3
  <1>6. QED BY <1>1, <1>2, <1>3, <1>4, <1>5, BeforeIInv DEF Before, Early

\* The server is asked to make the machine by a task.
LEMMA StartIInv ==
  ASSUME IInv,
         CreateVM \/ CloneTemplate \/ DeployContentLibraryOvf \/ DeployContentLibraryVmtx
  PROVE  IInv'
  <1>1. /\ at = "deploy" /\ TypeOK /\ CheckedInv /\ old = "none" /\ failure = "none"
        /\ OldMachineKept /\ config.source # "ovf"
        /\ machine = "none" /\ task = "none" /\ lease = "none" /\ sent = 0 /\ ~updater
    BY DEF CreateVM, CloneTemplate, DeployContentLibraryOvf, DeployContentLibraryVmtx, IInv,
           OldInv, CheckedInv, Before, Early
  <1>2. \/ Refused("inventory")
        \/ /\ StartTask(Made)
           /\ config.source = "library" => world.item # "iso"
    <2>1. CASE CreateVM
      BY <2>1 DEF CreateVM, Made
    <2>2. CASE CloneTemplate
      BY <2>2 DEF CloneTemplate, Made
    <2>3. CASE DeployContentLibraryOvf
      BY <2>3 DEF DeployContentLibraryOvf, Made
    <2>4. CASE DeployContentLibraryVmtx
      BY <2>4 DEF DeployContentLibraryVmtx, Made
    <2>5. QED BY <2>1, <2>2, <2>3, <2>4
  <1>3. world.old # "none" => config.force
    BY <1>1 DEF OldMachineKept
  <1>4. CASE Refused("inventory")
    <2>1. /\ UNCHANGED <<given, machine, settings, task, upload, old, cancelled>>
          /\ at' = "halted" /\ failure' = "inventory"
      BY <1>4 DEF Refused, Fails, server
    <2>2. QED BY <1>1, <1>3, <2>1, BeforeIInv DEF Before, Early
  <1>5. CASE StartTask(Made) /\ (config.source = "library" => world.item # "iso")
    <2>1. /\ task' = "running" /\ settings' = Made /\ at' = "await" /\ UNCHANGED given
          /\ UNCHANGED <<old, machine, lease, updater, sent, abort, cancelled, failure>>
      BY <1>5 DEF StartTask, GoTo, upload
    <2>2. /\ config' = config /\ world' = world /\ Made' = Made
          /\ Accepted(config)' = Accepted(config)
          /\ ValidLibraryOptions(config, world.item)' = ValidLibraryOptions(config, world.item)
      BY <2>1, GivenStays
    <2>3. Made \subseteq Settings
      BY <1>1, GivenType DEF Made, WithNetwork, WithMapping
    <2>4. TypeOK'
      BY <1>1, <2>1, <2>2, <2>3 DEF TypeOK
    <2>5. CheckedInv' /\ OldInv'
      BY <1>1, <1>5, <2>1, <2>2 DEF CheckedInv, OldInv, Before, Early
    <2>6. TaskInv' /\ LeaseInv'
      BY <1>1, <2>1, <2>2 DEF TaskInv, LeaseInv
    <2>7. AsConfigured' /\ OldMachineKept' /\ LeftBehind'
      BY <1>1, <1>3, <2>1, <2>2 DEF AsConfigured, OldMachineKept, LeftBehind
    <2>8. QED BY <2>4, <2>5, <2>6, <2>7 DEF IInv
  <1>6. QED BY <1>2, <1>4, <1>5, <1>1

LEMMA AwaitIInv ==
  ASSUME IInv, AwaitTask
  PROVE  IInv'
  <1>1. /\ at = "await" /\ TypeOK /\ CheckedInv /\ old = "none" /\ failure = "none"
        /\ OldMachineKept /\ config.source # "ovf" /\ TaskInv /\ lease = "none" /\ ~updater
        /\ task \in {"running", "done", "failed"}
        /\ machine = IF task = "done" THEN "whole" ELSE "none"
        /\ task # "failed" => settings = Made
    BY DEF AwaitTask, IInv, OldInv, CheckedInv, TaskInv, LeaseInv, Early
  <1>2. /\ UNCHANGED given /\ UNCHANGED <<old, machine, lease, updater, sent, cancelled>>
        /\ \/ /\ UNCHANGED <<task, settings, abort>>
              /\ \/ task = "done" /\ at' = "configure" /\ failure' = failure
                 \/ at' = "halted" /\ task = "failed" /\ failure' = "task"
                 \/ at' = "halted" /\ failure' = "answer lost"
                 \/ at' = "halted" /\ config.source = "library" /\ failure' = "interrupted"
           \/ /\ at' = "halted" /\ failure' = "interrupted"
              /\ \/ /\ task = "running" /\ task' = "cancelled" /\ settings' = {}
                    /\ abort' = "accepted"
                 \/ abort' = "refused" /\ UNCHANGED <<task, settings>>
    BY DEF AwaitTask, GoTo, Fails
  <1>3. /\ config' = config /\ world' = world /\ Made' = Made
        /\ Accepted(config)' = Accepted(config)
        /\ ValidLibraryOptions(config, world.item)' = ValidLibraryOptions(config, world.item)
    BY <1>2, GivenStays
  <1>4. /\ at' \in {"configure", "halted"} /\ (failure' = "none" <=> at' # "halted")
        /\ failure' \in {"none", "task", "answer lost", "interrupted"}
        /\ settings' \in {settings, {}} /\ abort' \in {abort, "accepted", "refused"}
        /\ task' \in {"running", "done", "failed", "cancelled"}
        /\ task' = "done" <=> task = "done"
        /\ at' = "configure" => task' = "done" /\ settings' = Made
    BY <1>1, <1>2
  <1>5. TypeOK'
    BY <1>1, <1>2, <1>3, <1>4 DEF TypeOK
  <1>6. CheckedInv' /\ OldInv'
    BY <1>1, <1>3, <1>4, <1>2 DEF CheckedInv, OldInv, Before, Early
  <1>7. TaskInv' /\ LeaseInv'
    BY <1>1, <1>2, <1>3, <1>4 DEF TaskInv, LeaseInv
  <1>8. OldMachineKept' /\ AsConfigured'
    BY <1>1, <1>2, <1>3, <1>4 DEF OldMachineKept, AsConfigured
  <1>9. LeftBehind'
    BY <1>1, <1>2, <1>3 DEF LeftBehind
  <1>10. QED BY <1>5, <1>6, <1>7, <1>8, <1>9 DEF IInv

\* The server ends a task, whether or not the step still waits.
LEMMA TaskIInv ==
  ASSUME IInv, ServerRunsTask
  PROVE  IInv'
  <1>1. /\ task = "running" /\ at \in {"await", "halted"} /\ TypeOK /\ CheckedInv /\ OldInv
        /\ TaskInv /\ LeaseInv /\ OldMachineKept /\ LeftBehind
        /\ config.source # "ovf" /\ machine = "none" /\ lease = "none" /\ old = "none"
    BY DEF ServerRunsTask, IInv, TaskInv, OldMachineKept
  <1>2. /\ UNCHANGED given
        /\ UNCHANGED <<at, old, lease, updater, sent, abort, cancelled, failure>>
        /\ \/ task' = "done" /\ machine' = "whole" /\ settings' = settings
           \/ task' = "failed" /\ settings' = {} /\ machine' = machine
    BY DEF ServerRunsTask, upload
  <1>3. /\ config' = config /\ world' = world /\ Made' = Made
        /\ Accepted(config)' = Accepted(config)
        /\ ValidLibraryOptions(config, world.item)' = ValidLibraryOptions(config, world.item)
    BY <1>2, GivenStays
  <1>4. TypeOK'
    BY <1>1, <1>2, <1>3 DEF TypeOK
  <1>5. CheckedInv' /\ OldInv'
    BY <1>1, <1>2, <1>3 DEF CheckedInv, OldInv, Before, Early
  <1>6. TaskInv' /\ LeaseInv'
    BY <1>1, <1>2, <1>3 DEF TaskInv, LeaseInv
  <1>7. OldMachineKept' /\ AsConfigured' /\ LeftBehind'
    BY <1>1, <1>2, <1>3 DEF OldMachineKept, AsConfigured, LeftBehind
  <1>8. QED BY <1>4, <1>5, <1>6, <1>7 DEF IInv

-----------------------------------------------------------------------------
(* The upload under a lease *)

LEMMA ImportIInv ==
  ASSUME IInv, ImportVApp
  PROVE  IInv'
  <1>1. /\ at = "import" /\ TypeOK /\ CheckedInv /\ old = "none" /\ failure = "none"
        /\ OldMachineKept /\ config.source = "ovf" /\ task = "none" /\ sent = 0 /\ ~updater
        /\ world.old # "none" => config.force
    BY GivenType DEF ImportVApp, IInv, OldInv, CheckedInv, TaskInv, OldMachineKept, Before, Early
  <1>2. CASE Refused("inventory")
    <2>1. /\ UNCHANGED <<given, machine, settings, task, upload, old, cancelled>>
          /\ at' = "halted" /\ failure' = "inventory"
      BY <1>2 DEF Refused, Fails, server
    <2>2. QED BY <1>1, <2>1, BeforeIInv DEF Before, Early
  <1>3. CASE ~Refused("inventory")
    <2>1. /\ lease' = "open" /\ machine' = "partial" /\ settings' = Made /\ UNCHANGED given
          /\ UNCHANGED <<old, task, updater, sent, abort, cancelled>>
          /\ \/ at' = "wait" /\ failure' = failure
             \/ at' = "halted" /\ failure' = "answer lost"
      BY <1>1, <1>3 DEF ImportVApp, GoTo, Fails, Made
    <2>2. /\ config' = config /\ world' = world /\ Made' = Made
          /\ Accepted(config)' = Accepted(config)
      BY <2>1, GivenStays
    <2>3. Made \subseteq Settings
      BY <1>1, GivenType DEF Made, WithMapping
    <2>4. TypeOK'
      BY <1>1, <2>1, <2>2, <2>3 DEF TypeOK
    <2>5. CheckedInv' /\ OldInv'
      BY <1>1, <2>1, <2>2 DEF CheckedInv, OldInv, Before, Early
    <2>6. TaskInv' /\ LeaseInv'
      BY <1>1, <2>1, <2>2 DEF TaskInv, LeaseInv
    <2>7. OldMachineKept' /\ AsConfigured' /\ LeftBehind'
      BY <1>1, <2>1, <2>2 DEF OldMachineKept, AsConfigured, LeftBehind
    <2>8. QED BY <2>4, <2>5, <2>6, <2>7 DEF IInv
  <1>4. QED BY <1>2, <1>3

\* While the files are sent, the step goes on or aborts the lease.
LEMMA UploadIInv ==
  ASSUME IInv, WaitForLease \/ UploadFile
  PROVE  IInv'
  <1>1. /\ at \in {"wait", "upload"} /\ TypeOK /\ CheckedInv /\ old = "none"
        /\ failure = "none" /\ OldMachineKept /\ config.source = "ovf" /\ task = "none"
        /\ LeaseInv /\ lease \in {"none", "open", "released", "completed"}
    BY GivenType
       DEF WaitForLease, UploadFile, IInv, OldInv, CheckedInv, TaskInv, TypeOK, Early
  <1>2. /\ UNCHANGED given /\ UNCHANGED <<old, task, settings, cancelled>>
        /\ \/ /\ AbortLease /\ at' = "halted" /\ failure' \in {"lease", "upload"}
              /\ sent' = sent
           \/ /\ lease = "open" /\ at' = "upload" /\ failure' = failure
              /\ sent' = sent \/ (sent < world.files /\ sent' = sent + 1)
              /\ updater' \in {updater, TRUE} /\ UNCHANGED <<lease, machine, abort>>
    BY DEF WaitForLease, UploadFile, GoTo, Fails
  <1>3. /\ config' = config /\ world' = world /\ Made' = Made
        /\ Accepted(config)' = Accepted(config)
    BY <1>2, GivenStays
  <1>4. sent' \in 0 .. world.files
    <2>1. sent \in 0 .. world.files /\ world.files \in Nat
      BY <1>1, GivenType DEF TypeOK
    <2>2. sent' = sent \/ (sent < world.files /\ sent' = sent + 1)
      BY <1>2
    <2>3. QED BY <2>1, <2>2
  <1>5. CASE at' = "upload"
    <2>1. /\ lease = "open" /\ failure' = "none" /\ updater' \in {updater, TRUE}
          /\ UNCHANGED <<lease, machine, abort>>
      BY <1>1, <1>2, <1>5
    <2>2. TypeOK'
      BY <1>1, <1>2, <1>3, <1>4, <1>5, <2>1 DEF TypeOK
    <2>3. CheckedInv' /\ OldInv'
      BY <1>1, <1>2, <1>3, <1>5, <2>1 DEF CheckedInv, OldInv, Before, Early
    <2>4. TaskInv' /\ LeaseInv'
      BY <1>1, <1>2, <1>3, <1>5, <2>1 DEF TaskInv, LeaseInv
    <2>5. OldMachineKept' /\ AsConfigured' /\ LeftBehind'
      BY <1>1, <1>2, <1>3, <1>5, <2>1 DEF OldMachineKept, AsConfigured, LeftBehind
    <2>6. QED BY <2>2, <2>3, <2>4, <2>5 DEF IInv
  <1>6. CASE at' = "halted"
    <2>1. /\ \/ lease = "open" /\ lease' = "released" /\ machine' = "none" /\ abort' = "accepted"
             \/ abort' = "refused" /\ UNCHANGED <<lease, machine>>
          /\ updater' = FALSE /\ failure' \in {"lease", "upload"} /\ sent' = sent
      BY <1>2, <1>6 DEF AbortLease
    <2>2. TypeOK'
      BY <1>1, <1>2, <1>3, <1>4, <1>6, <2>1 DEF TypeOK
    <2>3. CheckedInv' /\ OldInv'
      BY <1>1, <1>2, <1>3, <1>6, <2>1 DEF CheckedInv, OldInv, Before, Early
    <2>4. TaskInv' /\ LeaseInv'
      BY <1>1, <1>2, <1>3, <1>6, <2>1 DEF TaskInv, LeaseInv
    <2>5. OldMachineKept' /\ AsConfigured' /\ LeftBehind'
      BY <1>1, <1>2, <1>3, <1>6, <2>1 DEF OldMachineKept, AsConfigured, LeftBehind, LeaseInv
    <2>6. QED BY <2>2, <2>3, <2>4, <2>5 DEF IInv
  <1>7. QED BY <1>2, <1>5, <1>6

LEMMA CompleteIInv ==
  ASSUME IInv, CompleteLease
  PROVE  IInv'
  <1>1. /\ at = "upload" /\ sent = world.files /\ TypeOK /\ CheckedInv /\ old = "none"
        /\ failure = "none" /\ OldMachineKept /\ config.source = "ovf" /\ task = "none"
        /\ LeaseInv
    BY GivenType DEF CompleteLease, IInv, OldInv, CheckedInv, TaskInv, Early
  <1>2. /\ UNCHANGED given /\ UNCHANGED <<old, task, settings, sent, abort, cancelled>>
        /\ updater' = FALSE
        /\ \/ at' = "halted" /\ failure' = "complete" /\ UNCHANGED <<lease, machine>>
           \/ /\ lease = "open" /\ lease' = "completed" /\ machine' = "whole"
              /\ \/ at' = "configure" /\ failure' = failure
                 \/ at' = "halted" /\ failure' = "complete"
    BY DEF CompleteLease, GoTo, Fails
  <1>3. /\ config' = config /\ world' = world /\ Made' = Made
        /\ Accepted(config)' = Accepted(config)
    BY <1>2, GivenStays
  <1>4. TypeOK'
    BY <1>1, <1>2, <1>3 DEF TypeOK
  <1>5. CheckedInv' /\ OldInv'
    BY <1>1, <1>2, <1>3 DEF CheckedInv, OldInv, Before, Early
  <1>6. TaskInv' /\ LeaseInv'
    BY <1>1, <1>2, <1>3 DEF TaskInv, LeaseInv
  <1>7. OldMachineKept' /\ AsConfigured' /\ LeftBehind'
    BY <1>1, <1>2, <1>3 DEF OldMachineKept, AsConfigured, LeftBehind
  <1>8. QED BY <1>4, <1>5, <1>6, <1>7 DEF IInv

\* An open lease that nobody renews ends, and the partial machine with it.
LEMMA LeaseExpiresIInv ==
  ASSUME IInv, LeaseExpires
  PROVE  IInv'
  <1>1. /\ lease = "open" /\ at \in {"wait", "upload", "halted"} /\ TypeOK /\ CheckedInv
        /\ OldInv /\ TaskInv /\ LeaseInv /\ OldMachineKept /\ LeftBehind
        /\ config.source = "ovf" /\ task = "none" /\ at \notin Before
    BY GivenType DEF LeaseExpires, IInv, OldInv, TaskInv, LeaseInv
  <1>2. /\ UNCHANGED given
        /\ UNCHANGED <<at, old, task, updater, sent, abort, cancelled, failure>>
        /\ lease' = "released" /\ machine' = "none" /\ settings' = {}
    BY DEF LeaseExpires
  <1>3. /\ config' = config /\ world' = world /\ Made' = Made
        /\ Accepted(config)' = Accepted(config)
    BY <1>2, GivenStays
  <1>4. TypeOK'
    BY ZenonT(30), <1>1, <1>2, <1>3 DEF TypeOK
  <1>5. CheckedInv' /\ OldInv'
    BY <1>1, <1>2, <1>3 DEF CheckedInv, OldInv
  <1>6. TaskInv' /\ LeaseInv'
    BY <1>1, <1>2, <1>3 DEF TaskInv, LeaseInv
  <1>7. OldMachineKept' /\ AsConfigured' /\ LeftBehind'
    BY <1>1, <1>2, <1>3 DEF OldMachineKept, AsConfigured, LeftBehind
  <1>8. QED BY <1>4, <1>5, <1>6, <1>7 DEF IInv

-----------------------------------------------------------------------------
(* The end, and the user *)

LEMMA ConfigureIInv ==
  ASSUME IInv, ConfigureMachine
  PROVE  IInv'
  <1>1. /\ at = "configure" /\ TypeOK /\ CheckedInv /\ OldInv /\ old = "none"
        /\ failure = "none" /\ OldMachineKept /\ TaskInv /\ LeaseInv
        /\ machine = "whole" /\ settings = Made /\ lease # "open" /\ ~updater
        /\ task # "running"
        /\ config.source = "ovf" => lease = "completed" /\ sent = world.files
    BY GivenType DEF ConfigureMachine, IInv, OldInv, CheckedInv, TaskInv, LeaseInv, Early
  <1>2. /\ UNCHANGED given /\ UNCHANGED <<old, machine, task, lease, updater, sent, abort, cancelled>>
        /\ \/ at' = "deployed" /\ failure' = failure /\ settings' = settings \cup PostSettings
           \/ at' = "halted" /\ failure' = "configure" /\ settings' = settings
    BY DEF ConfigureMachine, GoTo, Refused, Fails, server, upload
  <1>3. /\ config' = config /\ world' = world
        /\ Accepted(config)' = Accepted(config)
        /\ WithMapping(config.wants)' = WithMapping(config.wants)
    BY <1>2, GivenStays
  <1>4. /\ Made \subseteq Settings /\ PostSettings \subseteq Settings
        /\ Made \cup PostSettings =
              IF config.source = "ovf" \/ (config.source = "library" /\ world.item = "ovf")
              THEN WithMapping(config.wants) ELSE config.wants
    BY <1>1, MadeAndPost
  <1>5. settings' \subseteq Settings
    BY <1>1, <1>2, <1>4
  <1>6. TypeOK'
    BY <1>1, <1>2, <1>3, <1>5 DEF TypeOK
  <1>7. CheckedInv' /\ OldInv'
    BY <1>1, <1>2, <1>3 DEF CheckedInv, OldInv, Before, Early
  <1>8. TaskInv' /\ LeaseInv'
    BY <1>1, <1>2, <1>3 DEF TaskInv, LeaseInv
  <1>9. OldMachineKept' /\ LeftBehind'
    BY <1>1, <1>2, <1>3 DEF OldMachineKept, LeftBehind
  <1>10. AsConfigured'
    BY <1>1, <1>2, <1>3, <1>4 DEF AsConfigured
  <1>11. QED BY <1>6, <1>7, <1>8, <1>9, <1>10 DEF IInv

LEMMA OtherIInv ==
  ASSUME IInv, Interrupt \/ Terminated \/ UNCHANGED vars
  PROVE  IInv'
  <1>1. /\ UNCHANGED given /\ cancelled' \in {cancelled, TRUE}
        /\ UNCHANGED <<at, old, machine, settings, task, lease, updater, sent, abort, failure>>
    BY DEF Interrupt, Terminated, vars, server, upload
  <1>2. /\ config' = config /\ world' = world /\ Made' = Made
        /\ Accepted(config)' = Accepted(config)
        /\ WithMapping(config.wants)' = WithMapping(config.wants)
        /\ ValidLibraryOptions(config, world.item)' = ValidLibraryOptions(config, world.item)
    BY <1>1, GivenStays
  <1>3. TypeOK'
    <2>1. TypeOK
      BY DEF IInv
    <2>2. config' = config /\ world' = world /\ cancelled' \in BOOLEAN
      BY <1>1, <1>2, <2>1 DEF TypeOK
    <2>3. at' \in {"find template", "lookup", "power off", "convert", "destroy", "resolve",
                  "deploy", "await", "import", "wait", "upload", "configure", "deployed", "halted"}
      BY <1>1, <2>1 DEF TypeOK
    <2>4. /\ old' \in {"none", "off", "on", "template"}
          /\ machine' \in {"none", "partial", "whole"}
          /\ task' \in {"none", "running", "done", "failed", "cancelled"}
          /\ lease' \in {"none", "open", "completed", "released"}
          /\ abort' \in {"none", "accepted", "refused"}
      BY <1>1, <2>1 DEF TypeOK
    <2>5. UNCHANGED <<settings, updater, sent, failure>>
      BY <1>1
    <2>6. QED BY <2>1, <2>2, <2>3, <2>4, <2>5 DEF TypeOK
  <1>4. CheckedInv' /\ OldInv'
    BY <1>1, <1>2 DEF IInv, CheckedInv, OldInv
  <1>5. TaskInv' /\ LeaseInv'
    BY <1>1, <1>2 DEF IInv, TaskInv, LeaseInv
  <1>6. OldMachineKept' /\ AsConfigured' /\ LeftBehind'
    BY <1>1, <1>2 DEF IInv, OldMachineKept, AsConfigured, LeftBehind
  <1>7. QED BY <1>3, <1>4, <1>5, <1>6 DEF IInv

LEMMA Invariance == Spec => []IInv
  <1>1. IInv /\ [Next]_vars => IInv'
    BY FindIInv, RemoveIInv, ResolveIInv, StartIInv, AwaitIInv, TaskIInv, ImportIInv,
       UploadIInv, CompleteIInv, LeaseExpiresIInv, ConfigureIInv, OtherIInv
       DEF Next, Step, Server
  <1>2. QED BY InitIInv, <1>1, PTL DEF Spec

-----------------------------------------------------------------------------
(* The properties *)

\* The variables keep their types; not more files are sent than there are.
THEOREM TypeCorrect == Spec => []TypeOK
  <1>1. IInv => TypeOK
    BY DEF IInv
  <1>2. QED BY Invariance, <1>1, PTL

\* A machine that is handed on is complete and set up as asked, whichever of the
\* sources it is made of.
THEOREM DeployedAsConfigured == Spec => []AsConfigured
  <1>1. IInv => AsConfigured
    BY DEF IInv
  <1>2. QED BY Invariance, <1>1, PTL

\* The machine in the way is lost only with -force, and before there is another.
THEOREM OldMachineIsKept == Spec => []OldMachineKept
  <1>1. IInv => OldMachineKept
    BY DEF IInv
  <1>2. QED BY Invariance, <1>1, PTL

\* What a failed step leaves in vCenter has one of the named reasons.
THEOREM NothingElseLeftBehind == Spec => []LeftBehind
  <1>1. IInv => LeftBehind
    BY DEF IInv
  <1>2. QED BY Invariance, <1>1, PTL
=============================================================================
