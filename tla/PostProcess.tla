----------------------------- MODULE PostProcess -----------------------------
(***************************************************************************)
(* The post-processors: vsphere uploads a machine with ovftool, and          *)
(* vsphere-template makes a template of a machine that was uploaded or that  *)
(* a builder left behind.                                                    *)
(*                                                                           *)
(* Both find machines by their paths and names.  What is at a path, and      *)
(* whose it is, is the state; another build may register its template under  *)
(* the same name meanwhile.  Any request may fail, and the post-processing   *)
(* may be interrupted.                                                       *)
(***************************************************************************)
EXTENDS Naturals, FiniteSets

CONSTANTS
  Configs,     \* configurations: see ConfigType
  Inventories, \* what is registered at the start: functions from Paths
  Tries        \* max_retries of the vsphere post-processor

\* The machine of this chain, one that is there at the start, and the template
\* another build registers.
Things == {"ours", "old", "theirs"}
None == "none"

\* The paths of the machine's name in the folders that matter, and the path of
\* the template's name.
Folders == {"uploads", "discovered", "root", "folder"}
Paths == Folders \cup {"target"}

\* remote: the folder that vsphere uploads to.
UploadConfig == [remote : {"uploads", "folder", "root"}, overwrite : BOOLEAN]

\* folder, named: folder and template_name are set.
TemplateConfig ==
  [folder : BOOLEAN, named : BOOLEAN, snapshot : BOOLEAN, reregister : BOOLEAN, override : BOOLEAN]

\* artifact: what the template is to be made of.
ConfigType ==
  [artifact : {"uploaded", "builder", "unsupported"}, tags : BOOLEAN,
   upload : UploadConfig, template : TemplateConfig]

ASSUME PostProcessAssumption ==
  /\ Tries \in Nat \ {0}
  /\ \A c \in Configs : c \in ConfigType
  /\ \A i \in Inventories : i \in [Paths -> {"ours", "old", None}]

VARIABLES
  config,
  before,     \* the inventory at the start
  inventory,  \* the thing at each path
  template,   \* the things that are templates
  destroyed,  \* the things that were destroyed
  at,         \* the step or request the post-processor is at
  attempt,    \* the attempts to upload
  machine,    \* the machine that vsphere-template has found
  tagged,     \* the things that were given the tags
  cancelled,  \* the context is cancelled
  outcome     \* what was returned

given == <<config, before>>
server == <<inventory, template, destroyed>>
vars == <<given, server, at, attempt, machine, tagged, cancelled, outcome>>

Dest == IF config.template.folder THEN "folder" ELSE "root"
Target == IF config.template.named THEN "target" ELSE Dest

\* NewStepMarkAsTemplate: the folder of an uploaded machine is part of its ID.
Remote ==
  IF config.artifact = "uploaded" THEN config.upload.remote
  ELSE IF config.template.folder THEN "folder" ELSE "discovered"

\* NewStepCreateSnapshot does not look at the folder.
SnapshotFolder == IF config.artifact = "uploaded" THEN config.upload.remote ELSE "discovered"

Registered(t) == \E p \in Paths : inventory[p] = t
PathOf(t) == CHOOSE p \in Paths : inventory[p] = t

\* An uploaded machine is not there before.
Init ==
  /\ config \in Configs
  /\ before \in {i \in Inventories :
       config.artifact = "uploaded" <=> \A p \in Paths : i[p] # "ours"}
  /\ inventory = before
  /\ template \in SUBSET {"ours", "old"} /\ (config.artifact = "uploaded" => "ours" \notin template)
  /\ destroyed = {}
  /\ at = IF config.artifact = "uploaded" THEN "verify" ELSE "check"
  /\ attempt = 0 /\ machine = None /\ tagged = {}
  /\ cancelled = FALSE /\ outcome = None

-----------------------------------------------------------------------------
(* How requests end *)

Ends(result) == at' = "ended" /\ outcome' = result
GoTo(place) == at' = place /\ UNCHANGED outcome
Fails == Ends("error")

\* The runner looks at the context before each step; it puts no error in the bag.
Steps == {"datacenter", "snapshot", "find", "tag"}
Starts(step) == at = step /\ ~cancelled

StopsEarly ==
  /\ at \in Steps /\ cancelled
  /\ Ends("success")
  /\ UNCHANGED <<given, server, attempt, machine, tagged, cancelled>>

Interrupt ==
  /\ at # "ended" /\ ~cancelled /\ cancelled' = TRUE
  /\ UNCHANGED <<given, server, at, attempt, machine, tagged, outcome>>

\* Another build registers a template of that name.
OtherBuild ==
  /\ at # "ended" /\ ~Registered("theirs") /\ "theirs" \notin destroyed
  /\ config.template.named /\ inventory[Target] = None
  /\ inventory' = [inventory EXCEPT ![Target] = "theirs"]
  /\ template' = template \cup {"theirs"}
  /\ UNCHANGED <<given, destroyed, at, attempt, machine, tagged, cancelled, outcome>>

-----------------------------------------------------------------------------
(* The vsphere post-processor *)

\* PostProcess up to ValidateOvfTool, which lets most errors pass.
Verify ==
  /\ at = "verify"
  /\ (GoTo("upload") \/ Fails)
  /\ UNCHANGED <<given, server, attempt, machine, tagged, cancelled>>

\* One run of ovftool: with --overwrite what is there goes first.
Ovftool(uploads) ==
  /\ inventory[config.upload.remote] # None => config.upload.overwrite
  /\ inventory' = [inventory EXCEPT ![config.upload.remote] = IF uploads THEN "ours" ELSE None]
  /\ destroyed' = destroyed \cup ({inventory[config.upload.remote]} \ {None})
  /\ UNCHANGED template

\* What follows the attempts, whether or not one of them succeeded.
AfterUpload == GoTo(IF config.tags THEN "tag upload" ELSE "check")

\* Mutant: the attempts are not counted.
MutantUpload ==
  /\ at = "upload"
  /\ attempt' = IF attempt > Tries THEN attempt ELSE attempt + 1
  /\ \/ ~cancelled /\ Ovftool(TRUE) /\ AfterUpload
     \/ ~cancelled /\ (UNCHANGED server \/ Ovftool(FALSE)) /\ GoTo("upload")
     \/ cancelled /\ UNCHANGED server /\ AfterUpload
  /\ UNCHANGED <<given, machine, tagged, cancelled>>

\* The function that retry.Config.Run repeats; its error is not looked at.
Upload ==
  /\ at = "upload"
  /\ attempt' = attempt + 1
  /\ \/ ~cancelled /\ Ovftool(TRUE) /\ AfterUpload
     \/ /\ ~cancelled /\ (UNCHANGED server \/ Ovftool(FALSE))
        /\ IF attempt + 1 < Tries THEN GoTo("upload") ELSE AfterUpload
     \/ cancelled /\ UNCHANGED server /\ AfterUpload
  /\ UNCHANGED <<given, machine, tagged, cancelled>>

\* applyTags looks the machine up by its name alone.
TagUpload ==
  LET named == {inventory[p] : p \in Folders} \ {None}
  IN /\ at = "tag upload"
     /\ \/ ~cancelled /\ Cardinality(named) = 1 /\ tagged' = named /\ GoTo("check")
        \/ UNCHANGED tagged /\ Fails
     /\ UNCHANGED <<given, server, attempt, machine, cancelled>>

-----------------------------------------------------------------------------
(* The vsphere-template post-processor *)

\* PostProcess up to the client; stepChooseDatacenter and stepCreateFolder.
Check ==
  /\ at = "check"
  /\ (config.artifact # "unsupported" /\ GoTo("datacenter")) \/ Fails
  /\ UNCHANGED <<given, server, attempt, machine, tagged, cancelled>>

CreateFolder ==
  /\ Starts("datacenter")
  /\ GoTo("snapshot") \/ Fails
  /\ UNCHANGED <<given, server, attempt, machine, tagged, cancelled>>

\* A template has no snapshots.
CreateSnapshot ==
  /\ Starts("snapshot")
  /\ \/ (config.template.snapshot => inventory[SnapshotFolder] \notin template \cup {None}) /\ GoTo("find")
     \/ config.template.snapshot /\ Fails
  /\ UNCHANGED <<given, server, attempt, machine, tagged, cancelled>>

\* findVirtualMachineWithFallback: what has the name in the remote folder, in
\* "Discovered virtual machine" or at the root, in this order; an error of one
\* look-up is passed over.
FindMachine ==
  /\ Starts("find")
  /\ \/ /\ \E p \in {Remote, "discovered", "root"} :
             inventory[p] # None /\ machine' = inventory[p]
        /\ GoTo("existing")
     \/ UNCHANGED machine /\ Fails
  /\ UNCHANGED <<given, server, attempt, tagged, cancelled>>

\* Mutant: override is not looked at.
MutantHandleExisting ==
  IF inventory[Target] \in template
  THEN /\ destroyed' = destroyed \cup {inventory[Target]}
       /\ inventory' = [inventory EXCEPT ![Target] = None]
  ELSE UNCHANGED <<inventory, destroyed>>

\* handleExistingTemplate, where it does not fail.
HandleExisting ==
  IF inventory[Target] \in template
  THEN /\ config.template.override
       /\ destroyed' = destroyed \cup {inventory[Target]}
       /\ inventory' = [inventory EXCEPT ![Target] = None]
  ELSE UNCHANGED <<inventory, destroyed>>

RemoveExisting ==
  /\ at = "existing"
  /\ \/ HandleExisting /\ GoTo(IF config.template.reregister THEN "unregister" ELSE "mark")
     \/ UNCHANGED <<inventory, destroyed>> /\ Fails
  /\ UNCHANGED <<given, template, attempt, machine, tagged, cancelled>>

MarkAsTemplate ==
  /\ at = "mark"
  /\ \/ /\ Registered(machine) /\ machine \notin template
        /\ template' = template \cup {machine} /\ GoTo("tag")
     \/ UNCHANGED template /\ Fails
  /\ UNCHANGED <<given, inventory, destroyed, attempt, machine, tagged, cancelled>>

\* datastorePath, HostSystem and Unregister.
Unregister ==
  /\ at = "unregister"
  /\ \/ /\ Registered(machine)
        /\ inventory' = [inventory EXCEPT ![PathOf(machine)] = None]
        /\ GoTo("unregister other")
     \/ UNCHANGED inventory /\ Fails
  /\ UNCHANGED <<given, template, destroyed, attempt, machine, tagged, cancelled>>

\* unregisterVirtualMachine: whatever machine has the template's path.
UnregisterOther ==
  /\ at = "unregister other"
  /\ \/ inventory' = [inventory EXCEPT ![Target] = None] /\ GoTo("existing again")
     \/ UNCHANGED inventory /\ Fails
  /\ UNCHANGED <<given, template, destroyed, attempt, machine, tagged, cancelled>>

RemoveExistingAgain ==
  /\ at = "existing again"
  /\ \/ HandleExisting /\ GoTo("register")
     \/ UNCHANGED <<inventory, destroyed>> /\ Fails
  /\ UNCHANGED <<given, template, attempt, machine, tagged, cancelled>>

\* Mutant: the error of the task is not looked at.
MutantRegister ==
  /\ at = "register"
  /\ \/ /\ inventory[Target] = None
        /\ inventory' = [inventory EXCEPT ![Target] = machine]
        /\ template' = template \cup {machine}
     \/ UNCHANGED <<inventory, template>>
  /\ GoTo("tag")
  /\ UNCHANGED <<given, destroyed, attempt, machine, tagged, cancelled>>

\* RegisterVM from the machine's files, and the look-up of the template, which
\* may fail when it is registered.
Register ==
  /\ at = "register"
  /\ \/ /\ inventory[Target] = None
        /\ inventory' = [inventory EXCEPT ![Target] = machine]
        /\ template' = template \cup {machine}
        /\ GoTo("tag") \/ Fails
     \/ UNCHANGED <<inventory, template>> /\ Fails
  /\ UNCHANGED <<given, destroyed, attempt, machine, tagged, cancelled>>

\* A failure may come after some tags.
ApplyTags ==
  /\ Starts("tag")
  /\ tagged' \in {tagged, tagged \cup {machine}}
  /\ \/ (config.tags <=> machine \in tagged') /\ Ends("success")
     \/ config.tags /\ Fails
  /\ UNCHANGED <<given, server, attempt, machine, cancelled>>

-----------------------------------------------------------------------------

Next ==
  \/ Verify \/ Upload \/ TagUpload \/ Check \/ CreateFolder \/ CreateSnapshot
  \/ FindMachine \/ RemoveExisting \/ MarkAsTemplate \/ Unregister \/ UnregisterOther
  \/ RemoveExistingAgain \/ Register \/ ApplyTags
  \/ StopsEarly \/ Interrupt \/ OtherBuild

Spec == Init /\ [][Next]_vars

-----------------------------------------------------------------------------
(* Properties *)

\* Type invariant; and no more attempts to upload are made than max_retries, one
\* at least before anything is made of the machine.
TypeOK ==
  /\ config \in Configs /\ before \in Inventories
  /\ inventory \in [Paths -> Things \cup {None}] /\ template \subseteq Things
  /\ destroyed \subseteq Things /\ tagged \subseteq Things
  /\ at \in Steps \cup {"verify", "upload", "tag upload", "check", "existing", "mark",
       "unregister", "unregister other", "existing again", "register", "ended"}
  /\ attempt \in 0..Tries
  /\ machine \in Things \cup {None} /\ (machine # None /\ config.artifact = "uploaded" => attempt > 0)
  /\ cancelled \in BOOLEAN /\ outcome \in {None, "success", "error"}
  /\ (outcome = None) = (at # "ended")

\* A chain of post-processors that reports success, and was not interrupted, has
\* left a template with the tags, at the path asked for if it was to be registered
\* again; and it is the machine of the chain unless another of its name was in a
\* folder that is searched.  That must survive upload errors that nobody looks at
\* (post-processor/vsphere/post-processor.go:281) and a template that another
\* build registers at the last moment.
TemplateIsMade ==
  outcome = "success" /\ ~cancelled =>
    /\ machine \in template /\ Registered(machine)
    /\ config.tags => machine \in tagged
    /\ config.template.reregister => inventory[Target] = machine
    /\ machine = "ours" \/ \E p \in {Remote, "discovered", "root"} : before[p] = machine

\* What was registered is registered in the end, or was a template that override
\* replaced, or a machine that ovftool overwrote; only with reregister_vm a machine
\* may be left unregistered: the template's, and then an error is returned, or one
\* that had the template's path (step_mark_as_template.go:122).
NothingIsLost ==
  \A t \in Things :
    /\ t \in destroyed => (config.template.override /\ t \in template)
                            \/ (config.upload.overwrite /\ config.artifact = "uploaded")
    /\ ((\E p \in Paths : before[p] = t) \/ t \in template \cap {"theirs"})
         /\ outcome # None /\ t \notin destroyed /\ ~Registered(t)
         => config.template.reregister /\ (t = machine => outcome = "error")

\* docs-partials/post-processor/vsphere-template/Config-not-required.mdx:21:
\* "override - Overwrite existing template": the machine that is to become the
\* template is not the one that is removed to make room for it.
MachineIsNotReplaced == machine \notin destroyed
=============================================================================
