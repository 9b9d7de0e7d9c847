-------------------------------- MODULE Export --------------------------------
(***************************************************************************)
(* StepExport: the files of a machine are downloaded under a lease of the   *)
(* server, described by an OVF descriptor and a manifest, and converted to  *)
(* an OVA if that is the format.                                            *)
(*                                                                          *)
(* Any request and any operation on a file may fail.  Interrupt cancels the *)
(* context that all requests but the first use.  The lease is renewed until *)
(* the step returns; one that nobody renews expires.                        *)
(***************************************************************************)
EXTENDS Naturals, Sequences

CONSTANTS
  Items,     \* the files of the machine, in the order of the lease
  Disks,     \* those with the extension .vmdk
  Configs    \* configurations: see ConfigType

Images == {Items[i] : i \in DOMAIN Items}

Files == Images \cup {"ovf", "mf", "ova"}

ConfigType ==
  [force : BOOLEAN, imageFiles : BOOLEAN, options : BOOLEAN,
   manifest : {"", "none", "sha256", "md4"}, format : {"", "ovf", "ova", "vhd"}]

ASSUME ExportAssumption ==
  /\ Items \in Seq(Images)
  /\ Disks \subseteq Images /\ Images \cap {"ovf", "mf", "ova"} = {}
  /\ \A i, j \in DOMAIN Items : Items[i] = Items[j] => i = j
  /\ \A c \in Configs : c \in ConfigType

VARIABLES
  config,
  at,        \* where the step is
  next,      \* index of the next file
  lease,     \* the server's lease
  updater,   \* StartUpdater's goroutine renews it
  output,    \* output directory: per file "absent", "before", "partial" or "new"
  hashed,    \* files with a line in the manifest
  cancelled  \* the step's context is cancelled

vars == <<config, at, next, lease, updater, output, hashed, cancelled>>

\* ExportConfig.Prepare: only the file of the format must not exist.
Prepared(c, dir) ==
  /\ c.manifest # "md4" /\ c.format # "vhd"
  /\ c.format \in {"", "ovf"} /\ ~c.force => dir["ovf"] = "absent"
  /\ c.format = "ova" /\ ~c.force => dir["ova"] = "absent"

Init ==
  /\ config \in Configs
  /\ output \in [Files -> {"absent", "before"}]
  /\ Prepared(config, output)
  /\ at = "options" /\ next = 1 /\ lease = "none" /\ updater = FALSE
  /\ hashed = {} /\ cancelled = FALSE

-----------------------------------------------------------------------------

Included(f) == config.imageFiles \/ f \in Disks

\* "" is sha256.
HasManifest == config.manifest # "none"

\* Mutant: the updater goes on.
MutantReturns(place) == at' = place /\ UNCHANGED <<config, updater, cancelled>>

\* The step returns; updater.Done is deferred.
Returns(place) == at' = place /\ updater' = FALSE /\ UNCHANGED <<config, cancelled>>

GoTo(place) == at' = place /\ UNCHANGED <<config, updater, cancelled>>

Interrupt ==
  /\ ~cancelled /\ at \notin {"exported", "halted"}
  /\ cancelled' = TRUE
  /\ UNCHANGED <<config, at, next, lease, updater, output, hashed>>

\* Unknown options are refused, or the known ones cannot be read.
ValidateExportOptions ==
  /\ at = "options"
  /\ \/ GoTo("export")
     \/ config.options /\ Returns("halted")
  /\ UNCHANGED <<next, lease, output, hashed>>

\* The lease may be granted and the answer lost.
StartExport ==
  /\ at = "export"
  /\ \/ lease' = "open" /\ (GoTo("wait") \/ Returns("halted"))
     \/ Returns("halted") /\ UNCHANGED lease
  /\ UNCHANGED <<next, output, hashed>>

\* The step does not abort the lease, here or later.
WaitForLease ==
  /\ at = "wait"
  /\ \/ Returns("halted")
     \/ /\ ~cancelled /\ lease = "open"
        /\ at' = "download" /\ updater' = TRUE
        /\ UNCHANGED <<config, cancelled>>
  /\ UNCHANGED <<next, lease, output, hashed>>

\* Mutant: the index is advanced twice.
MutantSkipFile ==
  /\ at = "download" /\ next <= Len(Items)
  /\ next' = next + 2
  /\ GoTo("download")
  /\ UNCHANGED <<lease, output, hashed>>

SkipFile ==
  /\ at = "download" /\ next <= Len(Items) /\ ~Included(Items[next])
  /\ next' = next + 1
  /\ GoTo("download")
  /\ UNCHANGED <<lease, output, hashed>>

\* Mutant: a file that cannot be downloaded is left out.
MutantDownload ==
  /\ at = "download" /\ next <= Len(Items) /\ Included(Items[next])
  /\ GoTo("download")
  /\ next' = next + 1
  /\ output' \in {output, [output EXCEPT ![Items[next]] = "new"]}
  /\ hashed' = IF HasManifest THEN hashed \cup {Items[next]} ELSE hashed
  /\ UNCHANGED lease

\* The line for the manifest is written whether or not the download succeeds.
Download ==
  /\ at = "download" /\ next <= Len(Items) /\ Included(Items[next])
  /\ \/ /\ Returns("halted")
        /\ output' \in {output, [output EXCEPT ![Items[next]] = "partial"]}
        /\ UNCHANGED next
     \/ /\ ~cancelled /\ lease = "open"
        /\ output' = [output EXCEPT ![Items[next]] = "new"]
        /\ next' = next + 1
        /\ GoTo("download")
  /\ hashed' = IF HasManifest THEN hashed \cup {Items[next]} ELSE hashed
  /\ UNCHANGED lease

CompleteLease ==
  /\ at = "download" /\ next > Len(Items)
  /\ \/ Returns("halted") /\ UNCHANGED lease
     \/ /\ ~cancelled /\ lease = "open" /\ lease' = "completed"
        /\ GoTo("descriptor") \/ Returns("halted")
  /\ UNCHANGED <<next, output, hashed>>

\* CreateDescriptor fails, or the file cannot be written.
WriteDescriptor ==
  /\ at = "descriptor"
  /\ \/ /\ output' \in {output, [output EXCEPT !["ovf"] = "partial"]}
        /\ Returns("halted")
     \/ /\ output' = [output EXCEPT !["ovf"] = "new"]
        /\ IF HasManifest THEN GoTo("manifest") ELSE Returns("exported")
  /\ UNCHANGED <<next, lease, hashed>>

WriteManifest ==
  /\ at = "manifest"
  /\ hashed' = hashed \cup {"ovf"}
  /\ \/ /\ output' \in {output, [output EXCEPT !["mf"] = "partial"]}
        /\ Returns("halted")
     \/ /\ output' = [output EXCEPT !["mf"] = "new"]
        /\ IF config.format = "ova" THEN GoTo("old ova") ELSE Returns("exported")
  /\ UNCHANGED <<next, lease>>

RemoveOldOva ==
  /\ at = "old ova"
  /\ \/ config.force /\ Returns("halted") /\ UNCHANGED output
     \/ /\ output' = [output EXCEPT !["ova"] = IF config.force THEN "absent" ELSE @]
        /\ GoTo("convert")
  /\ UNCHANGED <<next, lease, hashed>>

\* ovftool fails, or the file it should have made is not there.
Convert ==
  /\ at = "convert"
  /\ \/ /\ output' \in {output, [output EXCEPT !["ova"] = "partial"]}
        /\ Returns("halted")
     \/ /\ output' = [output EXCEPT !["ova"] = "new"]
        /\ GoTo("intermediate")
  /\ UNCHANGED <<next, lease, hashed>>

\* A file that cannot be removed is only reported.
RemoveIntermediateFiles ==
  /\ at = "intermediate"
  /\ \E kept \in SUBSET {f \in Images : Included(f)} :
       \E target \in SUBSET {"ovf", "mf"} :
         output' = [f \in Files |->
           IF \/ f \in Images /\ Included(f) /\ f \notin kept
              \/ f \in {"ovf", "mf"} \ target
           THEN "absent" ELSE output[f]]
  /\ Returns("exported")
  /\ UNCHANGED <<next, lease, hashed>>

LeaseExpires ==
  /\ lease = "open" /\ (~updater \/ cancelled)
  /\ lease' = "expired"
  /\ UNCHANGED <<config, at, next, updater, output, hashed, cancelled>>

-----------------------------------------------------------------------------

Ended == at \in {"exported", "halted"}

Step ==
  \/ ValidateExportOptions \/ StartExport \/ WaitForLease \/ SkipFile \/ Download
  \/ CompleteLease \/ WriteDescriptor \/ WriteManifest \/ RemoveOldOva \/ Convert
  \/ RemoveIntermediateFiles

Terminated == Ended /\ UNCHANGED vars

Next == Step \/ LeaseExpires \/ Interrupt \/ Terminated

Spec == Init /\ [][Next]_vars

\* The step goes on, and the server enforces the time limit of leases.
FairSpec == Spec /\ WF_vars(Step) /\ WF_vars(LeaseExpires)

-----------------------------------------------------------------------------
(* Properties *)

\* Type invariant.
TypeOK ==
  /\ config \in Configs
  /\ at \in {"options", "export", "wait", "download", "descriptor", "manifest",
             "old ova", "convert", "intermediate", "exported", "halted"}
  /\ next \in 1 .. Len(Items) + 1
  /\ lease \in {"none", "open", "completed", "expired"}
  /\ updater \in BOOLEAN /\ cancelled \in BOOLEAN
  /\ output \in [Files -> {"absent", "before", "partial", "new"}]
  /\ hashed \subseteq Files

WholeOvf ==
  /\ \A f \in Images : Included(f) => output[f] = "new"
  /\ output["ovf"] = "new"
  /\ HasManifest =>
       output["mf"] = "new" /\ hashed = {f \in Images : Included(f)} \cup {"ovf"}

\* An export is made of one run: whatever interrupts it, no new descriptor, no
\* manifest and no archive is there without every file it stands for, complete
\* and of the same export; and an export that is reported is there.
WholeExport ==
  /\ output["ovf"] = "new" /\ output["ova"] # "new" =>
       \A f \in Images : Included(f) => output[f] = "new"
  /\ output["mf"] = "new" /\ output["ova"] # "new" => WholeOvf
  /\ output["ova"] = "new" => lease = "completed" /\ next = Len(Items) + 1
  /\ at = "exported" => WholeOvf \/ output["ova"] = "new"

\* Although no error path aborts the lease, it does not stay open: the step ends,
\* nobody renews the lease any more and the server lets it expire.
Settles == <>[](Ended /\ lease # "open" /\ ~updater)

\* step_export.go:139: "When set to `ova`, the image is first exported using Open
\* Virtualization Format (`.ovf`) and then converted to an Open Virtualization
\* Archive".  The code returns before the conversion when there is no manifest.
OvaIsMade == at = "exported" /\ config.format = "ova" => output["ova"] = "new"
=============================================================================
