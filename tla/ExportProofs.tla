------------------------------ MODULE ExportProofs ------------------------------
(***************************************************************************)
(* Proofs about Export, for every list of files and every set of            *)
(* configurations.                                                          *)
(***************************************************************************)
EXTENDS Export, TLAPS

-----------------------------------------------------------------------------
(* The inductive invariant *)

\* The files of the lease before index n that are to be exported.
Past(n) == {f \in Images : Included(f) /\ \E i \in 1 .. n - 1 : Items[i] = f}

\* The three files that the step writes itself are not of this export.
NothingWritten == output["ovf"] # "new" /\ output["mf"] # "new" /\ output["ova"] # "new"

\* What has been downloaded is complete and listed for the manifest.
DownloadInv ==
  /\ at \in {"options", "export", "wait"} => next = 1 /\ hashed = {}
  /\ at \in {"options", "export", "wait", "download", "descriptor"} => NothingWritten
  /\ at \in {"download", "descriptor", "manifest"} =>
       /\ \A f \in Past(next) : output[f] = "new"
       /\ HasManifest => hashed = Past(next)

\* The files that describe others are written after these, each at its place.
WriteInv ==
  /\ at \in {"descriptor", "manifest", "old ova", "convert", "intermediate"} =>
       lease = "completed" /\ next = Len(Items) + 1
  /\ at = "manifest" => HasManifest /\ output["ovf"] = "new" /\ output["mf"] # "new"
  /\ at \in {"old ova", "convert"} => WholeOvf
  /\ at \in {"manifest", "old ova", "convert"} => output["ova"] # "new"
  /\ at = "intermediate" => output["ova"] = "new"

IInv == TypeOK /\ DownloadInv /\ WriteInv /\ WholeExport

-----------------------------------------------------------------------------
(* Lemmas *)

LEMMA ItemsType == Len(Items) \in Nat /\ DOMAIN Items = 1 .. Len(Items)
  BY ExportAssumption

\* At the end of the list, all the files that are to be exported are past.
LEMMA PastAll == Past(Len(Items) + 1) = {f \in Images : Included(f)}
  <1>1. 1 .. (Len(Items) + 1) - 1 = DOMAIN Items
    BY ItemsType
  <1>2. QED BY <1>1 DEF Past, Images

\* One file further.
LEMMA PastNext ==
  ASSUME NEW n \in 1 .. Len(Items)
  PROVE  /\ Items[n] \in Images
         /\ Included(Items[n]) => Past(n + 1) = Past(n) \cup {Items[n]}
         /\ ~Included(Items[n]) => Past(n + 1) = Past(n)
  <1>1. Len(Items) \in Nat /\ Items[n] \in Images
    BY ItemsType DEF Images
  <1>2. 1 .. (n + 1) - 1 = (1 .. n - 1) \cup {n}
    BY <1>1
  <1>3. QED BY <1>1, <1>2 DEF Past

LEMMA PastFirst == Past(1) = {}
  BY DEF Past

\* The files that the step writes are not files of the lease.
LEMMA OwnFiles ==
  /\ {"ovf", "mf", "ova"} \subseteq Files /\ Images \subseteq Files
  /\ \A f \in Images : f # "ovf" /\ f # "mf" /\ f # "ova"
  BY ExportAssumption DEF Files

\* The configuration stays what it is, and all that is computed from it.
LEMMA ConfigStays ==
  ASSUME config' = config
  PROVE  /\ Past(next)' = Past(next')
         /\ HasManifest' = HasManifest
         /\ \A f \in Images : Included(f)' = Included(f)
  BY DEF Past, Included, HasManifest

-----------------------------------------------------------------------------
(* The invariant is kept *)

LEMMA InitIInv == Init => IInv
  <1> SUFFICES ASSUME Init PROVE IInv
    OBVIOUS
  <1>1. TypeOK
    <2>1. 1 \in 1 .. Len(Items) + 1
      BY ItemsType
    <2>2. output \in [Files -> {"absent", "before", "partial", "new"}]
      BY DEF Init
    <2>3. QED BY <2>1, <2>2 DEF Init, TypeOK
  <1>2. NothingWritten /\ \A f \in Files : output[f] # "new"
    BY OwnFiles DEF Init, NothingWritten
  <1>3. QED BY <1>1, <1>2 DEF Init, IInv, DownloadInv, WriteInv, WholeExport, NothingWritten

\* The actions before the download touch neither files nor the manifest.
LEMMA LeaseIInv ==
  ASSUME IInv, ValidateExportOptions \/ StartExport \/ WaitForLease
  PROVE  IInv'
  <1> USE DEF ValidateExportOptions, StartExport, WaitForLease, GoTo, Returns
  <1>1. at \in {"options", "export", "wait"} /\ UNCHANGED <<config, output, hashed, next>>
    OBVIOUS
  <1>2. TypeOK'
    BY DEF IInv, TypeOK
  <1>3. NothingWritten /\ NothingWritten' /\ next = 1 /\ hashed = {}
    BY <1>1 DEF IInv, DownloadInv, NothingWritten
  <1>4. at' \in {"export", "wait", "download", "halted"}
    OBVIOUS
  <1> HIDE DEF ValidateExportOptions, StartExport, WaitForLease, GoTo, Returns
  <1>5. DownloadInv'
    BY <1>1, <1>3, <1>4, ConfigStays, PastFirst DEF DownloadInv
  <1>6. WriteInv' /\ WholeExport'
    BY <1>3, <1>4 DEF WriteInv, WholeExport, NothingWritten
  <1>7. QED BY <1>2, <1>5, <1>6 DEF IInv

LEMMA DownloadIInv ==
  ASSUME IInv, SkipFile \/ Download
  PROVE  IInv'
  <1> DEFINE file == Items[next]
  <1>1. /\ at = "download" /\ next \in 1 .. Len(Items) /\ config' = config
        /\ TypeOK /\ NothingWritten
        /\ \A f \in Past(next) : output[f] = "new"
        /\ HasManifest => hashed = Past(next)
    <2>1. at = "download" /\ next <= Len(Items) /\ config' = config
      BY DEF SkipFile, Download, GoTo, Returns
    <2>2. TypeOK /\ DownloadInv
      BY DEF IInv
    <2>3. next \in 1 .. Len(Items)
      BY <2>1, <2>2, ItemsType DEF TypeOK
    <2>4. QED BY <2>1, <2>2, <2>3 DEF DownloadInv
  <1>2. /\ file \in Images /\ file \in Files
        /\ Included(file) => Past(next + 1) = Past(next) \cup {file}
        /\ ~Included(file) => Past(next + 1) = Past(next)
    BY <1>1, PastNext, OwnFiles
  <1>3. /\ file # "ovf" /\ file # "mf" /\ file # "ova"
        /\ "ovf" \in Files /\ "mf" \in Files /\ "ova" \in Files
        /\ output \in [Files -> {"absent", "before", "partial", "new"}]
    BY <1>1, <1>2, OwnFiles DEF TypeOK
  <1>4. Len(Items) \in Nat
    BY ItemsType
  <1> HIDE DEF file
  <1>5. CASE SkipFile
    <2>1. /\ at' = "download" /\ next' = next + 1 /\ ~Included(file)
          /\ UNCHANGED <<config, lease, updater, cancelled, output, hashed>>
      BY <1>5 DEF SkipFile, GoTo, file
    <2>2. TypeOK'
      BY <1>1, <1>4, <2>1 DEF TypeOK
    <2>3. DownloadInv'
      BY <1>1, <1>2, <2>1, ConfigStays DEF DownloadInv, NothingWritten
    <2>4. WriteInv' /\ WholeExport'
      BY <1>1, <2>1 DEF WriteInv, WholeExport, NothingWritten
    <2>5. QED BY <2>2, <2>3, <2>4 DEF IInv
  <1>6. CASE Download
    <2>1. /\ Included(file) /\ lease' = lease
          /\ hashed' = IF HasManifest THEN hashed \cup {file} ELSE hashed
          /\ \/ /\ at' = "halted" /\ updater' = FALSE
                /\ UNCHANGED <<config, cancelled, next>>
                /\ output' = output \/ output' = [output EXCEPT ![file] = "partial"]
             \/ /\ at' = "download" /\ next' = next + 1
                /\ UNCHANGED <<config, updater, cancelled>>
                /\ output' = [output EXCEPT ![file] = "new"]
      BY <1>6 DEF Download, GoTo, Returns, file
    <2>2. TypeOK'
      <3>1. hashed' \subseteq Files
        BY <1>1, <1>2, <2>1 DEF TypeOK
      <3>2. output' \in [Files -> {"absent", "before", "partial", "new"}]
        BY <1>2, <1>3, <2>1
      <3>3. next' \in 1 .. Len(Items) + 1
        BY <1>1, <1>4, <2>1
      <3>4. at' \in {"download", "halted"} /\ updater' \in {updater, FALSE}
            /\ UNCHANGED <<config, lease, cancelled>>
        BY <2>1
      <3>5. QED BY <1>1, <3>1, <3>2, <3>3, <3>4 DEF TypeOK
    <2>3. NothingWritten'
      BY <1>1, <1>3, <2>1 DEF NothingWritten
    <2>4. DownloadInv'
      <3>1. CASE at' = "halted"
        BY <3>1 DEF DownloadInv
      <3>2. CASE at' = "download"
        <4>1. Past(next)' = Past(next) \cup {file}
          BY <1>1, <1>2, <2>1, <3>2, ConfigStays
        <4>2. Past(next) \subseteq Files
          BY OwnFiles DEF Past
        <4>3. \A f \in Past(next)' : output'[f] = "new"
          BY <1>1, <1>2, <1>3, <2>1, <3>2, <4>1, <4>2
        <4>4. HasManifest' => hashed' = Past(next)'
          BY <1>1, <2>1, <4>1, ConfigStays
        <4>5. QED BY <2>3, <3>2, <4>3, <4>4 DEF DownloadInv
      <3>3. QED BY <2>1, <3>1, <3>2
    <2>5. WriteInv' /\ WholeExport'
      BY <2>1, <2>3 DEF WriteInv, WholeExport, NothingWritten
    <2>6. QED BY <2>2, <2>4, <2>5 DEF IInv
  <1>7. QED BY <1>5, <1>6

LEMMA CompleteIInv ==
  ASSUME IInv, CompleteLease
  PROVE  IInv'
  <1>1. /\ at = "download" /\ next = Len(Items) + 1 /\ config' = config
        /\ TypeOK /\ NothingWritten
        /\ \A f \in Past(next) : output[f] = "new"
        /\ HasManifest => hashed = Past(next)
    BY DEF CompleteLease, IInv, TypeOK, DownloadInv, GoTo, Returns
  <1>2. /\ UNCHANGED <<next, output, hashed, config, cancelled>>
        /\ updater' \in {updater, FALSE} /\ lease' \in {lease, "completed"}
        /\ at' = "halted" \/ (at' = "descriptor" /\ lease' = "completed")
    BY DEF CompleteLease, GoTo, Returns
  <1>3. TypeOK' /\ NothingWritten'
    BY <1>1, <1>2 DEF TypeOK, NothingWritten
  <1>4. DownloadInv'
    BY <1>1, <1>2, <1>3, ConfigStays DEF DownloadInv
  <1>5. WriteInv' /\ WholeExport'
    BY <1>1, <1>2, <1>3 DEF WriteInv, WholeExport, NothingWritten
  <1>6. QED BY <1>3, <1>4, <1>5 DEF IInv

LEMMA DescriptorIInv ==
  ASSUME IInv, WriteDescriptor
  PROVE  IInv'
  <1>1. /\ at = "descriptor" /\ next = Len(Items) + 1 /\ lease = "completed"
        /\ TypeOK /\ NothingWritten
        /\ \A f \in Images : Included(f) => output[f] = "new"
        /\ \A f \in Past(next) : output[f] = "new"
        /\ HasManifest => hashed = Past(next)
    BY PastAll DEF WriteDescriptor, IInv, DownloadInv, WriteInv
  <1>2. /\ UNCHANGED <<next, lease, hashed, config, cancelled>> /\ updater' \in {updater, FALSE}
        /\ \/ /\ at' = "halted"
              /\ output' = output \/ output' = [output EXCEPT !["ovf"] = "partial"]
           \/ /\ output' = [output EXCEPT !["ovf"] = "new"]
              /\ at' = IF HasManifest THEN "manifest" ELSE "exported"
    BY DEF WriteDescriptor, GoTo, Returns
  <1>3. /\ "ovf" \in Files /\ Images \subseteq Files
        /\ \A f \in Images : f # "ovf"
        /\ output \in [Files -> {"absent", "before", "partial", "new"}]
    BY <1>1, OwnFiles DEF TypeOK
  <1>4. /\ \A f \in Images : output'[f] = output[f]
        /\ output'["mf"] # "new" /\ output'["ova"] # "new"
    BY <1>1, <1>2, <1>3, OwnFiles DEF NothingWritten
  <1>5. TypeOK'
    BY <1>1, <1>2, <1>3 DEF TypeOK
  <1>6. DownloadInv'
    <2>1. Past(next)' = Past(next) /\ HasManifest' = HasManifest
      BY <1>2, ConfigStays
    <2>2. \A f \in Past(next) : f \in Images
      BY DEF Past
    <2>3. QED BY <1>1, <1>2, <1>4, <2>1, <2>2 DEF DownloadInv
  <1>7. WriteInv'
    <2>1. at' = "manifest" => output'["ovf"] = "new" /\ HasManifest'
      BY <1>2, <1>3, ConfigStays
    <2>2. at' \in {"halted", "manifest", "exported"}
      BY <1>2
    <2>3. QED BY <1>1, <1>2, <1>4, <2>1, <2>2 DEF WriteInv
  <1>8. WholeExport'
    <2>1. \A f \in Images : Included(f)' => output'[f] = "new"
      BY <1>1, <1>2, <1>4, ConfigStays
    <2>2. at' = "exported" => output'["ovf"] = "new" /\ ~HasManifest'
      BY <1>2, <1>3, ConfigStays
    <2>3. QED BY <1>4, <2>1, <2>2 DEF WholeExport, WholeOvf
  <1>9. QED BY <1>5, <1>6, <1>7, <1>8 DEF IInv

LEMMA ManifestIInv ==
  ASSUME IInv, WriteManifest
  PROVE  IInv'
  <1>1. /\ at = "manifest" /\ next = Len(Items) + 1 /\ lease = "completed"
        /\ TypeOK /\ HasManifest
        /\ output["ovf"] = "new" /\ output["mf"] # "new" /\ output["ova"] # "new"
        /\ \A f \in Images : Included(f) => output[f] = "new"
        /\ hashed = {f \in Images : Included(f)}
    BY PastAll DEF WriteManifest, IInv, DownloadInv, WriteInv
  <1>2. /\ UNCHANGED <<next, lease, config, cancelled>> /\ updater' \in {updater, FALSE}
        /\ hashed' = hashed \cup {"ovf"}
        /\ \/ /\ at' = "halted"
              /\ output' = output \/ output' = [output EXCEPT !["mf"] = "partial"]
           \/ /\ output' = [output EXCEPT !["mf"] = "new"]
              /\ at' = IF config.format = "ova" THEN "old ova" ELSE "exported"
    BY DEF WriteManifest, GoTo, Returns
  <1>3. /\ {"ovf", "mf", "ova"} \subseteq Files /\ Images \subseteq Files
        /\ \A f \in Images : f # "mf"
        /\ output \in [Files -> {"absent", "before", "partial", "new"}]
    BY <1>1, OwnFiles DEF TypeOK
  <1>4. /\ \A f \in Images : output'[f] = output[f]
        /\ output'["ovf"] = "new" /\ output'["ova"] # "new"
        /\ output'["mf"] = "new" <=> at' # "halted"
    BY <1>1, <1>2, <1>3
  <1>5. TypeOK'
    BY <1>1, <1>2, <1>3 DEF TypeOK
  <1>6. DownloadInv'
    BY <1>2 DEF DownloadInv
  <1>7. at' # "halted" => WholeOvf'
    <2>1. \A f \in Images : Included(f)' => output'[f] = "new"
      BY <1>1, <1>2, <1>4, ConfigStays
    <2>2. hashed' = {f \in Images : Included(f)'} \cup {"ovf"}
      BY <1>1, <1>2, ConfigStays
    <2>3. QED BY <1>4, <2>1, <2>2 DEF WholeOvf
  <1>8. WriteInv'
    BY <1>1, <1>2, <1>4, <1>7 DEF WriteInv
  <1>9. WholeExport'
    <2>1. \A f \in Images : Included(f)' => output'[f] = "new"
      BY <1>1, <1>2, <1>4, ConfigStays
    <2>2. QED BY <1>2, <1>4, <1>7, <2>1 DEF WholeExport
  <1>10. QED BY <1>5, <1>6, <1>8, <1>9 DEF IInv

\* The archive is made of an export that is whole; afterwards it stands for it.
LEMMA OvaIInv ==
  ASSUME IInv, RemoveOldOva \/ Convert
  PROVE  IInv'
  <1>1. /\ at \in {"old ova", "convert"} /\ next = Len(Items) + 1 /\ lease = "completed"
        /\ TypeOK /\ WholeOvf /\ output["ova"] # "new"
    BY DEF RemoveOldOva, Convert, IInv, WriteInv
  <1>2. /\ UNCHANGED <<next, lease, hashed, config, cancelled>> /\ updater' \in {updater, FALSE}
        /\ \/ /\ at' \in {"halted", "convert"}
              /\ \/ output' = output
                 \/ output' = [output EXCEPT !["ova"] = "partial"]
                 \/ output' = [output EXCEPT !["ova"] = "absent"]
           \/ at' = "intermediate" /\ output' = [output EXCEPT !["ova"] = "new"]
    <2>1. output = [output EXCEPT !["ova"] = output["ova"]]
      BY <1>1, OwnFiles DEF TypeOK
    <2>2. QED BY <2>1 DEF RemoveOldOva, Convert, GoTo, Returns
  <1>3. /\ "ova" \in Files /\ Images \subseteq Files
        /\ \A f \in Images : f # "ova"
        /\ output \in [Files -> {"absent", "before", "partial", "new"}]
    BY <1>1, OwnFiles DEF TypeOK
  <1>4. /\ \A f \in Images : output'[f] = output[f]
        /\ output'["ovf"] = output["ovf"] /\ output'["mf"] = output["mf"]
        /\ output'["ova"] = "new" <=> at' = "intermediate"
    BY <1>1, <1>2, <1>3, OwnFiles
  <1>5. TypeOK'
    BY <1>1, <1>2, <1>3 DEF TypeOK
  <1>6. DownloadInv'
    BY <1>2 DEF DownloadInv
  <1>7. WholeOvf'
    <2>1. {f \in Images : Included(f)'} = {f \in Images : Included(f)}
      BY <1>2, ConfigStays
    <2>2. \A f \in Images : Included(f)' => output'[f] = "new"
      BY <1>1, <1>2, <1>4, ConfigStays DEF WholeOvf
    <2>3. HasManifest' =>
            /\ output'["mf"] = "new"
            /\ hashed' = {f \in Images : Included(f)'} \cup {"ovf"}
      BY <1>1, <1>2, <1>4, <2>1, ConfigStays DEF WholeOvf
    <2>4. QED BY <1>1, <1>4, <2>2, <2>3 DEF WholeOvf
  <1>8. WriteInv'
    BY <1>1, <1>2, <1>4, <1>7 DEF WriteInv
  <1>9. WholeExport'
    BY <1>1, <1>2, <1>4, <1>7 DEF WholeExport, WholeOvf
  <1>10. QED BY <1>5, <1>6, <1>8, <1>9 DEF IInv

LEMMA IntermediateIInv ==
  ASSUME IInv, RemoveIntermediateFiles
  PROVE  IInv'
  <1>1. /\ at = "intermediate" /\ next = Len(Items) + 1 /\ lease = "completed"
        /\ TypeOK /\ output["ova"] = "new"
    BY DEF RemoveIntermediateFiles, IInv, WriteInv
  <1>2. /\ UNCHANGED <<next, lease, hashed, config, cancelled>> /\ updater' = FALSE
        /\ at' = "exported"
    BY DEF RemoveIntermediateFiles, Returns
  <1>3. /\ output' \in [Files -> {"absent", "before", "partial", "new"}]
        /\ output'["ova"] = "new"
    <2>1. PICK kept \in SUBSET {f \in Images : Included(f)}, target \in SUBSET {"ovf", "mf"} :
            output' = [f \in Files |->
              IF \/ f \in Images /\ Included(f) /\ f \notin kept
                 \/ f \in {"ovf", "mf"} \ target
              THEN "absent" ELSE output[f]]
      BY DEF RemoveIntermediateFiles
    <2>2. \A f \in Files : output'[f] \in {"absent", output[f]}
      BY <2>1
    <2>3. "ova" \in Files /\ "ova" \notin Images
      BY OwnFiles
    <2>4. QED BY <1>1, <2>1, <2>2, <2>3 DEF TypeOK
  <1>4. TypeOK'
    BY <1>1, <1>2, <1>3 DEF TypeOK
  <1>5. DownloadInv' /\ WriteInv' /\ WholeExport'
    BY <1>1, <1>2, <1>3 DEF DownloadInv, WriteInv, WholeExport
  <1>6. QED BY <1>4, <1>5 DEF IInv

\* The server, the user and the end: nothing changes but the lease, which cannot
\* expire when it is completed, and the context.
LEMMA OtherIInv ==
  ASSUME IInv, LeaseExpires \/ Interrupt \/ Terminated \/ UNCHANGED vars
  PROVE  IInv'
  <1>1. /\ UNCHANGED <<config, at, next, updater, output, hashed>>
        /\ cancelled' \in {cancelled, TRUE}
        /\ lease' = lease \/ (lease = "open" /\ lease' = "expired")
    BY DEF LeaseExpires, Interrupt, Terminated, vars
  <1>2. TypeOK'
    BY <1>1 DEF IInv, TypeOK
  <1>3. WholeOvf' = WholeOvf
    BY <1>1, ConfigStays DEF WholeOvf
  <1>4. DownloadInv'
    BY <1>1, ConfigStays DEF IInv, DownloadInv, NothingWritten
  <1>5. WriteInv'
    BY <1>1, <1>3, ConfigStays DEF IInv, WriteInv
  <1>6. WholeExport'
    BY <1>1, <1>3, ConfigStays DEF IInv, WholeExport
  <1>7. QED BY <1>2, <1>4, <1>5, <1>6 DEF IInv

LEMMA Invariance == Spec => []IInv
  <1>1. IInv /\ [Next]_vars => IInv'
    BY LeaseIInv, DownloadIInv, CompleteIInv, DescriptorIInv, ManifestIInv, OvaIInv,
       IntermediateIInv, OtherIInv DEF Next, Step
  <1>2. QED BY InitIInv, <1>1, PTL DEF Spec

-----------------------------------------------------------------------------
(* The properties *)

\* The variables keep their types; the index does not pass the end of the list.
THEOREM TypeCorrect == Spec => []TypeOK
  <1>1. IInv => TypeOK
    BY DEF IInv
  <1>2. QED BY Invariance, <1>1, PTL

\* Whatever fails and whenever the step is interrupted, no new descriptor,
\* manifest or archive is there without the files it stands for, and an export
\* that is reported is there.
THEOREM ExportIsWhole == Spec => []WholeExport
  <1>1. IInv => WholeExport
    BY DEF IInv
  <1>2. QED BY Invariance, <1>1, PTL
=============================================================================
