-------------------------- MODULE LibraryImportProofs --------------------------
(***************************************************************************)
(* Proofs about LibraryImport, for any number of builds, every set of       *)
(* configurations and every state of the library.                           *)
(***************************************************************************)
EXTENDS LibraryImport, TLAPS

-----------------------------------------------------------------------------
(* The inductive invariant *)

Importing == {"find", "delete", "create", "find ovf", "create ovf", "uuid", "datastores"}

\* How the place of a build goes together with its configuration and its results.
BuildInv(b) ==
  /\ failure[b] # None <=> at[b] = "failed"
  /\ at[b] \in Importing => ~config[b].skipImport
  /\ at[b] = "delete" => config[b].overwrite
  /\ at[b] \in {"find ovf", "create ovf"} => config[b].ovf
  /\ at[b] = "datastores" => uuid[b] # None

\* A build that was to overwrite an item and may have deleted it: it is about to
\* make its own, or has failed.
Stranded(b) ==
  /\ ~config[b].skipImport /\ config[b].overwrite
  /\ at[b] = "create" \/ failure[b] \in {"delete", "create"}

\* There is no item only as long as nobody has made one, or because of such a build.
ContentInv ==
  content = None =>
    \/ \E b \in Builds : Stranded(b)
    \/ /\ lib.item = None
       /\ \A b \in Builds : ~config[b].skipImport => at[b] \notin {"uuid", "datastores", "imported"}

IInv == TypeOK /\ (\A b \in Builds : BuildInv(b)) /\ ContentInv

-----------------------------------------------------------------------------
(* What a step changes *)

Places == {"connect", "mount", "tags", "import", "find", "delete", "create", "find ovf",
           "create ovf", "uuid", "datastores", "imported", "failed"}
Reasons == {"connect", "tags", "no session", "boot order", "exists", "delete", "create",
            "logout", "library", "description", "uuid", "datastores"}

\* A build b goes to a place, or it fails for a reason.
Goes(b) ==
  /\ \/ failure' = failure /\ \E place \in Places \ {"failed"} : at' = [at EXCEPT ![b] = place]
     \/ /\ at' = [at EXCEPT ![b] = "failed"]
        /\ \E why \in Reasons : failure' = [failure EXCEPT ![b] = why]
  /\ UNCHANGED given

LEMMA GoesFrom ==
  ASSUME NEW b \in Builds, Step(b)
  PROVE  Goes(b) /\ at[b] \in Places \ {"imported", "failed"}
  <1>1. \A place \in Places \ {"failed"} : GoTo(b, place) => Goes(b)
    BY DEF GoTo, Goes
  <1>2. \A why \in Reasons : Fails(b, why) => Goes(b)
    BY DEF Fails, Goes
  <1>3. CASE Connect(b)
    BY <1>1, <1>2, <1>3 DEF Places, Reasons, Connect
  <1>4. CASE MountCdrom(b)
    BY <1>1, <1>2, <1>4 DEF Places, Reasons, MountCdrom
  <1>5. CASE ApplyTags(b)
    BY <1>1, <1>2, <1>5 DEF Places, Reasons, ApplyTags
  <1>6. CASE StartImport(b)
    BY <1>1, <1>2, <1>6 DEF Places, Reasons, StartImport
  <1>7. CASE FindItem(b)
    BY <1>1, <1>2, <1>7 DEF Places, Reasons, FindItem
  <1>8. CASE DeleteItem(b)
    BY <1>1, <1>2, <1>8 DEF Places, Reasons, DeleteItem
  <1>9. CASE CreateTemplate(b)
    BY <1>1, <1>2, <1>9 DEF Places, Reasons, CreateTemplate
  <1>10. CASE FindOvfItem(b)
    BY <1>1, <1>2, <1>10 DEF Places, Reasons, FindOvfItem
  <1>11. CASE CreateOvf(b)
    BY <1>1, <1>2, <1>11 DEF Places, Reasons, CreateOvf
  <1>12. CASE FindUUID(b)
    BY <1>1, <1>2, <1>12 DEF Places, Reasons, FindUUID
  <1>13. CASE FindDatastoreNames(b)
    BY <1>1, <1>2, <1>13 DEF Places, Reasons, FindDatastoreNames
  <1>14. QED BY <1>3, <1>4, <1>5, <1>6, <1>7, <1>8, <1>9, <1>10, <1>11, <1>12, <1>13 DEF Step

\* Neither the configuration nor the place of another build changes.
LEMMA Frame ==
  ASSUME TypeOK, NEW b \in Builds, Goes(b)
  PROVE  /\ config' = config /\ lib' = lib
         /\ at' \in [Builds -> Places] /\ failure' \in [Builds -> Reasons \cup {None}]
         /\ at'[b] # at[b] <=> at' # at
         /\ \A o \in Builds \ {b} : at'[o] = at[o] /\ failure'[o] = failure[o]
         /\ \/ at'[b] \in Places \ {"failed"} /\ failure'[b] = failure[b]
            \/ at'[b] = "failed" /\ failure'[b] \in Reasons
  <1>1. at \in [Builds -> Places] /\ failure \in [Builds -> Reasons \cup {None}]
    BY DEF TypeOK, Places, Reasons
  <1>2. config' = config /\ lib' = lib
    BY DEF Goes, given
  <1>3. CASE failure' = failure /\ \E place \in Places \ {"failed"} : at' = [at EXCEPT ![b] = place]
    BY <1>1, <1>2, <1>3
  <1>4. CASE /\ at' = [at EXCEPT ![b] = "failed"]
             /\ \E why \in Reasons : failure' = [failure EXCEPT ![b] = why]
    <2>1. "failed" \in Places
      BY DEF Places
    <2>2. QED BY <1>1, <1>2, <1>4, <2>1
  <1>5. QED BY <1>3, <1>4 DEF Goes

\* The results of a step.
LEMMA ResultTypes ==
  ASSUME TypeOK, NEW b \in Builds, Step(b)
  PROVE  /\ session' \in [Builds -> BOOLEAN]
         /\ found' \in [Builds -> Owners] /\ uuid' \in [Builds -> Owners]
         /\ \A o \in Builds \ {b} : uuid'[o] = uuid[o]
         /\ item' \in Owners /\ content' \in Owners /\ (item' = None) = (content' = None)
  <1> USE DEF TypeOK, SessionIs, Login, Logout
  <1>1. None \in Owners /\ b \in Owners /\ b # None
    BY LibraryAssumption DEF Owners
  <1>2. session' \in [Builds -> BOOLEAN]
    BY DEF Step, Connect, MountCdrom, ApplyTags, StartImport, FindItem, DeleteItem, CreateTemplate, FindOvfItem, CreateOvf, FindUUID, FindDatastoreNames
  <1>3. found' \in [Builds -> Owners]
    BY <1>1 DEF Step, Connect, MountCdrom, ApplyTags, StartImport, FindItem, DeleteItem, CreateTemplate, FindOvfItem, CreateOvf, FindUUID, FindDatastoreNames
  <1>4. uuid' \in [Builds -> Owners] /\ \A o \in Builds \ {b} : uuid'[o] = uuid[o]
    BY ZenonT(30), <1>1 DEF Step, Connect, MountCdrom, ApplyTags, StartImport, FindItem, DeleteItem, CreateTemplate, FindOvfItem, CreateOvf, FindUUID, FindDatastoreNames
  <1>5. item' \in Owners /\ content' \in Owners /\ (item' = None) = (content' = None)
    BY <1>1 DEF Step, library, Connect, MountCdrom, ApplyTags, StartImport, FindItem, DeleteItem, CreateTemplate, FindOvfItem, CreateOvf, FindUUID, FindDatastoreNames
  <1>6. QED BY <1>2, <1>3, <1>4, <1>5

-----------------------------------------------------------------------------
(* The invariant is kept *)

LEMMA InitIInv == Init => IInv
  <1> SUFFICES ASSUME Init PROVE IInv
    OBVIOUS
  <1>1. /\ \A b \in Builds : config[b] \in ConfigType /\ config[b] \in Configs
        /\ lib \in LibraryType
    BY LibraryAssumption DEF Init
  <1>2. TypeOK
    <2>1. lib.item \in Owners /\ None \in Owners
      BY <1>1 DEF LibraryType, Owners
    <2>2. QED BY <2>1 DEF Init, TypeOK
  <1>3. \A b \in Builds : BuildInv(b)
    BY DEF Init, BuildInv, Importing, None
  <1>4. ContentInv
    BY DEF Init, ContentInv
  <1>5. QED BY <1>2, <1>3, <1>4 DEF IInv

\* The build that takes a step keeps its part.
LEMMA StepBuildInv ==
  ASSUME TypeOK, NEW b \in Builds, BuildInv(b), Step(b)
  PROVE  BuildInv(b)'
  <1>1. /\ config' = config /\ failure[b] = None
        /\ failure'[b] = None <=> at'[b] # "failed"
        /\ uuid' \in [Builds -> Owners]
    BY GoesFrom, Frame, ResultTypes DEF BuildInv, Reasons, None, Places
  <1>2. at'[b] = "datastores" => uuid'[b] # None
    <2>1. CASE FindUUID(b)
      BY <2>1 DEF FindUUID, GoTo, Fails, TypeOK
    <2>2. CASE ~FindUUID(b)
      BY <2>2 DEF Step, Connect, MountCdrom, ApplyTags, StartImport, FindItem, DeleteItem, CreateTemplate, FindOvfItem, CreateOvf, FindDatastoreNames, GoTo, Fails, TypeOK
    <2>3. QED BY <2>1, <2>2
  <1>3. /\ at'[b] \in Importing => ~config[b].skipImport
        /\ at'[b] = "delete" => config[b].overwrite
        /\ at'[b] \in {"find ovf", "create ovf"} => config[b].ovf
    BY DEF Step, Connect, MountCdrom, ApplyTags, StartImport, FindItem, DeleteItem, CreateTemplate, FindOvfItem, CreateOvf, FindUUID, FindDatastoreNames, GoTo, Fails, TypeOK, BuildInv, Importing
  <1>4. QED BY <1>1, <1>2, <1>3 DEF BuildInv

\* The library changes when an item is deleted by a build that may, and when a
\* build has made one.
LEMMA LibraryEffect ==
  ASSUME TypeOK, NEW b \in Builds, BuildInv(b), Step(b)
  PROVE  \/ UNCHANGED library
         \/ /\ at[b] = "delete" /\ config[b].overwrite /\ ~config[b].skipImport
            /\ content' = None
            /\ at'[b] = "create" \/ failure'[b] = "delete"
         \/ /\ at[b] \in {"create", "create ovf"} /\ content' = b
            /\ content # None => config[b].ovf
  <1>1. CASE DeleteItem(b)
    BY <1>1 DEF DeleteItem, GoTo, Fails, TypeOK, BuildInv, Importing
  <1>2. CASE CreateTemplate(b)
    BY <1>2 DEF CreateTemplate, TypeOK
  <1>3. CASE CreateOvf(b)
    BY <1>3 DEF CreateOvf, BuildInv, library
  <1>4. CASE ~(DeleteItem(b) \/ CreateTemplate(b) \/ CreateOvf(b))
    BY <1>4 DEF Step, Connect, MountCdrom, ApplyTags, StartImport, FindItem, FindOvfItem,
                FindUUID, FindDatastoreNames
  <1>5. QED BY <1>1, <1>2, <1>3, <1>4

\* A build other than the one that takes a step stays stranded.
LEMMA StepContentInv ==
  ASSUME IInv, NEW b \in Builds, Step(b)
  PROVE  ContentInv'
  <1>1. /\ TypeOK /\ BuildInv(b) /\ ContentInv /\ Goes(b)
        /\ at[b] \in Places \ {"imported", "failed"} /\ failure[b] = None
    BY GoesFrom DEF IInv, BuildInv
  <1>2. /\ config' = config /\ lib' = lib
        /\ \A o \in Builds \ {b} : at'[o] = at[o] /\ failure'[o] = failure[o]
    BY <1>1, Frame
  <1>3. \A o \in Builds \ {b} : Stranded(o)' = Stranded(o)
    BY <1>2 DEF Stranded
  <1> SUFFICES ASSUME content' = None
               PROVE  \/ \E o \in Builds : Stranded(o)'
                      \/ /\ lib.item = None
                         /\ \A o \in Builds : ~config[o].skipImport =>
                              at'[o] \notin {"uuid", "datastores", "imported"}
    BY <1>2 DEF ContentInv
  <1>4. CASE UNCHANGED library
    <2>1. content = None
      BY <1>4 DEF library
    <2>2. Stranded(b) => Stranded(b)'
      <3>1. SUFFICES ASSUME Stranded(b) PROVE Stranded(b)'
        OBVIOUS
      <3>2. at[b] = "create"
        BY <1>1, <3>1 DEF Stranded, None
      <3>3. CreateTemplate(b)
        BY <3>2 DEF Step, Connect, MountCdrom, ApplyTags, StartImport, FindItem, DeleteItem,
            FindOvfItem, CreateOvf, FindUUID, FindDatastoreNames
      <3>4. failure'[b] = "create"
        BY <1>1, <1>4, <2>1, <3>3, LibraryAssumption DEF CreateTemplate, Fails, TypeOK, library, None
      <3>5. QED BY <1>2, <3>1, <3>4 DEF Stranded
    <2>3. ~config[b].skipImport /\ at[b] \notin {"uuid", "datastores", "imported"} =>
            at'[b] \notin {"uuid", "datastores", "imported"}
      BY ZenonT(30), <1>1, <1>4, <2>1, LibraryAssumption
         DEF Step, Connect, MountCdrom, ApplyTags, StartImport, FindItem, DeleteItem, CreateTemplate,
             FindOvfItem, CreateOvf, FindUUID, FindDatastoreNames, GoTo, Fails, TypeOK, library, None
    <2>4. QED BY <1>1, <1>2, <1>3, <2>1, <2>2, <2>3 DEF ContentInv
  <1>5. CASE /\ config[b].overwrite /\ ~config[b].skipImport
             /\ at'[b] = "create" \/ failure'[b] = "delete"
    BY <1>2, <1>5 DEF Stranded
  <1>6. content' # b
    BY LibraryAssumption
  <1>7. QED BY <1>1, <1>4, <1>5, <1>6, LibraryEffect

LEMMA NextIInv == IInv /\ [Next]_vars => IInv'
  <1> SUFFICES ASSUME IInv, [Next]_vars PROVE IInv'
    OBVIOUS
  <1>1. CASE UNCHANGED vars
    BY <1>1 DEF IInv, TypeOK, BuildInv, ContentInv, Stranded, vars, given, library
  <1>2. ASSUME NEW b \in Builds, Step(b) PROVE IInv'
    <2>1. TypeOK /\ BuildInv(b) /\ Goes(b)
      BY <1>2, GoesFrom DEF IInv
    <2>2. /\ config' = config /\ lib' = lib
          /\ at' \in [Builds -> Places] /\ failure' \in [Builds -> Reasons \cup {None}]
          /\ \A o \in Builds \ {b} : at'[o] = at[o] /\ failure'[o] = failure[o]
      BY <2>1, Frame
    <2>3. /\ session' \in [Builds -> BOOLEAN]
          /\ found' \in [Builds -> Owners] /\ uuid' \in [Builds -> Owners]
          /\ \A o \in Builds \ {b} : uuid'[o] = uuid[o]
          /\ item' \in Owners /\ content' \in Owners /\ (item' = None) = (content' = None)
      BY <1>2, <2>1, ResultTypes
    <2>4. \A o \in Builds : BuildInv(o)'
      <3>1. BuildInv(b)'
        BY <1>2, <2>1, StepBuildInv
      <3>2. ASSUME NEW o \in Builds \ {b} PROVE BuildInv(o)'
        BY <2>2, <2>3 DEF IInv, BuildInv
      <3>3. QED BY <3>1, <3>2
    <2>5. TypeOK'
      <3>1. \A o \in Builds : at'[o] = "imported" /\ ~config'[o].skipImport => uuid'[o] # None
        <4>1. at'[b] = "imported" => (at[b] = "import" /\ config[b].skipImport) \/ at[b] = "datastores"
          BY <1>2, <2>1 DEF Step, Connect, MountCdrom, ApplyTags, StartImport, FindItem, DeleteItem,
             CreateTemplate, FindOvfItem, CreateOvf, FindUUID, FindDatastoreNames, GoTo, Fails, TypeOK
        <4>2. at'[b] = "imported" /\ at[b] = "datastores" => uuid'[b] = uuid[b]
          BY <1>2, <2>1 DEF Step, Connect, MountCdrom, ApplyTags, StartImport, FindItem, DeleteItem,
             CreateTemplate, FindOvfItem, CreateOvf, FindUUID, FindDatastoreNames, GoTo, Fails, TypeOK
        <4>3. QED BY <2>1, <2>2, <2>3, <4>1, <4>2 DEF TypeOK, BuildInv
      <3>2. QED BY <2>1, <2>2, <2>3, <3>1 DEF TypeOK, Places, Reasons
    <2>6. ContentInv'
      BY <1>2, StepContentInv
    <2>7. QED BY <2>4, <2>5, <2>6 DEF IInv
  <1>3. QED BY <1>1, <1>2 DEF Next, Terminated

LEMMA Invariance == Spec => []IInv
  BY InitIInv, NextIInv, PTL DEF Spec

-----------------------------------------------------------------------------
(* The properties *)

\* The variables keep their types, and a build that has imported has published
\* the UUID of an item.
THEOREM TypeCorrect == Spec => []TypeOK
  <1>1. IInv => TypeOK
    BY DEF IInv
  <1>2. QED BY Invariance, <1>1, PTL

\* If builds import into one item, it is there when all have ended, unless one that was
\* to overwrite it failed between deleting and creating.
THEOREM ItemIsThere == Spec => []ImportedIsThere
  <1>1. IInv => ImportedIsThere
    <2> SUFFICES ASSUME IInv, \A b \in Builds : Ended(b), content = None
                 PROVE  \/ \E b \in {b \in Builds : ~config[b].skipImport} :
                             config[b].overwrite /\ failure[b] \in {"delete", "create"}
                        \/ /\ lib.item = None
                           /\ \A b \in {b \in Builds : ~config[b].skipImport} : at[b] = "failed"
      BY DEF ImportedIsThere
    <2>1. ContentInv
      BY DEF IInv
    <2>2. QED BY <2>1 DEF ContentInv, Stranded, Ended
  <1>2. QED BY Invariance, <1>1, PTL

\* No build deletes or refills an item that it was not asked to.
THEOREM OnlyReplacedOnRequest == Spec => ReplacedOnRequest
  <1> DEFINE Replaces == content # None /\ library' # library =>
               \E b \in Builds : at'[b] # at[b] /\ (config[b].overwrite \/ config[b].ovf)
  <1>1. IInv /\ [Next]_vars => [Replaces]_vars
    <2> SUFFICES ASSUME IInv, Next, content # None, library' # library
                 PROVE  \E b \in Builds : at'[b] # at[b] /\ (config[b].overwrite \/ config[b].ovf)
      OBVIOUS
    <2>1. PICK b \in Builds : Step(b)
      BY DEF Next, Terminated, vars
    <2>2. TypeOK /\ BuildInv(b)
      BY DEF IInv
    <2>3. config[b].overwrite \/ config[b].ovf
      BY <2>1, <2>2, LibraryEffect
    <2>4. at'[b] # at[b]
      BY <2>1, <2>2 DEF Step, Connect, MountCdrom, ApplyTags, StartImport, FindItem, DeleteItem,
             CreateTemplate, FindOvfItem, CreateOvf, FindUUID, FindDatastoreNames, GoTo, Fails, TypeOK
    <2>5. QED BY <2>3, <2>4
  <1>2. QED BY Invariance, <1>1, PTL DEF Spec, ReplacedOnRequest
=============================================================================
