---------------------------- MODULE LibraryImport ----------------------------
(***************************************************************************)
(* Builds that import their machines into one content library, as one item. *)
(* Each has a REST client whose session its steps share: some log in, some  *)
(* log out and some use the session they find.                              *)
(*                                                                          *)
(* Any request may fail.  A request with an expired session fails.  Of the  *)
(* steps of a build only those are here that use the session.               *)
(***************************************************************************)
EXTENDS Naturals, FiniteSets

CONSTANTS
  Builds,
  Configs,     \* configurations: see ConfigType
  Libraries    \* states of the library at the start: see LibraryType

Old == "old"   \* the item that exists before the builds
None == "none"

Owners == Builds \cup {Old, None}

\* iso: where the ISO of the CD-ROM is; named: the item has a name of its own.
ConfigType ==
  [iso : {"none", "datastore", "library"}, tags : BOOLEAN, skipImport : BOOLEAN,
   ovf : BOOLEAN, overwrite : BOOLEAN, named : BOOLEAN]

LibraryType ==
  [type : {"LOCAL", "SUBSCRIBED", None}, item : {Old, None}, sameDescription : BOOLEAN]

ASSUME LibraryAssumption ==
  /\ \A c \in Configs : c \in ConfigType
  /\ \A l \in Libraries : l \in LibraryType /\ (l.type = None => l.item = None)
  /\ {Old, None} \cap Builds = {}

VARIABLES
  config, lib, \* chosen at the start
  at,       \* per build: the step or request it is at
  session,  \* per build: the session of its REST client is open
  found,    \* per build: the item it has found to exist
  uuid,     \* per build: the item whose UUID it has published
  failure,  \* per build: why it failed
  item,     \* which item has the name: who made it
  content   \* whose machine that item holds

given == <<config, lib>>
library == <<item, content>>
vars == <<given, at, session, found, uuid, failure, library>>

\* ContentLibraryDestinationConfig.Prepare: only a named item that is not an OVF
\* template can be overwritten.
Prepared(c) == c.overwrite => ~c.ovf /\ c.named

\* A template without a name gets one with a timestamp: no other item has it, and
\* such builds do not meet here.
Shares(c) == c.ovf \/ c.named

Init ==
  /\ config \in [Builds -> {c \in Configs : Prepared(c) /\ Shares(c)}]
  /\ lib \in Libraries
  /\ at = [b \in Builds |-> "connect"]
  /\ session = [b \in Builds |-> FALSE]
  /\ found = [b \in Builds |-> None]
  /\ uuid = [b \in Builds |-> None]
  /\ failure = [b \in Builds |-> None]
  /\ item = lib.item /\ content = lib.item

-----------------------------------------------------------------------------
(* The session, and how an operation ends *)

GoTo(b, place) ==
  /\ at' = [at EXCEPT ![b] = place]
  /\ UNCHANGED <<given, failure>>

Fails(b, why) ==
  /\ at' = [at EXCEPT ![b] = "failed"]
  /\ failure' = [failure EXCEPT ![b] = why]
  /\ UNCHANGED given

SessionIs(b, open) == session' = [session EXCEPT ![b] = open]

\* RestClient.Login makes a new session, or fails and leaves the one there is.
Login(b) == SessionIs(b, TRUE)

\* An error of RestClient.Logout that nobody looks at.
Logout(b) == \E open \in BOOLEAN : SessionIs(b, open)

Connect(b) ==
  /\ at[b] = "connect"
  /\ \/ Login(b) /\ GoTo(b, "mount")
     \/ UNCHANGED session /\ Fails(b, "connect")
  /\ UNCHANGED <<found, uuid, library>>

\* FindContentLibraryFileDatastorePath, called by MountCdrom for every ISO: it
\* logs in, and out again only if the ISO is in a library.  Its errors mean that
\* the ISO is on a datastore.
MountCdrom(b) ==
  /\ at[b] = "mount"
  /\ \/ config[b].iso = "none" /\ UNCHANGED session
     \/ config[b].iso # "none" /\ (Login(b) \/ UNCHANGED session)
     \/ config[b].iso = "library" /\ Logout(b)
  /\ GoTo(b, "tags")
  /\ UNCHANGED <<found, uuid, library>>

\* StepApplyTags uses the session it finds.
ApplyTags(b) ==
  /\ at[b] = "tags"
  /\ \/ (config[b].tags => session[b]) /\ GoTo(b, "import")
     \/ config[b].tags /\ session[b] /\ Fails(b, "tags")
     \/ config[b].tags /\ ~session[b] /\ Fails(b, "no session")
  /\ UNCHANGED <<session, found, uuid, library>>

-----------------------------------------------------------------------------
(* StepImportToContentLibrary *)

StartImport(b) ==
  /\ at[b] = "import"
  /\ \/ config[b].skipImport /\ GoTo(b, "imported")
     \/ ~config[b].skipImport /\ GoTo(b, IF config[b].ovf THEN "find ovf" ELSE "find")
     \/ ~config[b].skipImport /\ Fails(b, "boot order")
  /\ UNCHANGED <<session, found, uuid, library>>

\* Mutant: an item is deleted without being asked.
MutantFindItem(b) ==
  /\ at[b] = "find"
  /\ \/ /\ item # None
        /\ found' = [found EXCEPT ![b] = item]
        /\ GoTo(b, "delete")
     \/ found' = found /\ GoTo(b, "create")
  /\ Logout(b)
  /\ UNCHANGED <<uuid, library>>

\* VirtualMachineDriver.FindContentLibraryItem: every error, that of the login or
\* of the library too, is taken to mean that there is no item.
FindItem(b) ==
  /\ at[b] = "find"
  /\ \/ /\ item # None /\ config[b].overwrite
        /\ found' = [found EXCEPT ![b] = item]
        /\ GoTo(b, "delete")
     \/ item # None /\ ~config[b].overwrite /\ found' = found /\ Fails(b, "exists")
     \/ found' = found /\ GoTo(b, "create")
  /\ Logout(b)
  /\ UNCHANGED <<uuid, library>>

\* Mutant: an item that cannot be deleted is not an error.
MutantDeleteItem(b) ==
  /\ at[b] = "delete"
  /\ \/ UNCHANGED library /\ Fails(b, "delete")
     \/ item' = None /\ content' = None /\ GoTo(b, "imported")
  /\ Logout(b)
  /\ UNCHANGED <<found, uuid>>

\* By the ID: the item that was found may be gone.  The item may be deleted and
\* the logout that follows fail.
DeleteItem(b) ==
  /\ at[b] = "delete"
  /\ \/ UNCHANGED library /\ Fails(b, "delete")
     \/ /\ item = found[b] /\ item' = None /\ content' = None
        /\ GoTo(b, "create") \/ Fails(b, "delete")
  /\ Logout(b)
  /\ UNCHANGED <<found, uuid>>

\* ImportToContentLibrary: every look-up of the placement may fail, with or
\* without a logout; the library refuses a second item of the name; and an error
\* of the last logout counts.
CreateTemplate(b) ==
  /\ at[b] = "create"
  /\ \/ UNCHANGED library /\ Fails(b, "create") /\ Logout(b)
     \/ /\ lib.type = "LOCAL" /\ item = None /\ item' = b /\ content' = b
        /\ \/ SessionIs(b, FALSE) /\ GoTo(b, "uuid")
           \/ SessionIs(b, TRUE) /\ Fails(b, "logout")
  /\ UNCHANGED <<found, uuid>>

\* ImportOvfToContentLibrary up to the import: the description of an item that
\* exists is changed first.
FindOvfItem(b) ==
  /\ at[b] = "find ovf"
  /\ \/ UNCHANGED session /\ UNCHANGED found /\ Fails(b, "create")
     \/ lib.type # "LOCAL" /\ Login(b) /\ UNCHANGED found /\ Fails(b, "library")
     \/ /\ lib.type = "LOCAL" /\ Login(b)
        /\ found' \in {[found EXCEPT ![b] = item], [found EXCEPT ![b] = None]}
        /\ \/ GoTo(b, "create ovf")
           \/ found'[b] # None /\ ~lib.sameDescription /\ Fails(b, "description")
  /\ UNCHANGED <<uuid, library>>

\* CreateOVF into the item that was found, which stays the same item, or into a
\* new one.
CreateOvf(b) ==
  /\ at[b] = "create ovf"
  /\ \/ UNCHANGED <<library, session>> /\ Fails(b, "create")
     \/ /\ item = found[b] /\ content' = b
        /\ item' = IF item = None THEN b ELSE item
        /\ \/ SessionIs(b, FALSE) /\ GoTo(b, "uuid")
           \/ UNCHANGED session /\ Fails(b, "logout")
  /\ UNCHANGED <<found, uuid>>

\* Mutant: the error is ignored.
MutantFindUUID(b) ==
  /\ at[b] = "uuid"
  /\ uuid' = [uuid EXCEPT ![b] = item]
  /\ Login(b) /\ GoTo(b, "datastores")
  /\ UNCHANGED <<found, library>>

\* FindContentLibraryItemUUID does not log out when it finds the item, whichever
\* build's it is.
FindUUID(b) ==
  /\ at[b] = "uuid"
  /\ \/ /\ item # None
        /\ uuid' = [uuid EXCEPT ![b] = item]
        /\ Login(b) /\ GoTo(b, "datastores")
     \/ UNCHANGED uuid /\ Logout(b) /\ Fails(b, "uuid")
  /\ UNCHANGED <<found, library>>

\* A datastore whose name cannot be read is left out.
FindDatastoreNames(b) ==
  /\ at[b] = "datastores"
  /\ \/ SessionIs(b, FALSE) /\ GoTo(b, "imported")
     \/ Logout(b) /\ Fails(b, "datastores")
  /\ UNCHANGED <<found, uuid, library>>

-----------------------------------------------------------------------------

Ended(b) == at[b] \in {"imported", "failed"}

Step(b) ==
  \/ Connect(b) \/ MountCdrom(b) \/ ApplyTags(b) \/ StartImport(b) \/ FindItem(b)
  \/ DeleteItem(b) \/ CreateTemplate(b) \/ FindOvfItem(b) \/ CreateOvf(b)
  \/ FindUUID(b) \/ FindDatastoreNames(b)

Terminated == (\A b \in Builds : Ended(b)) /\ UNCHANGED vars

Next == (\E b \in Builds : Step(b)) \/ Terminated

Spec == Init /\ [][Next]_vars

-----------------------------------------------------------------------------
(* Properties *)

\* Type invariant; and a build that has imported has published the UUID of an
\* item.
TypeOK ==
  /\ config \in [Builds -> Configs] /\ lib \in Libraries
  /\ at \in [Builds -> {"connect", "mount", "tags", "import", "find", "delete", "create",
       "find ovf", "create ovf", "uuid", "datastores", "imported", "failed"}]
  /\ session \in [Builds -> BOOLEAN] /\ found \in [Builds -> Owners]
  /\ uuid \in [Builds -> Owners] /\ item \in Owners /\ content \in Owners
  /\ failure \in [Builds -> {None, "connect", "tags", "no session", "boot order", "exists",
       "delete", "create", "logout", "library", "description", "uuid", "datastores"}]
  /\ (item = None) = (content = None)
  /\ \A b \in Builds : at[b] = "imported" /\ ~config[b].skipImport => uuid[b] # None

\* An item is deleted or refilled only by a build that is to overwrite it or that
\* imports OVF templates (overwrite's documentation, and importVmTemplate's
\* check): no other build touches an item, the one of another build that came in
\* between either.
ReplacedOnRequest ==
  [][ content # None /\ library' # library =>
        \E b \in Builds : at'[b] # at[b] /\ (config[b].overwrite \/ config[b].ovf) ]_vars

\* When every build has ended: if one imported, an item is there, unless a build
\* that was to overwrite it failed between deleting and creating; and the old item
\* is missing only then.  (importVmTemplate deletes before it creates.)
ImportedIsThere ==
  LET importers == {b \in Builds : ~config[b].skipImport}
      stranded == \E b \in importers : config[b].overwrite /\ failure[b] \in {"delete", "create"}
  IN (\A b \in Builds : Ended(b)) /\ content = None =>
       stranded \/ (lib.item = None /\ \A b \in importers : at[b] = "failed")

\* docs/builders/vsphere-iso.mdx:393: "all tags will be merged and applied to the
\* virtual machine".  Then the ISO's place does not decide whether they can be.
TagsFindSession == \A b \in Builds : failure[b] # "no session"
=============================================================================
