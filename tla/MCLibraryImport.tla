--------------------------- MODULE MCLibraryImport ---------------------------
(***************************************************************************)
(* Libraries and configurations for checking LibraryImport.                 *)
(***************************************************************************)
EXTENDS LibraryImport

\* All that concerns the import; the CD-ROM and the tags with one kind of it only.
ImportConfigs ==
  {c \in ConfigType : (c.iso = "none" /\ ~c.tags) \/ (c.ovf /\ c.named /\ ~c.skipImport)}

SessionConfigs ==
  {c \in ConfigType : c.ovf /\ ~c.skipImport /\ ~c.named}

AllLibraries == {l \in LibraryType : l.type = None => l.item = None}
LocalLibrary == {[type |-> "LOCAL", item |-> None, sameDescription |-> TRUE]}
=============================================================================
