------------------------------ MODULE Algorithms ------------------------------
(***************************************************************************)
(* The algorithms of the plugin that run without an interleaving: first     *)
(* what the server has is chosen, then what the configuration asks for.     *)
(***************************************************************************)
EXTENDS DiskAttachment, StoragePlacement, DataSources

CONSTANTS
  Templates, DiskConfigurations,          \* what DiskAttachment works on
  StorageServers, StorageRequests,        \* what StoragePlacement works on
  Inventories, Queries                    \* what DataSources work on

ASSUME AlgorithmsAssumption ==
  /\ \A t \in Templates : IsTemplate(t)
  /\ \A c \in DiskConfigurations : IsConfiguration(c)
  /\ \A s \in StorageServers : IsOffered(s)
  /\ \A r \in StorageRequests : IsRequested(r)
  /\ \A inv \in Inventories : IsInventory(inv)
  /\ \A q \in Queries : IsQuery(q)

VARIABLES
  algorithm,      \* which one it is
  server,         \* what the server has
  input           \* what is asked for; Unset at first

vars == <<algorithm, server, input>>

\* What a configuration asks for, with what the server offers.
Request(offered, requested) ==
  [cluster |-> offered.cluster, actions |-> offered.actions, compatible |-> offered.compatible,
   datastore |-> requested.datastore, useCluster |-> requested.useCluster,
   disks |-> requested.disks]

Init ==
  /\ \/ algorithm = "disks" /\ server \in Templates
     \/ algorithm = "storage" /\ server \in StorageServers
     \/ algorithm = "data_source" /\ server \in Inventories
  /\ input = Unset

Ask(inputs) == input = Unset /\ input' \in inputs /\ UNCHANGED <<algorithm, server>>

AttachDisks == algorithm = "disks" /\ Ask(DiskConfigurations)

PlaceDisks == algorithm = "storage" /\ Ask(StorageRequests)

QueryInventory == algorithm = "data_source" /\ Ask({q \in Queries : q.kind = server.kind})

Next == AttachDisks \/ PlaceDisks \/ QueryInventory

Spec == Init /\ [][Next]_vars

-----------------------------------------------------------------------------
(* Properties *)

\* What the allocation of disks accepts is as asked, and what it refuses it refuses
\* for a reason (AttachesAsAsked of DiskAttachment).
DisksAttachAsAsked ==
  algorithm = "disks" /\ input # Unset => AttachesAsAsked(input, server)

\* The disks of a machine are put where the configuration, Storage DRS or their
\* policies say (PlacedAsRecommended of StoragePlacement).
DisksPlacedAsRecommended ==
  algorithm = "storage" /\ input # Unset => PlacedAsRecommended(Request(server, input))

\* A data source answers with the object it is asked for (FindsTheOne of DataSources).
QueriesFindTheOne ==
  algorithm = "data_source" /\ input # Unset => FindsTheOne(input, server)

\* docs/builders/vsphere-clone.mdx:298: "PVSCSI controllers support units 0-6 and 8-64.
\* [...] LSI Logic, LSI Logic SAS, and BusLogic controllers support units 0-6 and 8-15."
DisksAtExistingUnits ==
  algorithm = "disks" /\ input # Unset => UnitsAreThere(input, server)

\* driver/disk.go:43: "DiskDatastores is optional per-disk placement (index-aligned
\* with Storage)": each disk is on the datastore recommended for it.
DisksKeepTheirDatastores ==
  algorithm = "storage" /\ input # Unset => IndexAligned(Request(server, input))

\* datasource/virtualmachine/data.go:50: "Filter to search virtual machines only on the
\* specified ESX host."
MachinesAreOnTheHost ==
  algorithm = "data_source" /\ input # Unset => OnTheHost(input, server)
=============================================================================
