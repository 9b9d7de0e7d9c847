---------------------------- MODULE DiskAttachment ----------------------------
(***************************************************************************)
(* Where the storage blocks of a clone attach their disks: the check of the *)
(* configuration, which knows nothing of the template, and the allocation,  *)
(* which walks over the disks and makes controllers as it goes.             *)
(*                                                                          *)
(* A controller is a record of its kind, bus and type; a device is the      *)
(* place of a disk, a record of kind, bus and unit.  Sizes, policies and    *)
(* the wording of errors are left out.                                      *)
(***************************************************************************)
EXTENDS Integers, Sequences, FiniteSets, SequencesExt, Loops

CONSTANTS
  MaxUnit,        \* per family of controllers: the last unit
  MaxBus,         \* the last bus of a kind; a machine has one controller on each
  Reserved,       \* the unit of the SCSI controller itself
  MaxDisks        \* per family: the disks a machine may have on its controllers

SCSITypes == {"lsilogic", "lsilogic-sas", "pvscsi", "scsi"}
SupportedDiskControllerTypes == SCSITypes \cup {"nvme", "sata"}
Kinds == {"scsi", "nvme", "sata"}
Families == {"lsi", "pvscsi", "nvme", "sata"}

ASSUME DiskAttachmentAssumption ==
  /\ MaxUnit \in [Families -> Nat] /\ MaxDisks \in [Families -> Nat]
  /\ MaxBus \in Nat /\ Reserved \in Nat
  /\ MaxDisks["lsi"] <= MaxDisks["pvscsi"]

KindOf(type) == IF type \in {"nvme", "sata"} THEN type ELSE "scsi"

\* maxUnitForControllerTypeString, and maxUnitForKind of the controller it makes.
LastUnit(type) ==
  MaxUnit[IF type \in {"nvme", "sata", "pvscsi"} THEN type ELSE "lsi"]

Controller(kind, bus, type) == [kind |-> kind, bus |-> bus, type |-> type]
Place(kind, bus, unit) == [kind |-> kind, bus |-> bus, unit |-> unit]

\* A disk is explicit if it has a disk_controller_unit: a record of a kind, bus and
\* unit, and of how it is spelled: plain, padded (the same address in other
\* characters) or wrong (no address).
Addresses == [kind : Kinds, bus : 0 .. MaxBus, unit : Nat, spelled : {"plain", "padded", "wrong"}]
PlaceOf(address) == Place(address.kind, address.bus, address.unit)
BusOf(address) == <<address.kind, address.bus>>

IsDisk(d) ==
  d.explicit \in BOOLEAN /\ d.index \in Nat /\ (d.explicit => d.address \in Addresses)

\* A configuration c; before it is prepared, the types are anything.
IsConfiguration(c) ==
  /\ IsList(c.types)
  /\ IsList(c.storage) /\ \A i \in DOMAIN c.storage : IsDisk(c.storage[i])

\* What a template has: one controller on each bus, and devices on its controllers.
IsTemplate(t) ==
  /\ t.controllers \subseteq [kind : Kinds, bus : 0 .. MaxBus, type : SupportedDiskControllerTypes]
  /\ t.devices \subseteq [kind : Kinds, bus : 0 .. MaxBus, unit : Nat] /\ IsFiniteSet(t.devices)
  /\ \A k, l \in t.controllers : k.kind = l.kind /\ k.bus = l.bus => k = l
  /\ \A d \in t.devices : \E k \in t.controllers : d.kind = k.kind /\ d.bus = k.bus

Explicit(c) == {i \in DOMAIN c.storage : c.storage[i].explicit}
Legacy(c) == DOMAIN c.storage \ Explicit(c)
Parsed(c) == {i \in Explicit(c) : c.storage[i].address.spelled # "wrong"}

-----------------------------------------------------------------------------
(* The configuration: prepareStorage *)

\* The entries of disk_controller_type that the disks without an address take.
LegacyTypes(c) == IF Legacy(c) = {} THEN 0 ELSE Len(c.types)

BusAt(c, i) == BusOf(c.storage[i].address)

\* The disks that are the first to mention their bus.
Mentions(c) == {i \in Parsed(c) : \A j \in Parsed(c) : BusAt(c, j) = BusAt(c, i) => i <= j}

\* nextTypeIndex and busTypeIndex: every bus takes one entry, in the order in
\* which the buses are first mentioned.
TypeIndex(c, i) ==
  LET mention(j) == \A k \in Parsed(c) : BusAt(c, k) = BusAt(c, i) => j <= k
  IN LegacyTypes(c) + Cardinality({j \in Mentions(c) : mention(j)})

\* staticMaxUnitForAddress.
StaticLastUnit(c, i) ==
  LET kind == c.storage[i].address.kind
  IN IF TypeIndex(c, i) <= Len(c.types) THEN LastUnit(c.types[TypeIndex(c, i)])
     ELSE IF kind = "scsi" /\ Contains(c.types, "pvscsi") THEN LastUnit("pvscsi")
     ELSE LastUnit(kind)

ValidateControllerUnitStatic(c, i) ==
  LET address == c.storage[i].address
  IN /\ i \in Parsed(c)
     /\ ~(address.kind = "scsi" /\ address.unit = Reserved)
     /\ TypeIndex(c, i) <= Len(c.types) => KindOf(c.types[TypeIndex(c, i)]) = address.kind
     /\ address.unit <= StaticLastUnit(c, i)

\* StorageConfig.Prepare and prepareStorage; addresses are compared as written.
Prepared(c) ==
  /\ \A i \in Legacy(c) : c.storage[i].index < Len(c.types)
  /\ c.storage # << >> =>
       /\ \A i \in DOMAIN c.types : c.types[i] \in SupportedDiskControllerTypes
       /\ \A i \in Explicit(c) :
            c.storage[i].index = 0 /\ ValidateControllerUnitStatic(c, i)
       /\ \A i, j \in Explicit(c) :
            c.storage[i].address = c.storage[j].address => i = j
       /\ Legacy(c) # {} => c.types # << >>

-----------------------------------------------------------------------------
(* The allocation: addStorageDevices *)

\* controllers, devices: what the machine has; made: the controllers of the disks
\* without an address; next: the next entry of disk_controller_type; order, place:
\* the disks in the order in which they are attached, and where.
Start(template) ==
  [ok |-> TRUE, controllers |-> template.controllers, devices |-> template.devices,
   made |-> << >>, next |-> 1, order |-> << >>, place |-> << >>]

Refuse(s) == [s EXCEPT !.ok = FALSE]

OnBus(s, kind, bus) == {k \in s.controllers : k.kind = kind /\ k.bus = bus}
OnController(s, k) == {d \in s.devices : d.kind = k.kind /\ d.bus = k.bus}

\* The first bus of the kind that is free; none if there are as many controllers
\* as there may be.
FreeBuses(s, kind) == {b \in 0 .. MaxBus : OnBus(s, kind, b) = {}}

FreeUnits(s, k) ==
  {u \in 0 .. LastUnit(k.type) :
     /\ k.kind = "scsi" => u # Reserved
     /\ Place(k.kind, k.bus, u) \notin s.devices}

\* validateControllerDiskCapacity: a SCSI controller takes a unit itself.
HasRoom(s, k) ==
  LET units == {u \in 0 .. LastUnit(k.type) : k.kind = "scsi" => u # Reserved}
  IN Cardinality(OnController(s, k)) < Cardinality(units)

NewController(s, type) == Controller(KindOf(type), Min(FreeBuses(s, KindOf(type))), type)

Attach(s, i, p) ==
  [s EXCEPT !.devices = @ \cup {p}, !.order = Append(@, i), !.place = Append(@, p)]

AddLegacyController(s, type) ==
  IF ~s.ok \/ FreeBuses(s, KindOf(type)) = {} THEN Refuse(s)
  ELSE [s EXCEPT !.controllers = @ \cup {NewController(s, type)},
                 !.made = Append(@, NewController(s, type))]

AddLegacyDisk(c, s, i) ==
  LET n == c.storage[i].index + 1
      k == s.made[n]
  IN IF ~s.ok \/ n > Len(s.made) \/ ~HasRoom(s, k) \/ FreeUnits(s, k) = {} THEN Refuse(s)
     ELSE Attach(s, i, Place(k.kind, k.bus, Min(FreeUnits(s, k))))

\* A controller that exists: ValidateControllerUnitRuntime.
AddToController(s, i, address, k) ==
  IF address.unit \in FreeUnits(s, k) /\ HasRoom(s, k) THEN Attach(s, i, PlaceOf(address))
  ELSE Refuse(s)

\* A controller that does not: made of the next type, it must come out on the bus
\* of the address.  The unit is not checked.
AddWithController(c, s, i, address) ==
  IF s.next > Len(c.types) \/ FreeBuses(s, KindOf(c.types[s.next])) = {} THEN Refuse(s)
  ELSE LET k == NewController(s, c.types[s.next])
       IN IF <<k.kind, k.bus>> # BusOf(address) THEN Refuse(s)
          ELSE Attach([s EXCEPT !.controllers = @ \cup {k}, !.next = @ + 1], i, PlaceOf(address))

AddExplicitDisk(c, s, i) ==
  LET address == c.storage[i].address
      there == OnBus(s, address.kind, address.bus)
  IN IF ~s.ok THEN s
     ELSE IF there = {} THEN AddWithController(c, s, i, address)
     ELSE AddToController(s, i, address, CHOOSE k \in there : TRUE)

LegacyControllers(c, s) ==
  LET after[n \in 0 .. Len(c.types)] ==
        IF n = 0 THEN s ELSE AddLegacyController(after[n - 1], c.types[n])
  IN after[Len(c.types)]

LegacyDisks(c, s) ==
  LET after[n \in 0 .. Len(c.storage)] ==
        IF n = 0 THEN s
        ELSE IF n \in Legacy(c) THEN AddLegacyDisk(c, after[n - 1], n) ELSE after[n - 1]
  IN after[Len(c.storage)]

ExplicitDisks(c, s) ==
  LET after[n \in 0 .. Len(c.storage)] ==
        IF n = 0 THEN s
        ELSE IF n \in Explicit(c) THEN AddExplicitDisk(c, after[n - 1], n) ELSE after[n - 1]
  IN after[Len(c.storage)]

AddLegacyDisks(c, s) ==
  IF Legacy(c) = {} THEN s ELSE LegacyDisks(c, LegacyControllers(c, s))

\* validateAggregateStorageCapacity: one PVSCSI controller allows more SCSI disks.
MostDisks(s, kind) ==
  MaxDisks[IF kind # "scsi" THEN kind
           ELSE IF \E k \in s.controllers : k.type = "pvscsi" THEN "pvscsi" ELSE "lsi"]

TooManyDisks(s) ==
  \E kind \in Kinds : Cardinality({d \in s.devices : d.kind = kind}) > MostDisks(s, kind)

\* Mutant: the disks with an address start with the first type again.
MutantAddStorageDevices(c, template) == ExplicitDisks(c, AddLegacyDisks(c, Start(template)))

\* Disks without an address first; their controllers take all the types.
AddStorageDevices(c, template) ==
  LET legacy == [AddLegacyDisks(c, Start(template)) EXCEPT !.next = LegacyTypes(c) + 1]
      all == ExplicitDisks(c, legacy)
  IN IF c.storage # << >> /\ TooManyDisks(all) THEN Refuse(all) ELSE all

-----------------------------------------------------------------------------
(* Properties *)

\* What can be said of a prepared configuration without walking over its disks:
\* each new bus has a type of its kind left, and is the lowest bus of its kind that
\* is neither there nor new before it.
TypesFit(c, present) ==
  LET new == {i \in Mentions(c) : BusAt(c, i) \notin present}
      entry(i) == LegacyTypes(c) + Cardinality({j \in new : j <= i})
      there(i, bus) == bus \in present \/ \E j \in new : j < i /\ BusAt(c, j) = bus
  IN \A i \in new :
       /\ entry(i) <= Len(c.types)
       /\ KindOf(c.types[entry(i)]) = BusAt(c, i)[1]
       /\ \A b \in 0 .. BusAt(c, i)[2] - 1 : there(i, <<BusAt(c, i)[1], b>>)

\* What the allocation accepts, it has attached as asked: every disk once, each at
\* a place of its own, on a controller that is there, the explicit ones at their
\* addresses and the others on the controllers of their indices; an entry of
\* disk_controller_type makes at most one controller; and the unit is
\* one the controller has, unless a bus that the template already has made the
\* check of the configuration take another type for it (disk.go:129 checks no unit
\* of a controller it makes: UnitsAreThere).  What it refuses, it refuses for the template, for a
\* bus out of turn or for an address that is written in two ways: on a machine
\* without controllers, where the types fit, a prepared configuration with room for
\* its disks is accepted, as clone/storage_prepare.go:45 says of the order it mirrors.
AttachesAsAsked(c, template) ==
  LET r == AddStorageDevices(c, template)
      buses == {<<k.kind, k.bus>> : k \in template.controllers}
      old == \E i \in Explicit(c) : BusAt(c, i) \in buses
      On(n) == CHOOSE k \in r.controllers : k.kind = r.place[n].kind /\ k.bus = r.place[n].bus
      explicitPlaces == {PlaceOf(c.storage[i].address) : i \in Explicit(c)}
  IN Prepared(c) =>
       /\ r.ok =>
            /\ ToSet(r.order) = DOMAIN c.storage /\ Len(r.order) = Len(c.storage)
            /\ IsInjective(r.place) /\ ToSet(r.place) \cap template.devices = {}
            /\ \A k, l \in r.controllers : k.kind = l.kind /\ k.bus = l.bus => k = l
            /\ \A n \in DOMAIN r.order :
                 LET disk == c.storage[r.order[n]]
                 IN /\ On(n) \in r.controllers
                    /\ r.place[n].unit <= LastUnit(On(n).type) \/ old
                    /\ ~(r.place[n].kind = "scsi" /\ r.place[n].unit = Reserved)
                    /\ IF disk.explicit THEN r.place[n] = PlaceOf(disk.address)
                       ELSE On(n) = r.made[disk.index + 1]
            /\ Cardinality(r.controllers) - Cardinality(template.controllers) <= Len(c.types)
            /\ Legacy(c) = {} => TypesFit(c, buses)
       /\ /\ Legacy(c) = {} /\ template.controllers = {} /\ TypesFit(c, {})
          /\ Cardinality(explicitPlaces) = Len(c.storage)
          /\ \A kind \in Kinds : Cardinality({p \in explicitPlaces : p.kind = kind})
                                 <= MaxDisks[IF kind = "scsi" THEN "lsi" ELSE kind]
          => r.ok

\* Every disk is at a unit that its controller has.
UnitsAreThere(c, template) ==
  LET r == AddStorageDevices(c, template)
  IN Prepared(c) /\ r.ok =>
       \A n \in DOMAIN r.place : \E k \in r.controllers :
         /\ k.kind = r.place[n].kind /\ k.bus = r.place[n].bus
         /\ r.place[n].unit <= LastUnit(k.type)
=============================================================================
