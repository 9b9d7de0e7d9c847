----------------------------- MODULE DataSources -----------------------------
(***************************************************************************)
(* The data sources, which look one object of the inventory up: the objects *)
(* of a name are listed, passed through the filters of the query q one by   *)
(* one, and one of what is left is taken.                                   *)
(*                                                                          *)
(* The inventory inv holds the objects in the order in which the server     *)
(* lists them and, for the places a query may name (a host, a cluster),     *)
(* which objects they have: inv.at[place].  An object that is not readable  *)
(* answers no request for its properties or tags.  Names and patterns are   *)
(* sets: of the glob, of the regular expression, those that match.          *)
(***************************************************************************)
EXTENDS Naturals, Sequences, FiniteSets, SequencesExt, Loops

CONSTANTS
  Names,          \* the names there are; what a pattern that is not given matches
  NetworkTypes,   \* the types of networks that are supported
  Unset           \* an option that is not given, a property an object has not

ASSUME DataSourcesAssumption == Unset \notin Nat

DataSourceKinds ==
  {"compute_cluster", "content_library", "content_library_item", "datastore",
   "datastore_cluster", "host", "network", "resource_pool", "virtual_machine"}

Error == [ok |-> FALSE]
Answer(o) == [ok |-> TRUE, object |-> o]

\* What an object of a kind has.
IsObject(kind, o) ==
  /\ o.name \in Names /\ o.readable \in BOOLEAN
  /\ kind = "datastore" => o.value \in Nat
  /\ kind \in {"host", "virtual_machine"} => o.value \in Nat \cup {Unset}
  /\ kind = "virtual_machine" => o.template \in BOOLEAN
  /\ kind = "content_library_item" => {o.modified, o.created} \subseteq Nat \cup {Unset}
  /\ kind = "datastore_cluster" =>
       IsList(o.members) /\ \A d \in ToSet(o.members) : d.free \in Nat
  /\ kind = "resource_pool" => IsList(o.path)

IsInventory(inv) ==
  /\ IsList(inv.objects) /\ IsInjective(inv.objects)
  /\ \A o \in ToSet(inv.objects) : IsObject(inv.kind, o)
  /\ inv.kind = "resource_pool" => \A place \in DOMAIN inv.at : IsList(inv.at[place])

\* The options that a data source has, and those that it has not.
IsQuery(q) ==
  /\ q.kind \in DataSourceKinds
  /\ q.glob \subseteq Names /\ q.regex \subseteq Names /\ IsList(q.tags)
  /\ q.alt \in BOOLEAN /\ q.template \in BOOLEAN
  /\ q.host # Unset => q.kind \in DataSourceKinds \ {"compute_cluster", "content_library",
                                                    "content_library_item", "host"}
  /\ q.cluster # Unset => q.kind \in DataSourceKinds \ {"compute_cluster", "content_library",
                                                       "content_library_item", "virtual_machine"}
  /\ q.type # Unset => q.kind \in {"content_library_item", "network"}
  /\ q.alt => q.kind \in {"content_library_item", "datastore", "datastore_cluster", "host",
                         "virtual_machine"}

-----------------------------------------------------------------------------
(* The configuration: Configure *)

\* A tag is a pair of a name and a category, both of them required.
ValidateTags(q) == \A t \in ToSet(q.tags) : t[1] # Unset /\ t[2] # Unset

Configured(q) ==
  /\ ValidateTags(q)
  /\ q.kind = "network" => q.type \in NetworkTypes \cup {Unset}
  /\ q.kind = "content_library_item" => q.type \in {"iso", "ovf", "vm-template", Unset}

-----------------------------------------------------------------------------
(* Filters: each says yes, no or error of an object *)

Verdict(holds) == IF holds THEN "yes" ELSE "no"
Reading(o, holds) == IF o.readable THEN Verdict(holds) ELSE "error"

NameRegex(q, o) == Verdict(o.name \in q.regex)

\* Mutant: a tag of the name in any category is the tag.
MutantHasAll(q, o) ==
  IF q.tags = << >> THEN "yes"
  ELSE Reading(o, \A t \in ToSet(q.tags) : \E real \in o.tags : real[1] = t[1])

\* TagMatcher.HasAll.
HasAll(q, o) ==
  IF q.tags = << >> THEN "yes" ELSE Reading(o, \A t \in ToSet(q.tags) : t \in o.tags)

\* A place that is asked for must be there, before an object is looked at.
PlacesFound(q, inv) == {q.host, q.cluster} \ {Unset} \subseteq DOMAIN inv.at

At(place, inv, o) == Verdict(place # Unset => o.id \in inv.at[place])

\* allMembersAllowed: a datastore cluster without datastores is nowhere.
AllMembersAt(place, inv, o) ==
  IF place = Unset THEN "yes"
  ELSE Reading(o, o.members # << >> /\ \A d \in ToSet(o.members) : d.id \in inv.at[place])

\* underPath: the place has a root resource pool, the path to it.
UnderPath(place, inv, o) ==
  IF place = Unset THEN "yes" ELSE Reading(o, IsPrefix(inv.at[place], o.path))

\* getHostVms: the machines of the host are known by their names.
OnHost(q, inv, o) ==
  Verdict(q.host # Unset => \E other \in ToSet(inv.objects) :
                             other.id \in inv.at[q.host] /\ other.name = o.name)

-----------------------------------------------------------------------------
(* The filters of each data source, in their order *)

ComputeClusterFilters(q, inv, o) ==
  <<IF q.regex = Names THEN "yes" ELSE Reading(o, o.name \in q.regex), HasAll(q, o)>>

ContentLibraryFilters(q, inv, o) == <<NameRegex(q, o), HasAll(q, o)>>

ContentLibraryItemFilters(q, inv, o) ==
  <<NameRegex(q, o), Verdict(q.type \in {Unset, o.type}), HasAll(q, o)>>

DatastoreFilters(q, inv, o) ==
  <<NameRegex(q, o), At(q.host, inv, o), At(q.cluster, inv, o), HasAll(q, o)>>

DatastoreClusterFilters(q, inv, o) ==
  <<NameRegex(q, o), AllMembersAt(q.host, inv, o), AllMembersAt(q.cluster, inv, o), HasAll(q, o)>>

HostFilters(q, inv, o) == <<NameRegex(q, o), At(q.cluster, inv, o), HasAll(q, o)>>

NetworkFilters(q, inv, o) ==
  <<NameRegex(q, o), Verdict(q.type \in {Unset, o.type}),
    At(q.cluster, inv, o), At(q.host, inv, o), HasAll(q, o)>>

ResourcePoolFilters(q, inv, o) ==
  <<NameRegex(q, o), UnderPath(q.cluster, inv, o), UnderPath(q.host, inv, o), HasAll(q, o)>>

VirtualMachineFilters(q, inv, o) ==
  <<NameRegex(q, o), IF q.template THEN Reading(o, o.template) ELSE "yes",
    OnHost(q, inv, o), HasAll(q, o)>>

-----------------------------------------------------------------------------
(* Selection *)

\* An object fails at its first filter that does not say yes.
FirstNo(verdicts) ==
  LET stops == {i \in DOMAIN verdicts : verdicts[i] # "yes"}
  IN IF stops = {} THEN "yes" ELSE verdicts[Min(stops)]

Filters(q, inv, o) ==
  CASE q.kind = "compute_cluster" -> ComputeClusterFilters(q, inv, o)
    [] q.kind = "content_library" -> ContentLibraryFilters(q, inv, o)
    [] q.kind = "content_library_item" -> ContentLibraryItemFilters(q, inv, o)
    [] q.kind = "datastore" -> DatastoreFilters(q, inv, o)
    [] q.kind = "datastore_cluster" -> DatastoreClusterFilters(q, inv, o)
    [] q.kind = "host" -> HostFilters(q, inv, o)
    [] q.kind = "network" -> NetworkFilters(q, inv, o)
    [] q.kind = "resource_pool" -> ResourcePoolFilters(q, inv, o)
    [] q.kind = "virtual_machine" -> VirtualMachineFilters(q, inv, o)

\* The objects of the name; networks of other types are not looked at.
Named(q, inv) ==
  {o \in ToSet(inv.objects) :
     o.name \in q.glob /\ (q.kind = "network" => o.type \in NetworkTypes)}

Passing(q, inv) == {o \in Named(q, inv) : FirstNo(Filters(q, inv, o)) = "yes"}
Failing(q, inv) == {o \in Named(q, inv) : FirstNo(Filters(q, inv, o)) = "error"}

\* What is left of the objects; an error in one of them is an error of all.
Filtered(q, inv) ==
  IF ~PlacesFound(q, inv) \/ Failing(q, inv) # {} THEN << >>
  ELSE Kept(inv.objects, Passing(q, inv))

\* The tags (and, of some, more) of what is taken are read.
Taken(o) == IF o.readable THEN Answer(o) ELSE Error

ExactlyOne(list) == IF Len(list) = 1 THEN Taken(list[1]) ELSE Error

\* The first of those with the highest score; all must have a score.
SelectMax(list, score) ==
  LET best[n \in 1 .. Len(list)] ==
        IF n = 1 \/ score[list[n]] > score[best[n - 1]] THEN list[n] ELSE best[n - 1]
  IN IF \E o \in ToSet(list) : score[o] = Unset THEN Error ELSE Taken(best[Len(list)])

ResolveOne(list, alt, score) ==
  IF Len(list) > 1 /\ alt THEN SelectMax(list, score) ELSE ExactlyOne(list)

\* The date of creation, the free memory or space; some objects have none.
ValueOf(o) == IF o.readable THEN o.value ELSE Unset

\* clusterMembersAndSummary: what is free on all members.
FreeSpace(o) ==
  LET free[n \in 0 .. Len(o.members)] ==
        IF n = 0 THEN 0 ELSE free[n - 1] + o.members[n].free
  IN IF o.readable THEN free[Len(o.members)] ELSE Unset

\* itemModTime: when the item was modified or else created, or 0.
ItemModTime(o) ==
  IF o.modified # Unset THEN o.modified ELSE IF o.created # Unset THEN o.created ELSE 0

-----------------------------------------------------------------------------
(* The data sources: Execute *)

ComputeCluster(q, inv) == ExactlyOne(Filtered(q, inv))

ContentLibrary(q, inv) == ExactlyOne(Filtered(q, inv))

\* findLibrary: the library of the item is named, and one has the name.
ContentLibraryItem(q, inv) ==
  LET items == Filtered(q, inv)
  IN IF inv.libraries # 1 THEN Error
     ELSE ResolveOne(items, q.alt, [o \in ToSet(items) |-> ItemModTime(o)])

Datastore(q, inv) ==
  LET datastores == Filtered(q, inv)
  IN ResolveOne(datastores, q.alt, [o \in ToSet(datastores) |-> ValueOf(o)])

DatastoreCluster(q, inv) ==
  LET clusters == Filtered(q, inv)
  IN ResolveOne(clusters, q.alt, [o \in ToSet(clusters) |-> FreeSpace(o)])

\* The memory of the host is part of the answer.
Host(q, inv) ==
  LET hosts == Filtered(q, inv)
      r == ResolveOne(hosts, q.alt, [o \in ToSet(hosts) |-> ValueOf(o)])
  IN IF r.ok THEN IF r.object.value = Unset THEN Error ELSE r ELSE r

Network(q, inv) == ExactlyOne(Filtered(q, inv))

ResourcePool(q, inv) == ExactlyOne(Filtered(q, inv))

VirtualMachine(q, inv) ==
  LET machines == Filtered(q, inv)
  IN ResolveOne(machines, q.alt, [o \in ToSet(machines) |-> ValueOf(o)])

Execute(q, inv) ==
  CASE q.kind = "compute_cluster" -> ComputeCluster(q, inv)
    [] q.kind = "content_library" -> ContentLibrary(q, inv)
    [] q.kind = "content_library_item" -> ContentLibraryItem(q, inv)
    [] q.kind = "datastore" -> Datastore(q, inv)
    [] q.kind = "datastore_cluster" -> DatastoreCluster(q, inv)
    [] q.kind = "host" -> Host(q, inv)
    [] q.kind = "network" -> Network(q, inv)
    [] q.kind = "resource_pool" -> ResourcePool(q, inv)
    [] q.kind = "virtual_machine" -> VirtualMachine(q, inv)

-----------------------------------------------------------------------------
(* Properties *)

\* An object is at a place, as the documentation of its data source says: of a machine,
\* "only on the specified ESX host" (datasource/virtualmachine/data.go:50).
IsAt(q, place, inv, o) ==
  CASE q.kind = "resource_pool" ->
         \E n \in 0 .. Len(o.path) : SubSeq(o.path, 1, n) = inv.at[place]
    [] q.kind = "datastore_cluster" ->
         o.members # << >> /\ \A d \in ToSet(o.members) : d.id \in inv.at[place]
    [] OTHER -> o.id \in inv.at[place]

\* The objects a query asks for.
Matching(q, inv) ==
  {o \in ToSet(inv.objects) :
     /\ o.name \in q.glob \cap q.regex
     /\ ToSet(q.tags) \subseteq o.tags
     /\ PlacesFound(q, inv)
     /\ \A place \in {q.host, q.cluster} \ {Unset} : IsAt(q, place, inv, o)
     /\ q.type # Unset => o.type = q.type
     /\ q.kind = "network" => o.type \in NetworkTypes
     /\ q.kind = "virtual_machine" /\ q.template => o.template}

ScoreOf(q, o) ==
  IF q.kind = "content_library_item" THEN ItemModTime(o)
  ELSE IF q.kind = "datastore_cluster" THEN FreeSpace(o) ELSE ValueOf(o)

\* An object whose name fits and that cannot be read, or has no score.
Unclear(q, inv) ==
  \E o \in ToSet(inv.objects) :
    /\ o.name \in q.glob /\ (q.kind # "compute_cluster" => o.name \in q.regex)
    /\ ~o.readable \/ (q.kind \in {"virtual_machine", "host"} /\ o.value = Unset)

Backwards(inv) ==
  [kind |-> inv.kind, objects |-> Reverse(inv.objects), at |-> inv.at, libraries |-> inv.libraries]

\* The answer r is an object that is asked for, the only one or, if the query says
\* so, one that no other has a higher score than.
AnswersWithTheOne(q, inv, r) ==
  r.ok => /\ r.object \in Matching(q, inv)
          /\ q.alt \/ Matching(q, inv) = {r.object}
          /\ \A o \in Matching(q, inv) \ {r.object} : ScoreOf(q, o) <= ScoreOf(q, r.object)

\* There is no answer only if none or too many are asked for, if a place or the
\* library is missing, or if an object is unclear.
RefusesForAReason(q, inv, r) ==
  \/ r.ok \/ Unclear(q, inv) \/ Matching(q, inv) = {}
  \/ Cardinality(Matching(q, inv)) > 1 /\ ~q.alt
  \/ q.kind = "content_library_item" /\ inv.libraries # 1

\* A machine elsewhere has the name of one of the host that is asked for: the data source,
\* which knows the machines of the host by their names (filters.go:48), takes both.
NameIsShared(q, inv) ==
  /\ q.kind = "virtual_machine" /\ q.host # Unset /\ q.host \in DOMAIN inv.at
  /\ \E o, other \in ToSet(inv.objects) :
       o.name = other.name /\ o.id \in inv.at[q.host] /\ other.id \notin inv.at[q.host]

\* A query is answered with the object it asks for and refused for a reason, and the
\* order in which the server lists the objects does not change the answer, except
\* between objects of the same score.  Excluded are machines of one name of which some
\* are on the host and some are not (OnTheHost).
FindsTheOne(q, inv) ==
  LET r == Execute(q, inv)
      other == Execute(q, Backwards(inv))
  IN Configured(q) /\ ~NameIsShared(q, inv) =>
       /\ AnswersWithTheOne(q, inv, r)
       /\ RefusesForAReason(q, inv, r)
       /\ r.ok = other.ok \/ Unclear(q, inv)
       /\ r.ok /\ other.ok =>
            r.object = other.object \/ ScoreOf(q, r.object) = ScoreOf(q, other.object)

\* The machine that answers a query for the machines of a host is on that host.
OnTheHost(q, inv) ==
  LET r == Execute(q, inv)
  IN Configured(q) /\ q.kind = "virtual_machine" /\ q.host # Unset /\ r.ok
       => IsAt(q, q.host, inv, r.object)
=============================================================================
