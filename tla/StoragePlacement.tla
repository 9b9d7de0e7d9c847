--------------------------- MODULE StoragePlacement ---------------------------
(***************************************************************************)
(* Which datastore each disk of a new machine is put on: the one that is    *)
(* configured, what Storage DRS recommends for a datastore cluster, or one  *)
(* that suits the disk's storage policy.                                    *)
(*                                                                          *)
(* A request r holds the configuration and the answers of the server: what  *)
(* the cluster consists of, the actions of the first recommendation (none   *)
(* if the request failed) and the datastore that suits each policy.         *)
(***************************************************************************)
EXTENDS Naturals, Sequences, FiniteSets, SequencesExt, Loops

CONSTANTS
  Datastores,
  Policies

None == "none"

ASSUME StoragePlacementAssumption == None \notin Datastores \cup Policies

\* An action moves some disks, by their index among the new disks, or names a
\* destination only.
Actions(disks) ==
  [moves : UNION {[d -> Datastores] : d \in SUBSET disks}, destination : Datastores \cup {None}]

Moved(action) == DOMAIN action.moves
Bare(action) == action.destination # None /\ Moved(action) = {}

\* explicit: the disk has an address and is attached after those that have none.
DiskType == [explicit : BOOLEAN, policy : Policies \cup {None}]

IsAction(a) ==
  /\ Moved(a) \subseteq Nat /\ \A n \in Moved(a) : a.moves[n] \in Datastores
  /\ a.destination \in Datastores \cup {None}

\* A datastore excludes a datastore cluster (LocationConfig.Prepare).
IsRequested(r) ==
  /\ r.datastore \in Datastores \cup {None} /\ r.useCluster \in BOOLEAN
  /\ r.useCluster => r.datastore = None
  /\ r.disks \in Seq(DiskType)

IsOffered(r) ==
  /\ r.cluster \in Seq(Datastores)
  /\ IsList(r.actions) /\ \A m \in DOMAIN r.actions : IsAction(r.actions[m])
  /\ r.compatible \in [Policies -> Datastores \cup {None}]

-----------------------------------------------------------------------------
(* The primary datastore: StepResolveDatastore *)

\* FirstStoragePolicyName.
FirstPolicy(r) ==
  LET with == {i \in DOMAIN r.disks : r.disks[i].policy # None}
  IN IF with = {} THEN None ELSE r.disks[Min(with)].policy

\* SelectDatastoreFromCluster: the first destination, or else the first datastore.
SelectDatastoreFromCluster(r) ==
  LET named == Kept(r.actions, {a \in ToSet(r.actions) : a.destination # None})
  IN IF named # << >> THEN named[1].destination ELSE r.cluster[1]

\* What the step puts in the state bag; an error halts the build.
StepResolveDatastore(r) ==
  LET found(ds, policy) == [ok |-> ds # None, datastore |-> ds, policy |-> policy]
  IN IF r.datastore # None THEN found(r.datastore, None)
     ELSE IF r.useCluster
     THEN IF r.cluster = << >> THEN found(None, None) ELSE found(SelectDatastoreFromCluster(r), None)
     ELSE IF FirstPolicy(r) # None THEN found(r.compatible[FirstPolicy(r)], FirstPolicy(r))
     ELSE [ok |-> TRUE, datastore |-> None, policy |-> None]

-----------------------------------------------------------------------------
(* Storage DRS for several disks *)

\* The indices of the disks in the order in which they are attached
\* (newVirtualDiskKeysFromConfigSpec of addStorageDevices).
AttachOrder(r) ==
  LET indices == [i \in DOMAIN r.disks |-> i]
      explicit == {i \in DOMAIN r.disks : r.disks[i].explicit}
  IN Kept(indices, DOMAIN r.disks \ explicit) \o Kept(indices, explicit)

Unresolved(result) == {n \in DOMAIN result : result[n] = None}

\* diskDatastoreMappingsFromRecommendation: a later action overrides.
WithMoves(result, action) ==
  [n \in DOMAIN result |-> IF n \in Moved(action) THEN action.moves[n] ELSE result[n]]

\* Mutant: a destination starts over with the first disk.
MutantWithDestination(result, action) ==
  IF ~Bare(action) THEN result ELSE [result EXCEPT ![1] = action.destination]

\* destinationOnlyActions: each is for the next disk that has nothing.
WithDestination(result, action) ==
  IF ~Bare(action) \/ Unresolved(result) = {} THEN result
  ELSE [result EXCEPT ![Min(Unresolved(result))] = action.destination]

\* What is left follows the first disk that has something.
Filled(result) ==
  LET resolved == DOMAIN result \ Unresolved(result)
  IN IF resolved = {} THEN << >>
     ELSE [n \in DOMAIN result |-> IF n \in resolved THEN result[n] ELSE result[Min(resolved)]]

\* The disks after the moves of the first m actions, for each m.
AfterMoves(actions, count) ==
  LET after[m \in 0 .. Len(actions)] ==
        IF m = 0 THEN [n \in 1 .. count |-> None] ELSE WithMoves(after[m - 1], actions[m])
  IN after

\* The disks after the destinations of the first m actions, when all moves are made.
AfterDestinations(actions, count) ==
  LET after[m \in 0 .. Len(actions)] ==
        IF m = 0 THEN AfterMoves(actions, count)[Len(actions)]
        ELSE WithDestination(after[m - 1], actions[m])
  IN after

\* datastoresForNewDisks, for two disks or more.
DatastoresForNewDisks(actions, count) ==
  Filled(AfterDestinations(actions, count)[Len(actions)])

OrElse(list, other) == IF list # << >> THEN list ELSE other

\* SelectDatastoresForDisks; no datastores are an error.
SelectDatastoresForDisks(r) ==
  IF r.cluster = << >> THEN << >>
  ELSE OrElse(DatastoresForNewDisks(r.actions, Len(r.disks)), [n \in DOMAIN r.disks |-> r.cluster[1]])

\* ResolveMultiDiskDatastorePlacement: an error is a warning.
MultiDiskPlacement(r, primary) ==
  IF ~r.useCluster \/ Len(r.disks) <= 1 THEN << >>
  ELSE OrElse(SelectDatastoresForDisks(r),
              IF primary = None THEN << >> ELSE [n \in DOMAIN r.disks |-> primary])

-----------------------------------------------------------------------------
(* Storage policies *)

\* The cache of ResolveStoragePolicyDatastorePlacement, seeded with the policy of
\* the primary datastore; a look-up that finds nothing fails the build.
ForPolicy(r, step, policy) ==
  IF policy = None \/ policy = step.policy THEN step.datastore ELSE r.compatible[policy]

PolicyPlacement(r, step) ==
  IF r.datastore # None \/ r.useCluster \/ FirstPolicy(r) = None THEN << >>
  ELSE [i \in DOMAIN r.disks |-> ForPolicy(r, step, r.disks[i].policy)]

\* The machine's own datastore and those of its disks (DiskDatastores), as StepCreateVM
\* hands them to the driver; a disk that has none follows the machine.
PlacedOn(r, step, home, disks) ==
  [ok |-> step.ok /\ None \notin ToSet(disks) /\ (home = None => r.useCluster),
   home |-> home,
   disks |-> [i \in DOMAIN r.disks |-> IF disks = << >> THEN home ELSE disks[i]]]

PlacementAfter(r, step, multi) ==
  PlacedOn(r, step,
           IF multi # << >> /\ r.cluster # << >> THEN multi[1] ELSE step.datastore,
           OrElse(multi, PolicyPlacement(r, step)))

Placement(r) ==
  LET step == StepResolveDatastore(r)
  IN PlacementAfter(r, step, MultiDiskPlacement(r, step.datastore))

-----------------------------------------------------------------------------
(* Properties *)

\* What Storage DRS recommends for the disk that is attached as number n: the last
\* move of it, or else the destination that is left for it when each of the disks
\* before it that were not moved has taken one.
Recommended(r, n) ==
  LET moving(k) == {m \in DOMAIN r.actions : k \in Moved(r.actions[m])}
      bare == {m \in DOMAIN r.actions : Bare(r.actions[m])}
      before == {k \in 1 .. n : moving(k) = {}}
      mine == {m \in bare : Cardinality({l \in bare : l <= m}) = Cardinality(before)}
  IN IF moving(n) # {} THEN r.actions[Max(moving(n))].moves[n]
     ELSE IF mine # {} THEN r.actions[Min(mine)].destination
     ELSE None

\* A machine that is made is placed as configured and recommended: on the datastore
\* that is configured; else, in a cluster, every disk goes where Storage DRS puts it
\* or, if that says nothing of it, to a datastore that it put another disk on or the
\* first of the cluster; else every disk with a policy is on a datastore that suits
\* it.  In a cluster it needs the storage blocks in the order in which their disks
\* are attached: where a disk with an address is configured before one without, the
\* recommendations are in another order than DiskDatastores, which driver/disk.go:43
\* calls "index-aligned with Storage", and disks change places (IndexAligned).
IsAsRecommended(r, p, order) ==
  LET several == r.useCluster /\ Len(r.disks) > 1
      recommended == {Recommended(r, n) : n \in DOMAIN order} \ {None}
      Suits(n, datastore) ==
        \/ datastore = Recommended(r, n)
        \/ Recommended(r, n) = None /\ datastore \in recommended
        \/ recommended = {} /\ datastore \in ToSet(r.cluster)
  IN p.ok =>
       /\ r.datastore # None => \A i \in DOMAIN p.disks : p.disks[i] = r.datastore
       /\ several /\ (\A n \in DOMAIN order : order[n] = n)
            => \A n \in DOMAIN order : Suits(n, p.disks[order[n]])
       /\ several => p.home = p.disks[1]
       /\ r.datastore = None /\ ~r.useCluster => \A i \in DOMAIN p.disks :
            r.disks[i].policy # None => p.disks[i] = r.compatible[r.disks[i].policy]

\* The placement that a build works out for a request is the one described above.
PlacedAsRecommended(r) == IsAsRecommended(r, Placement(r), AttachOrder(r))

\* The disk for which Storage DRS recommends a datastore is put on that datastore.
IndexAligned(r) ==
  LET p == Placement(r)
      order == AttachOrder(r)
  IN p.ok /\ r.useCluster /\ Len(r.disks) > 1 =>
       \A n \in DOMAIN order :
         Recommended(r, n) # None => p.disks[order[n]] = Recommended(r, n)
=============================================================================
