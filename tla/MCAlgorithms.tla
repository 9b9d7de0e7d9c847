---------------------------- MODULE MCAlgorithms ----------------------------
(***************************************************************************)
(* The algorithms over bounded inputs.                                      *)
(***************************************************************************)
EXTENDS Algorithms, TLC

-----------------------------------------------------------------------------
(* Disks: two controllers of each kind at most, two units or, of PVSCSI, four, one
   of them reserved; up to three disks *)

MCMaxUnit == [lsi |-> 1, pvscsi |-> 3, nvme |-> 1, sata |-> 1]
MCMaxDisks == [lsi |-> 2, pvscsi |-> 3, nvme |-> 2, sata |-> 2]

WithoutAddress == [explicit |-> FALSE, index |-> 0, address |-> Unset]
DisksAsConfigured ==
  {WithoutAddress, [WithoutAddress EXCEPT !.index = 1]} \cup
  {[explicit |-> TRUE, index |-> 0, address |-> a] : a \in
     [kind : {"scsi", "nvme"}, bus : 0 .. 1, unit : {0, 2}, spelled : {"plain", "padded"}]
     \cup [kind : {"scsi"}, bus : 0 .. 1, unit : {1, 3}, spelled : {"plain", "wrong"}]}

MCTemplates ==
  {[controllers |-> {}, devices |-> {}],
   [controllers |-> {Controller("scsi", 0, "lsilogic")}, devices |-> {Place("scsi", 0, 0)}],
   [controllers |-> {Controller("scsi", 1, "pvscsi"), Controller("nvme", 0, "nvme")},
    devices |-> {}]}

TypeLists == {<< >>} \cup {<<t>> : t \in {"pvscsi", "lsilogic", "nvme"}}
             \cup {<<"pvscsi", "nvme">>, <<"lsilogic", "pvscsi">>, <<"nvme", "lsilogic">>,
                   <<"pvscsi", "nvme", "pvscsi">>}

DiskLists ==
  TupleOf(DisksAsConfigured, 0) \cup TupleOf(DisksAsConfigured, 1)
    \cup TupleOf(DisksAsConfigured, 2)
    \cup {Append(s, d) : s \in TupleOf({WithoutAddress} \cup {d \in DisksAsConfigured :
            d.explicit /\ d.address.unit = 0 /\ d.address.spelled = "plain"}, 2),
          d \in DisksAsConfigured}

MCDiskConfigurations == [types : TypeLists, storage : DiskLists]

-----------------------------------------------------------------------------
(* Storage: recommendations of up to two actions for up to three disks in a
   datastore cluster, and storage policies outside of one *)

Recommendations ==
  LET bare == [moves : {<< >>}, destination : Datastores]
  IN {<< >>} \cup TupleOf(Actions(1 .. 2), 1) \cup TupleOf(Actions({1, 3}), 2) \cup TupleOf(bare, 3)

MCStorageServers ==
  [cluster : {<< >>, <<"ds1">>, <<"ds1", "ds2">>}, actions : Recommendations,
   compatible : {[p \in Policies |-> None]}]
  \cup [cluster : {<< >>}, actions : {<< >>}, compatible : [Policies -> Datastores \cup {None}]]

\* Those of a datastore cluster of two.
MCClusterServers == {s \in MCStorageServers : Len(s.cluster) = 2}

MCStorageRequests ==
  LET UpTo3(disks) == UNION {TupleOf(disks, n) : n \in 0 .. 3}
  IN [datastore : {None}, useCluster : {TRUE}, disks : UpTo3({d \in DiskType : d.policy = None})]
     \cup [datastore : {None, "ds2"}, useCluster : {FALSE},
           disks : UpTo3({d \in DiskType : ~d.explicit})]

-----------------------------------------------------------------------------
(* Data sources: two objects, or three of those that are chosen by a score *)

Tag1 == <<"t", "c">>
Profiles ==
  [name : Names, tags : {{Tag1}, {<<"t", "d">>}}, readable : {TRUE}]
  \cup [name : {"a"}, tags : {{}, {Tag1}}, readable : {FALSE}]

Free(id, free) == [id |-> id, free |-> free]

Special(kind) ==
  IF kind = "content_library_item"
  THEN [type : {"iso", "ovf"}, modified : {Unset, 1}, created : {Unset, 2}]
  ELSE IF kind = "datastore_cluster"
  THEN [members : {<< >>, <<Free("x", 3)>>, <<Free("x", 1), Free("y", 1)>>,
                   <<Free("x", 1), Free("y", 3)>>}]
  ELSE IF kind = "network" THEN [type : NetworkTypes \cup {"other"}]
  ELSE IF kind = "resource_pool"
  THEN [path : {<<"h", "Resources">>, <<"h", "Resources", "p">>, <<"c", "Resources", "p">>}]
  ELSE IF kind = "virtual_machine" THEN [template : BOOLEAN, value : {Unset, 1, 2}]
  ELSE IF kind = "host" THEN [value : {Unset, 1, 2}]
  ELSE IF kind = "datastore" THEN [value : {1, 2}]
  ELSE {<< >>}

Objects(kind, id) ==
  {("id" :> id) @@ profile @@ special : profile \in Profiles, special \in Special(kind)}

\* A host and a cluster, where the kind has places, and what they have.
PlacesOf(kind) ==
  IF kind = "resource_pool" THEN {[h |-> <<"h", "Resources">>, c |-> <<"c", "Resources">>]}
  ELSE IF kind = "datastore_cluster" THEN [h : {{"x"}}, c : {{"x", "y"}}]
  ELSE [h : {{}, {1}, {1, 2}}, c : {{2}}]

InventoriesOf(kind) ==
  [objects : {<< >>} \cup (Objects(kind, 1) \X Objects(kind, 2)), at : PlacesOf(kind),
   libraries : IF kind = "content_library_item" THEN {0, 1, 2} ELSE {1}, kind : {kind}]

QueriesOf(kind) ==
  LET places == IF kind \in {"compute_cluster", "content_library", "content_library_item"}
                THEN {<<Unset, Unset>>}
                ELSE {<<Unset, Unset>>, <<"h", Unset>>, <<Unset, "c">>, <<"h", "c">>, <<Unset, "z">>}
      scored == {"content_library_item", "datastore", "datastore_cluster", "host", "virtual_machine"}
  IN {[kind |-> kind, glob |-> n[1], regex |-> n[2], tags |-> tags,
       host |-> IF kind = "host" THEN Unset ELSE p[1],
       cluster |-> IF kind = "virtual_machine" THEN Unset ELSE p[2],
       type |-> type, template |-> alt /\ kind = "virtual_machine", alt |-> alt] :
        n \in {<<Names, Names>>, <<{"a"}, Names>>, <<Names, {"b"}>>}, p \in places,
        tags \in {<< >>, <<Tag1>>},
        type \in IF kind = "network" THEN {Unset, "Network"}
                 ELSE IF kind = "content_library_item" THEN {Unset, "iso"} ELSE {Unset},
        alt \in IF kind \in scored THEN BOOLEAN ELSE {FALSE}}

MCInventories == UNION {InventoriesOf(kind) : kind \in DataSourceKinds}

MCQueries == UNION {QueriesOf(kind) : kind \in DataSourceKinds}
=============================================================================
