--------------------------- MODULE TagManagerProofs ---------------------------
(***************************************************************************)
(* Proofs about TagManager, for any number of builds, every set of          *)
(* configurations and tags, every limit of the attempts and all faults.     *)
(***************************************************************************)
EXTENDS TagManager, TLAPS

-----------------------------------------------------------------------------
(* The inductive invariant *)

Resolving == {"lookup", "category", "find", "create"}

\* Where n > Len(Items(config[b])), all items.
ResolvedBefore(b, n) ==
  /\ \A i \in DOMAIN Items(config[b]) : i < n =>
       \E k \in DOMAIN ids[b] : IdsFor(Items(config[b])[i]) = {ids[b][k]}
  /\ \A k \in DOMAIN ids[b] :
       \E i \in DOMAIN Items(config[b]) : i < n /\ ids[b][k] \in IdsFor(Items(config[b])[i])

ResolvedAll(b) == ResolvedBefore(b, Len(Items(config[b])) + 1)

\* The IDs that were resolved are those of the items before the next one, and
\* those of all items when attaching starts.
ResolutionInv(b) ==
  /\ at[b] = "validate" => next[b] = 1 /\ ids[b] = << >>
  /\ at[b] \in Resolving =>
       /\ next[b] \in DOMAIN Items(config[b]) /\ (at[b] = "lookup" <=> Item(b).id # "")
       /\ ResolvedBefore(b, next[b])
  /\ at[b] \in Resolving \cup {"list", "attach"} => ValidConfig(config[b])
  /\ at[b] \in {"list", "attach", "applied"} => ResolvedAll(b)

AttachedFirst(b, n) ==
  /\ n \in 0 .. Len(ids[b])
  /\ attached[b] = config[b].attached \cup {ids[b][i] : i \in 1 .. n}

\* The next tag may be attached although the answer was an error.
AttachInv(b) ==
  /\ at[b] \in Resolving \cup {"validate", "list"} => AttachedFirst(b, 0)
  /\ at[b] = "attach" => AttachedFirst(b, next[b] - 1) \/ AttachedFirst(b, next[b])
  /\ at[b] = "applied" => AttachedFirst(b, Len(ids[b]))
  /\ at[b] = "failed" => \E n \in 0 .. Len(ids[b]) : AttachedFirst(b, n)

\* New tags are those that some build asks for.
CreatedInv ==
  \A i \in tags \ Existing : \E b \in Builds : ValidConfig(config[b]) /\ i \in Wanted(config[b])

IInv == TypeOK /\ (\A b \in Builds : ResolutionInv(b) /\ AttachInv(b)) /\ CreatedInv
-----------------------------------------------------------------------------
(* Items and the IDs they ask for *)

LEMMA ItemsType ==
  ASSUME NEW c \in Configs
  PROVE  Len(Items(c)) \in Nat /\ DOMAIN Items(c) = 1 .. Len(Items(c))
  <1> DEFINE Listed == [id : STRING, category : {""}, name : {""}]
             listed == [i \in DOMAIN c.tags |-> [id |-> c.tags[i], category |-> "", name |-> ""]]
  <1>1. c.tags \in Seq(STRING) /\ c.tag \in Seq(ItemType)
    BY ConfigsAssumption
  <1>2. listed \in Seq(Listed)
    <2>1. DOMAIN c.tags = 1 .. Len(c.tags) /\ Len(c.tags) \in Nat
      BY <1>1
    <2>2. \A i \in 1 .. Len(c.tags) : c.tags[i] \in STRING
      BY <1>1, <2>1
    <2>3. \A i \in 1 .. Len(c.tags) : [id |-> c.tags[i], category |-> "", name |-> ""] \in Listed
      BY <2>2
    <2>4. QED BY <2>1, <2>3
  <1> HIDE DEF Listed, listed
  <1>3. listed \in Seq(Listed \cup ItemType) /\ c.tag \in Seq(Listed \cup ItemType)
    BY <1>1, <1>2
  <1>4. Items(c) = listed \o c.tag
    BY DEF Items, listed
  <1>5. QED BY <1>3, <1>4

\* There is one tag at most that an item asks for.
LEMMA OneId ==
  ASSUME NEW t, NEW i \in IdsFor(t)
  PROVE  i \in Ids /\ IdsFor(t) = {i}
  BY TagsAssumption DEF IdsFor

LEMMA IdOfItem ==
  ASSUME NEW t, t.id # "", t.id \in Ids
  PROVE  t.id \in IdsFor(t)
  BY DEF IdsFor

LEMMA WantedOf ==
  ASSUME NEW c, NEW i \in DOMAIN Items(c), NEW id \in IdsFor(Items(c)[i])
  PROVE  id \in Wanted(c)
  BY DEF Wanted

\* When all items are resolved, the IDs are the wanted ones.
LEMMA AllIsWanted ==
  ASSUME TypeOK, NEW b \in Builds, ResolvedAll(b)
  PROVE  /\ Wanted(config[b]) = {ids[b][k] : k \in DOMAIN ids[b]}
         /\ \A i \in DOMAIN Items(config[b]) : IdsFor(Items(config[b])[i]) # {}
  <1> DEFINE items == Items(config[b])
  <1>1. config[b] \in Configs
    BY DEF TypeOK
  <1>2. \A i \in DOMAIN items : i < Len(items) + 1
    BY <1>1, ItemsType
  <1>3. \A i \in DOMAIN items : \E k \in DOMAIN ids[b] : IdsFor(items[i]) = {ids[b][k]}
    BY <1>2 DEF ResolvedAll, ResolvedBefore
  <1>4. \A k \in DOMAIN ids[b] : \E i \in DOMAIN items : ids[b][k] \in IdsFor(items[i])
    BY DEF ResolvedAll, ResolvedBefore
  <1>5. Wanted(config[b]) = {ids[b][k] : k \in DOMAIN ids[b]}
    BY <1>3, <1>4 DEF Wanted
  <1>6. QED BY <1>3, <1>5

-----------------------------------------------------------------------------
(* How an operation ends *)

Places == Operations \cup {"validate", "applied", "failed"}
Reasons == {"none", "invalid", "not found", "not associable", "template", "skipped",
            "already exists", "permanent", "exhausted", "interrupted"}

LEMMA Counters ==
  ASSUME TypeOK, NEW b \in Builds
  PROVE  /\ next[b] \in Nat \ {0} /\ attempt[b] \in 1 .. MaxAttempts /\ ids[b] \in Seq(Ids)
         /\ next \in [Builds -> Nat \ {0}] /\ attempt \in [Builds -> 1 .. MaxAttempts]
         /\ ids \in [Builds -> Seq(Ids)] /\ attached \in [Builds -> SUBSET Ids]
  <1>1. next \in [Builds -> Nat \ {0}] /\ attempt \in [Builds -> 1 .. MaxAttempts]
    BY Zenon DEF TypeOK
  <1>2. ids \in [Builds -> Seq(Ids)] /\ attached \in [Builds -> SUBSET Ids]
    BY Zenon DEF TypeOK
  <1>3. QED BY <1>1, <1>2

\* The place, the attempts and the error of b are what they may be.
Control(b) ==
  /\ config' = config
  /\ at' \in [Builds -> Places] /\ failure' \in [Builds -> Reasons]
  /\ attempt' \in [Builds -> 1 .. MaxAttempts]
  /\ \A o \in Builds \ {b} : at'[o] = at[o]

LEMMA AttemptsStart == 1 \in 1 .. MaxAttempts
  BY RetryAssumption

LEMMA GoesTo ==
  ASSUME TypeOK, NEW b \in Builds, NEW place \in Places, GoTo(b, place)
  PROVE  Control(b) /\ at'[b] = place
  BY AttemptsStart DEF TypeOK, Places, Reasons, GoTo, Control

LEMMA FailsFor ==
  ASSUME TypeOK, NEW b \in Builds, NEW why \in Reasons, Fails(b, why)
  PROVE  /\ Control(b) /\ at'[b] = "failed"
         /\ UNCHANGED <<next, ids, tagCache, categoryCache, attachedSet>>
  BY AttemptsStart DEF TypeOK, Places, Reasons, Fails, Control

LEMMA RetriesOrFails ==
  ASSUME TypeOK, NEW b \in Builds, Retries(b)
  PROVE  /\ Control(b) /\ at'[b] \in {at[b], "failed"}
         /\ UNCHANGED <<next, ids, tagCache, categoryCache, attachedSet>>
  <1>1. CASE attempt[b] < MaxAttempts
    <2>1. CASE /\ attempt' = [attempt EXCEPT ![b] = @ + 1]
               /\ UNCHANGED <<config, at, next, ids, tagCache, categoryCache, attachedSet, failure>>
      <3>1. attempt[b] + 1 \in 1 .. MaxAttempts
        BY <1>1, Counters, RetryAssumption
      <3>2. QED BY <2>1, <3>1 DEF TypeOK, Places, Reasons, Control
    <2>2. CASE Fails(b, "interrupted")
      BY <2>2, FailsFor DEF Reasons
    <2>3. attempt[b] \in Nat /\ MaxAttempts \in Nat /\ ~(attempt[b] >= MaxAttempts)
      BY <1>1, Counters, RetryAssumption
    <2>4. QED BY <2>1, <2>2, <2>3 DEF Retries
  <1>2. CASE ~(attempt[b] < MaxAttempts)
    BY <1>2, FailsFor DEF Retries, Reasons
  <1>3. QED BY <1>1, <1>2

\* The place that follows an item.
LEMMA FirstPlace ==
  ASSUME TypeOK, NEW b \in Builds, NEW n \in Nat \ {0}
  PROVE  /\ First(b, n) \in {"list", "lookup", "category"}
         /\ First(b, n) = "list" => Len(Items(config[b])) < n
         /\ First(b, n) # "list" =>
              n \in DOMAIN Items(config[b])
              /\ (First(b, n) = "lookup" <=> Items(config[b])[n].id # "")
  <1>1. config[b] \in Configs
    BY DEF TypeOK
  <1> DEFINE items == Items(config[b])
  <1>2. Len(items) \in Nat /\ DOMAIN items = 1 .. Len(items)
    BY <1>1, ItemsType
  <1> HIDE DEF items
  <1>3. First(b, n) = IF n > Len(items) THEN "list" ELSE IF items[n].id # "" THEN "lookup" ELSE "category"
    BY DEF First, items
  <1>4. CASE n > Len(items)
    BY <1>2, <1>3, <1>4 DEF items
  <1>5. CASE ~(n > Len(items))
    <2>1. n \in DOMAIN items
      BY <1>2, <1>5
    <2>2. QED BY <1>3, <1>5, <2>1 DEF items
  <1>6. QED BY <1>4, <1>5

\* What is resolved is appended, unless it is there.
LEMMA ResolvesOne ==
  ASSUME TypeOK, NEW b \in Builds, NEW id \in Ids, Resolved(b, id)
  PROVE  /\ Control(b) /\ at'[b] = First(b, next[b] + 1)
         /\ next' = [next EXCEPT ![b] = next[b] + 1] /\ next' \in [Builds -> Nat \ {0}]
         /\ ids' \in [Builds -> Seq(Ids)] /\ tagCache' \in [Builds -> SUBSET Ids]
         /\ \A o \in Builds \ {b} : ids'[o] = ids[o]
         /\ DOMAIN ids[b] \subseteq DOMAIN ids'[b]
         /\ \A k \in DOMAIN ids[b] : ids'[b][k] = ids[b][k]
         /\ \A k \in DOMAIN ids'[b] \ DOMAIN ids[b] : ids'[b][k] = id
         /\ \E k \in DOMAIN ids'[b] : ids'[b][k] = id
  <1>1. next[b] \in Nat \ {0} /\ next[b] + 1 \in Nat \ {0}
    BY Counters
  <1>2. Control(b) /\ at'[b] = First(b, next[b] + 1)
    BY <1>1, FirstPlace, GoesTo DEF Resolved, Places, Operations
  <1>3. /\ next' = [next EXCEPT ![b] = next[b] + 1] /\ next' \in [Builds -> Nat \ {0}]
        /\ tagCache' \in [Builds -> SUBSET Ids]
    BY <1>1 DEF TypeOK, Resolved
  <1>4. ids[b] \in Seq(Ids) /\ DOMAIN ids[b] = 1 .. Len(ids[b]) /\ Len(ids[b]) \in Nat
    BY Counters
  <1>5. CASE Contains(ids[b], id)
    <2>1. ids' = ids
      BY <1>5 DEF Resolved, TypeOK
    <2>2. \E k \in DOMAIN ids[b] : ids[b][k] = id
      BY <1>4, <1>5 DEF Contains
    <2>3. QED BY <1>2, <1>3, <2>1, <2>2 DEF TypeOK
  <1>6. CASE ~Contains(ids[b], id)
    <2>1. ids' = [ids EXCEPT ![b] = Append(ids[b], id)]
      BY <1>6 DEF Resolved, TypeOK
    <2>2. /\ Append(ids[b], id) \in Seq(Ids)
          /\ DOMAIN Append(ids[b], id) = 1 .. Len(ids[b]) + 1
          /\ Append(ids[b], id)[Len(ids[b]) + 1] = id
          /\ \A k \in 1 .. Len(ids[b]) : Append(ids[b], id)[k] = ids[b][k]
      BY <1>4
    <2>3. ids' \in [Builds -> Seq(Ids)] /\ ids'[b] = Append(ids[b], id)
          /\ \A o \in Builds \ {b} : ids'[o] = ids[o]
      BY <2>1, <2>2 DEF TypeOK
    <2>4. \A k \in DOMAIN ids'[b] \ DOMAIN ids[b] : k = Len(ids[b]) + 1
      BY <1>4, <2>2, <2>3
    <2>5. DOMAIN ids[b] \subseteq DOMAIN ids'[b] /\ Len(ids[b]) + 1 \in DOMAIN ids'[b]
      BY <1>4, <2>2, <2>3
    <2>6. /\ \A k \in DOMAIN ids[b] : ids'[b][k] = ids[b][k]
          /\ \A k \in DOMAIN ids'[b] \ DOMAIN ids[b] : ids'[b][k] = id
          /\ \E k \in DOMAIN ids'[b] : ids'[b][k] = id
      BY <1>4, <2>2, <2>3, <2>4, <2>5
    <2>7. QED BY <1>2, <1>3, <2>3, <2>5, <2>6
  <1>7. QED BY <1>5, <1>6

-----------------------------------------------------------------------------
(* A step of one build *)

BuildInv(b) == ResolutionInv(b) /\ AttachInv(b)

\* The data of b are what they may be, and the other builds are left alone.
Data(b) ==
  /\ next' \in [Builds -> Nat \ {0}] /\ ids' \in [Builds -> Seq(Ids)]
  /\ tagCache' \in [Builds -> SUBSET Ids] /\ categoryCache' \in [Builds -> SUBSET Associable]
  /\ attachedSet' \in [Builds -> SUBSET Ids] /\ attached' \in [Builds -> SUBSET Ids]
  /\ \A o \in Builds \ {b} : next'[o] = next[o] /\ ids'[o] = ids[o] /\ attached'[o] = attached[o]

LEMMA SameData ==
  ASSUME TypeOK, NEW b \in Builds,
         UNCHANGED <<next, ids, tagCache, categoryCache, attachedSet, attached>>
  PROVE  Data(b)
  BY Zenon DEF TypeOK, Data

LEMMA IdsSequence ==
  ASSUME TypeOK, NEW b \in Builds
  PROVE  Len(ids[b]) \in Nat /\ DOMAIN ids[b] = 1 .. Len(ids[b])
  BY Counters

\* At any time the first tags are attached.
LEMMA SomeAttached ==
  ASSUME TypeOK, NEW b \in Builds, AttachInv(b)
  PROVE  \E n \in 0 .. Len(ids[b]) : AttachedFirst(b, n)
  <1>1. \A n : AttachedFirst(b, n) => \E m \in 0 .. Len(ids[b]) : AttachedFirst(b, m)
    BY DEF AttachedFirst
  <1>2. at[b] \in Resolving \cup {"validate", "list", "attach", "applied", "failed"}
    BY DEF TypeOK, Operations, Resolving
  <1>3. QED BY <1>1, <1>2 DEF AttachInv

\* An error leaves what was attached.
LEMMA FailureKeeps ==
  ASSUME TypeOK, NEW b \in Builds, BuildInv(b), Control(b), at'[b] = "failed",
         ids'[b] = ids[b], attached'[b] = attached[b]
  PROVE  BuildInv(b)'
  <1>1. ResolutionInv(b)'
    BY DEF ResolutionInv, Resolving
  <1>2. \A n : AttachedFirst(b, n) => AttachedFirst(b, n)'
    BY DEF Control, AttachedFirst
  <1>3. \E n \in 0 .. Len(ids[b])' : AttachedFirst(b, n)'
    BY <1>2, SomeAttached DEF BuildInv
  <1>4. AttachInv(b)'
    BY <1>3 DEF AttachInv, Resolving
  <1>5. QED BY <1>1, <1>4 DEF BuildInv

\* Another attempt, or another step of the same item.
LEMMA SameKeeps ==
  ASSUME NEW b \in Builds, BuildInv(b), config' = config,
         next'[b] = next[b], ids'[b] = ids[b], attached'[b] = attached[b],
         \/ at'[b] = at[b]
         \/ {at[b], at'[b]} \subseteq Resolving \ {"lookup"}
  PROVE  BuildInv(b)'
  <1>1. ResolutionInv(b)'
    BY DEF BuildInv, ResolutionInv, ResolvedAll, ResolvedBefore, Item, Resolving
  <1>2. AttachInv(b)'
    BY DEF BuildInv, AttachInv, AttachedFirst, Resolving
  <1>3. QED BY <1>1, <1>2 DEF BuildInv

LEMMA RetryKeeps ==
  ASSUME TypeOK, NEW b \in Builds, BuildInv(b), Retries(b), attached'[b] = attached[b]
  PROVE  BuildInv(b)'
  <1>1. /\ Control(b) /\ at'[b] \in {at[b], "failed"} /\ config' = config
        /\ next' = next /\ ids' = ids
    BY RetriesOrFails DEF Control
  <1>2. QED BY <1>1, FailureKeeps, SameKeeps

\* The item with the next index is turned to, or the listing.
LEMMA TurnKeeps ==
  ASSUME TypeOK, NEW b \in Builds, config' = config, ValidConfig(config[b]),
         next'[b] \in Nat \ {0}, at'[b] = First(b, next'[b]),
         ResolvedBefore(b, next[b])', AttachedFirst(b, 0)'
  PROVE  BuildInv(b)'
  <1> DEFINE items == Items(config[b])
  <1>1. config[b] \in Configs /\ Len(items) \in Nat /\ DOMAIN items = 1 .. Len(items)
    BY ItemsType DEF TypeOK
  <1>2. /\ at'[b] \in {"list", "lookup", "category"}
        /\ at'[b] = "list" => Len(items) < next'[b]
        /\ at'[b] # "list" => next'[b] \in DOMAIN items /\ (at'[b] = "lookup" <=> items[next'[b]].id # "")
    BY FirstPlace
  <1>3. AttachInv(b)'
    BY <1>2 DEF AttachInv, Resolving
  <1>4. at'[b] # "list" => ResolutionInv(b)'
    BY <1>2 DEF ResolutionInv, Resolving, Item
  <1>5. ASSUME at'[b] = "list" PROVE ResolvedAll(b)'
    <2>1. \A i \in DOMAIN items : i < next'[b] /\ i < Len(items) + 1
      BY <1>1, <1>2, <1>5
    <2>2. QED BY <2>1 DEF ResolvedAll, ResolvedBefore
  <1>6. at'[b] = "list" => ResolutionInv(b)'
    BY <1>5 DEF ResolutionInv, Resolving
  <1>7. QED BY <1>3, <1>4, <1>6 DEF BuildInv

LEMMA ResolvedKeeps ==
  ASSUME TypeOK, NEW b \in Builds, BuildInv(b), at[b] \in Resolving,
         NEW id \in Ids, IdsFor(Item(b)) = {id}, Resolved(b, id), attached'[b] = attached[b]
  PROVE  BuildInv(b)'
  <1> DEFINE items == Items(config[b])
  <1>1. /\ next[b] \in DOMAIN items /\ ResolvedBefore(b, next[b]) /\ ValidConfig(config[b])
        /\ items[next[b]] = Item(b) /\ AttachedFirst(b, 0)
    BY DEF BuildInv, ResolutionInv, AttachInv, Item
  <1>2. /\ config' = config /\ at'[b] = First(b, next[b] + 1)
        /\ next'[b] = next[b] + 1 /\ next'[b] \in Nat \ {0} /\ ids' \in [Builds -> Seq(Ids)]
        /\ DOMAIN ids[b] \subseteq DOMAIN ids'[b]
        /\ \A k \in DOMAIN ids[b] : ids'[b][k] = ids[b][k]
        /\ \A k \in DOMAIN ids'[b] \ DOMAIN ids[b] : ids'[b][k] = id
        /\ \E k \in DOMAIN ids'[b] : ids'[b][k] = id
    <2>1. next'[b] = next[b] + 1 /\ next'[b] \in Nat \ {0}
      BY ResolvesOne, Counters
    <2>2. config' = config
      BY ResolvesOne DEF Control
    <2>3. QED BY ResolvesOne, <2>1, <2>2
  <1>3. DOMAIN items \subseteq Nat /\ next[b] \in Nat
    <2>1. config[b] \in Configs
      BY DEF TypeOK
    <2>2. QED BY <2>1, Counters, ItemsType
  <1>4. \A i \in DOMAIN items : i < next'[b] <=> i < next[b] \/ i = next[b]
    BY <1>2, <1>3
  <1> HIDE DEF items
  <1>5. \A i \in DOMAIN items : i < next'[b] =>
          \E k \in DOMAIN ids'[b] : IdsFor(items[i]) = {ids'[b][k]}
    <2> SUFFICES ASSUME NEW i \in DOMAIN items, i < next'[b]
                 PROVE  \E k \in DOMAIN ids'[b] : IdsFor(items[i]) = {ids'[b][k]}
      OBVIOUS
    <2>1. CASE i < next[b]
      <3>1. PICK k \in DOMAIN ids[b] : IdsFor(items[i]) = {ids[b][k]}
        BY <1>1, <2>1 DEF ResolvedBefore, items
      <3>2. QED BY <1>2, <3>1
    <2>2. CASE i = next[b]
      BY <1>1, <1>2, <2>2
    <2>3. QED BY <1>4, <2>1, <2>2
  <1>6. \A k \in DOMAIN ids'[b] :
          \E i \in DOMAIN items : i < next'[b] /\ ids'[b][k] \in IdsFor(items[i])
    <2> SUFFICES ASSUME NEW k \in DOMAIN ids'[b]
                 PROVE  \E i \in DOMAIN items : i < next'[b] /\ ids'[b][k] \in IdsFor(items[i])
      OBVIOUS
    <2>1. CASE k \in DOMAIN ids[b]
      <3>1. PICK i \in DOMAIN items : i < next[b] /\ ids[b][k] \in IdsFor(items[i])
        BY <1>1, <2>1 DEF ResolvedBefore, items
      <3>2. QED BY <1>2, <1>4, <2>1, <3>1
    <2>2. CASE k \notin DOMAIN ids[b]
      BY <1>1, <1>2, <1>4, <2>2
    <2>3. QED BY <2>1, <2>2
  <1>7. ResolvedBefore(b, next[b])'
    BY <1>2, <1>5, <1>6 DEF ResolvedBefore, items
  <1>8. AttachedFirst(b, 0)'
    <2>1. Len(ids'[b]) \in Nat
      BY <1>2
    <2>2. QED BY <1>1, <1>2, <2>1 DEF AttachedFirst
  <1>9. QED BY <1>1, <1>2, <1>7, <1>8, TurnKeeps

-----------------------------------------------------------------------------
(* The steps *)

\* What a step keeps, of the build that takes it and of the others.
Kept(b) == Control(b) /\ Data(b) /\ BuildInv(b)'

LEMMA ErrorKept ==
  ASSUME TypeOK, NEW b \in Builds, BuildInv(b), Error(b)
  PROVE  Kept(b)
  <1>1. attached' = attached
    BY DEF Error, server
  <1>2. \A why \in {"permanent", "template"} : Fails(b, why) => Kept(b)
    BY <1>1, FailsFor, FailureKeeps, SameData DEF Kept, Reasons
  <1>3. Retries(b) => Kept(b)
    BY <1>1, RetriesOrFails, RetryKeeps, SameData DEF Kept
  <1>4. QED BY <1>2, <1>3 DEF Error

LEMMA StartKept ==
  ASSUME TypeOK, NEW b \in Builds, BuildInv(b), Start(b)
  PROVE  Kept(b)
  <1> DEFINE items == Items(config[b])
  <1>1. /\ attached' = attached /\ next[b] = 1 /\ ids[b] = << >> /\ AttachedFirst(b, 0)
        /\ Len(ids[b]) = 0 /\ DOMAIN ids[b] = {}
    <2>1. attached' = attached /\ at[b] = "validate"
      BY DEF Start, server
    <2>2. next[b] = 1 /\ ids[b] = << >> /\ AttachedFirst(b, 0)
      BY <2>1 DEF BuildInv, ResolutionInv, AttachInv
    <2>3. QED BY <2>1, <2>2
  <1>2. ASSUME UNCHANGED <<config, next, ids>>
        PROVE  AttachedFirst(b, 0)' /\ ResolvedBefore(b, next[b])'
    <2>1. AttachedFirst(b, 0)'
      BY <1>1, <1>2 DEF AttachedFirst
    <2>2. DOMAIN items \subseteq Nat \ {0}
      <3>1. config[b] \in Configs
        BY DEF TypeOK
      <3>2. QED BY <3>1, ItemsType
    <2>3. \A i \in DOMAIN items : ~(i < 1)
      BY <2>2
    <2>4. QED BY <1>1, <1>2, <2>1, <2>3 DEF ResolvedBefore
  <1>3. CASE /\ items = << >> /\ GoTo(b, "applied")
             /\ UNCHANGED <<next, ids, tagCache, categoryCache, attachedSet>>
    <2>1. Control(b) /\ at'[b] = "applied" /\ config' = config
      BY <1>3, GoesTo DEF Places, Control
    <2>2. DOMAIN items = {}
      BY <1>3
    <2>3. ResolvedAll(b)'
      BY <1>1, <1>3, <2>1, <2>2 DEF ResolvedAll, ResolvedBefore
    <2>4. AttachedFirst(b, Len(ids[b]))'
      BY <1>1, <1>3, <2>1 DEF AttachedFirst
    <2>5. BuildInv(b)'
      BY <2>1, <2>3, <2>4 DEF BuildInv, ResolutionInv, AttachInv, Resolving
    <2>6. QED BY <1>1, <1>3, <2>1, <2>5, SameData DEF Kept
  <1>4. CASE /\ ValidConfig(config[b]) /\ GoTo(b, First(b, 1))
             /\ UNCHANGED <<next, ids, tagCache, categoryCache, attachedSet>>
    <2>1. First(b, 1) \in Places
      <3>1. 1 \in Nat \ {0}
        OBVIOUS
      <3>2. QED BY <3>1, FirstPlace DEF Places, Operations
    <2>2. Control(b) /\ at'[b] = First(b, 1) /\ config' = config
      BY <1>4, <2>1, GoesTo DEF Control
    <2>3. next'[b] = 1
      BY <1>1, <1>4
    <2>4. AttachedFirst(b, 0)' /\ ResolvedBefore(b, next[b])'
      BY <1>2, <1>4, <2>2
    <2>5. BuildInv(b)'
      BY <1>4, <2>2, <2>3, <2>4, TurnKeeps
    <2>6. QED BY <1>1, <1>4, <2>2, <2>5, SameData DEF Kept
  <1>5. CASE Fails(b, "invalid")
    BY <1>1, <1>5, FailsFor, FailureKeeps, SameData DEF Kept, Reasons
  <1>6. QED BY <1>3, <1>4, <1>5 DEF Start

\* An item is resolved, and the caches may have changed.
LEMMA ResolvedKept ==
  ASSUME TypeOK, NEW b \in Builds, BuildInv(b), at[b] \in Resolving,
         NEW id \in Ids, IdsFor(Item(b)) = {id}, Resolved(b, id),
         UNCHANGED <<categoryCache, attachedSet, attached>>
  PROVE  Kept(b)
  <1>1. Control(b) /\ BuildInv(b)'
    BY ResolvesOne, ResolvedKeeps
  <1>2. /\ next' = [next EXCEPT ![b] = next[b] + 1] /\ next' \in [Builds -> Nat \ {0}]
        /\ ids' \in [Builds -> Seq(Ids)] /\ tagCache' \in [Builds -> SUBSET Ids]
        /\ \A o \in Builds \ {b} : ids'[o] = ids[o]
    BY ResolvesOne
  <1>3. \A o \in Builds \ {b} : next'[o] = next[o]
    BY <1>2, Counters
  <1>4. categoryCache \in [Builds -> SUBSET Associable] /\ attachedSet \in [Builds -> SUBSET Ids]
        /\ attached \in [Builds -> SUBSET Ids]
    BY DEF TypeOK
  <1>5. QED BY <1>1, <1>2, <1>3, <1>4 DEF Kept, Data

LEMMA GetTagByIDKept ==
  ASSUME TypeOK, NEW b \in Builds, BuildInv(b), GetTagByID(b)
  PROVE  Kept(b)
  <1>1. at[b] = "lookup" /\ attached' = attached
    BY DEF GetTagByID, server
  <1>2. CASE /\ Item(b).id \in tagCache[b] \cup tags /\ Resolved(b, Item(b).id)
             /\ UNCHANGED <<categoryCache, attachedSet>>
    <2>1. Item(b).id \in Ids /\ Item(b).id # ""
      BY <1>1, <1>2 DEF TypeOK, BuildInv, ResolutionInv, Resolving
    <2>2. IdsFor(Item(b)) = {Item(b).id}
      BY <2>1, IdOfItem, OneId
    <2>3. QED BY <1>1, <1>2, <2>1, <2>2, ResolvedKept DEF Resolving
  <1>3. CASE Fails(b, "not found")
    BY <1>1, <1>3, FailsFor, FailureKeeps, SameData DEF Kept, Reasons
  <1>4. QED BY <1>2, <1>3 DEF GetTagByID

LEMMA GetCategoryByNameKept ==
  ASSUME TypeOK, NEW b \in Builds, BuildInv(b), GetCategoryByName(b)
  PROVE  Kept(b)
  <1> DEFINE c == Item(b).category
  <1>1. at[b] = "category" /\ attached' = attached
    BY DEF GetCategoryByName, server
  <1>2. CASE /\ c \in Associable /\ categoryCache' = [categoryCache EXCEPT ![b] = @ \cup {c}]
             /\ GoTo(b, "find") /\ UNCHANGED <<next, ids, tagCache, attachedSet>>
    <2>1. Control(b) /\ at'[b] = "find" /\ config' = config
      BY <1>2, GoesTo DEF Control, Places, Operations
    <2>2. BuildInv(b)'
      BY <1>1, <1>2, <2>1, SameKeeps DEF Resolving
    <2>3. categoryCache' \in [Builds -> SUBSET Associable]
      BY <1>2 DEF TypeOK
    <2>4. Data(b)
      BY <1>1, <1>2, <2>3 DEF TypeOK, Data
    <2>5. QED BY <2>1, <2>2, <2>4 DEF Kept
  <1>3. \A why \in {"not associable", "not found", "skipped"} : Fails(b, why) => Kept(b)
    BY <1>1, FailsFor, FailureKeeps, SameData DEF Kept, Reasons
  <1>4. QED BY <1>2, <1>3 DEF GetCategoryByName

LEMMA FindTagKept ==
  ASSUME TypeOK, NEW b \in Builds, BuildInv(b), FindTag(b)
  PROVE  Kept(b)
  <1>1. at[b] = "find" /\ UNCHANGED <<attached, categoryCache, attachedSet>>
    BY DEF FindTag, server
  <1>2. CASE \E i \in IdsFor(Item(b)) \cap tags : Resolved(b, i)
    BY <1>1, <1>2, OneId, ResolvedKept DEF Resolving
  <1>3. CASE GoTo(b, "create") /\ UNCHANGED <<next, ids, tagCache>>
    <2>1. Control(b) /\ at'[b] = "create" /\ config' = config
      BY <1>3, GoesTo DEF Control, Places, Operations
    <2>2. QED BY <1>1, <1>3, <2>1, SameKeeps, SameData DEF Kept, Resolving
  <1>4. QED BY <1>2, <1>3 DEF FindTag

LEMMA CreateTagKept ==
  ASSUME TypeOK, NEW b \in Builds, BuildInv(b), CreateTag(b)
  PROVE  Kept(b)
  <1>1. at[b] = "create" /\ attached' = attached
    BY DEF CreateTag
  <1>2. \A why \in {"already exists", "permanent"} : Fails(b, why) => Kept(b)
    BY <1>1, FailsFor, FailureKeeps, SameData DEF Kept, Reasons
  <1>3. Retries(b) => Kept(b)
    BY <1>1, RetriesOrFails, RetryKeeps, SameData DEF Kept
  <1>4. \A i \in IdsFor(Item(b)) :
          Resolved(b, i) /\ UNCHANGED <<categoryCache, attachedSet>> => Kept(b)
    BY <1>1, OneId, ResolvedKept DEF Resolving
  <1>5. QED BY <1>2, <1>3, <1>4 DEF CreateTag
LEMMA ListAttachedTagsKept ==
  ASSUME TypeOK, NEW b \in Builds, BuildInv(b), ListAttachedTags(b)
  PROVE  Kept(b)
  <1>1. at[b] = "list" /\ UNCHANGED <<ids, tagCache, categoryCache, attached>>
    BY DEF ListAttachedTags, server
  <1>2. Control(b) /\ at'[b] = "attach" /\ config' = config
    BY GoesTo DEF ListAttachedTags, Control, Places, Operations
  <1>3. /\ attachedSet' \in [Builds -> SUBSET Ids] /\ next' = [next EXCEPT ![b] = 1]
    BY DEF ListAttachedTags, TypeOK
  <1>4. next' \in [Builds -> Nat \ {0}] /\ next'[b] = 1 /\ \A o \in Builds \ {b} : next'[o] = next[o]
    BY <1>3, Counters
  <1>5. Data(b)
    BY <1>1, <1>3, <1>4 DEF TypeOK, Data
  <1>6. ValidConfig(config[b]) /\ ResolvedAll(b) /\ AttachedFirst(b, 0)
    BY <1>1 DEF BuildInv, ResolutionInv, AttachInv
  <1>7. ResolvedAll(b)' /\ AttachedFirst(b, 0)'
    BY <1>1, <1>2, <1>6 DEF ResolvedAll, ResolvedBefore, AttachedFirst
  <1>8. AttachedFirst(b, next[b] - 1)'
    BY <1>4, <1>7
  <1>9. BuildInv(b)'
    BY <1>2, <1>6, <1>7, <1>8 DEF BuildInv, ResolutionInv, AttachInv, Resolving
  <1>10. QED BY <1>2, <1>5, <1>9 DEF Kept

\* The next tag is attached, or was already.
LEMMA AttachesNext ==
  ASSUME TypeOK, NEW b \in Builds, AttachInv(b), at[b] = "attach", next[b] <= Len(ids[b]),
         attached' = [attached EXCEPT ![b] = @ \cup {ids[b][next[b]]}]
  PROVE  /\ next[b] \in 0 .. Len(ids[b])
         /\ attached'[b] = config[b].attached \cup {ids[b][i] : i \in 1 .. next[b]}
         /\ attached' \in [Builds -> SUBSET Ids]
         /\ \A o \in Builds \ {b} : attached'[o] = attached[o]
  <1>1. next[b] \in Nat \ {0} /\ Len(ids[b]) \in Nat /\ next[b] \in DOMAIN ids[b]
        /\ ids[b][next[b]] \in Ids
    BY Counters
  <1>2. attached'[b] = attached[b] \cup {ids[b][next[b]]}
        /\ attached' \in [Builds -> SUBSET Ids]
        /\ \A o \in Builds \ {b} : attached'[o] = attached[o]
    BY <1>1, Counters
  <1>3. \A i : i \in 1 .. next[b] <=> i \in 1 .. next[b] - 1 \/ i = next[b]
    BY <1>1
  <1>4. \/ attached[b] = config[b].attached \cup {ids[b][i] : i \in 1 .. next[b] - 1}
        \/ attached[b] = config[b].attached \cup {ids[b][i] : i \in 1 .. next[b]}
    BY DEF AttachInv, AttachedFirst
  <1>5. attached'[b] = config[b].attached \cup {ids[b][i] : i \in 1 .. next[b]}
    BY <1>2, <1>3, <1>4
  <1>6. QED BY <1>1, <1>2, <1>5

LEMMA AttachTagKept ==
  ASSUME TypeOK, NEW b \in Builds, BuildInv(b), AttachTag(b)
  PROVE  Kept(b)
  <1> DEFINE i == ids[b][next[b]]
  <1>1. /\ at[b] = "attach" /\ next[b] <= Len(ids[b]) /\ ValidConfig(config[b]) /\ ResolvedAll(b)
        /\ attached' = [attached EXCEPT ![b] = @ \cup {i}]
    BY DEF AttachTag, BuildInv, ResolutionInv
  <1>2. /\ next[b] \in 0 .. Len(ids[b])
        /\ attached'[b] = config[b].attached \cup {ids[b][k] : k \in 1 .. next[b]}
        /\ attached' \in [Builds -> SUBSET Ids]
        /\ \A o \in Builds \ {b} : attached'[o] = attached[o]
    BY <1>1, AttachesNext DEF BuildInv
  <1>3. ASSUME config' = config, ids' = ids
        PROVE  ResolvedAll(b)' /\ \A n : n = next[b] => AttachedFirst(b, n)'
    BY <1>1, <1>2, <1>3 DEF ResolvedAll, ResolvedBefore, AttachedFirst
  <1>4. CASE /\ next' = [next EXCEPT ![b] = @ + 1] /\ GoTo(b, "attach")
             /\ UNCHANGED <<ids, tagCache, categoryCache, attachedSet>>
    <2>1. Control(b) /\ at'[b] = "attach" /\ config' = config
      BY <1>4, GoesTo DEF Control, Places, Operations
    <2>2. /\ next' \in [Builds -> Nat \ {0}] /\ next'[b] - 1 = next[b]
          /\ \A o \in Builds \ {b} : next'[o] = next[o]
      <3>1. next \in [Builds -> Nat \ {0}] /\ next[b] \in Nat /\ next[b] + 1 \in Nat \ {0}
        BY Counters
      <3>2. next' = [next EXCEPT ![b] = next[b] + 1]
        BY <1>4
      <3>3. next'[b] = next[b] + 1
        BY <3>1, <3>2
      <3>4. QED BY <3>1, <3>2, <3>3
    <2>3. Data(b)
      BY <1>2, <1>4, <2>2 DEF TypeOK, Data
    <2>4. AttachedFirst(b, next[b] - 1)' /\ ResolvedAll(b)'
      BY <1>3, <1>4, <2>1, <2>2
    <2>5. BuildInv(b)'
      BY <1>1, <2>1, <2>4 DEF BuildInv, ResolutionInv, AttachInv, Resolving
    <2>6. QED BY <2>1, <2>3, <2>5 DEF Kept
  <1>5. CASE Retries(b)
    <2>1. /\ Control(b) /\ at'[b] \in {"attach", "failed"} /\ config' = config
          /\ UNCHANGED <<next, ids, tagCache, categoryCache, attachedSet>>
      BY <1>1, <1>5, RetriesOrFails DEF Control
    <2>2. Data(b)
      BY <1>2, <2>1 DEF TypeOK, Data
    <2>3. AttachedFirst(b, next[b])' /\ ResolvedAll(b)' /\ next'[b] \in 0 .. Len(ids'[b])
      BY <1>2, <1>3, <2>1
    <2>4. BuildInv(b)'
      BY <1>1, <2>1, <2>3 DEF BuildInv, ResolutionInv, AttachInv, Resolving
    <2>5. QED BY <2>1, <2>2, <2>4 DEF Kept
  <1>6. QED BY <1>4, <1>5 DEF AttachTag

LEMMA FinishKept ==
  ASSUME TypeOK, NEW b \in Builds, BuildInv(b), Finish(b)
  PROVE  Kept(b)
  <1>1. /\ at[b] = "attach" /\ next[b] > Len(ids[b])
        /\ UNCHANGED <<next, ids, tagCache, categoryCache, attachedSet, attached>>
    BY DEF Finish, server
  <1>2. Control(b) /\ at'[b] = "applied" /\ config' = config
    BY GoesTo DEF Finish, Control, Places
  <1>3. AttachedFirst(b, Len(ids[b]))
    <2>1. AttachedFirst(b, next[b] - 1) \/ AttachedFirst(b, next[b])
      BY <1>1 DEF BuildInv, AttachInv
    <2>2. \A n : AttachedFirst(b, n) /\ n >= Len(ids[b]) => n = Len(ids[b])
      BY IdsSequence DEF AttachedFirst
    <2>3. next[b] - 1 >= Len(ids[b]) /\ next[b] >= Len(ids[b])
      BY <1>1, Counters
    <2>4. QED BY <2>1, <2>2, <2>3
  <1>4. AttachedFirst(b, Len(ids[b]))' /\ ResolvedAll(b)'
    BY <1>1, <1>2, <1>3 DEF BuildInv, ResolutionInv, ResolvedAll, ResolvedBefore, AttachedFirst
  <1>5. BuildInv(b)'
    BY <1>2, <1>4 DEF BuildInv, ResolutionInv, AttachInv, Resolving
  <1>6. QED BY <1>1, <1>2, <1>5, SameData DEF Kept

LEMMA StepKept ==
  ASSUME TypeOK, NEW b \in Builds, BuildInv(b), Step(b)
  PROVE  Kept(b)
  BY StartKept, GetTagByIDKept, GetCategoryByNameKept, FindTagKept, CreateTagKept,
     ListAttachedTagsKept, AttachTagKept, FinishKept, ErrorKept DEF Step

\* A tag is created by a build that asks for it, and none is deleted.
LEMMA TagsCreated ==
  ASSUME TypeOK, NEW b \in Builds, BuildInv(b), Step(b)
  PROVE  /\ tags' \subseteq Ids
         /\ \A i \in tags' \ tags : ValidConfig(config[b]) /\ i \in Wanted(config[b])
  <1>1. CASE CreateTag(b)
    <2>1. PICK i \in IdsFor(Item(b)) : tags' \in {tags, tags \cup {i}}
      BY <1>1 DEF CreateTag
    <2>2. /\ ValidConfig(config[b]) /\ next[b] \in DOMAIN Items(config[b])
          /\ Item(b) = Items(config[b])[next[b]]
      BY <1>1 DEF CreateTag, BuildInv, ResolutionInv, Resolving, Item
    <2>3. i \in Ids /\ i \in Wanted(config[b])
      BY <2>2, OneId, WantedOf
    <2>4. QED BY <2>1, <2>2, <2>3 DEF TypeOK
  <1>2. CASE ~CreateTag(b)
    <2>1. tags' = tags
      BY <1>2 DEF Step, Start, GetTagByID, GetCategoryByName, FindTag, ListAttachedTags,
                  AttachTag, Finish, Error, server
    <2>2. QED BY <2>1 DEF TypeOK
  <1>3. QED BY <1>1, <1>2
-----------------------------------------------------------------------------
(* The invariant *)

LEMMA InitIInv == Init => IInv
  <1> SUFFICES ASSUME Init PROVE IInv
    OBVIOUS
  <1>1. \A b \in Builds : config[b] \in Configs /\ config[b].attached \subseteq Ids
    BY ConfigsAssumption, TagsAssumption DEF Init
  <1>2. TypeOK
    <2>1. next \in [Builds -> Nat \ {0}] /\ attempt \in [Builds -> 1 .. MaxAttempts]
      BY AttemptsStart DEF Init
    <2>2. << >> \in Seq(Ids)
      OBVIOUS
    <2>3. ids \in [Builds -> Seq(Ids)]
      BY <2>2 DEF Init
    <2>4. config \in [Builds -> Configs] /\ at \in [Builds -> Places] /\ failure \in [Builds -> Reasons]
      BY DEF Init, Places, Reasons
    <2>5. /\ tagCache \in [Builds -> SUBSET Ids] /\ categoryCache \in [Builds -> SUBSET Associable]
          /\ attachedSet \in [Builds -> SUBSET Ids] /\ attached \in [Builds -> SUBSET Ids]
      BY <1>1 DEF Init
    <2>6. tags \subseteq Ids
      BY TagsAssumption DEF Init
    <2>7. QED BY Zenon, <2>1, <2>3, <2>4, <2>5, <2>6 DEF TypeOK, Places, Reasons
  <1>3. ASSUME NEW b \in Builds PROVE ResolutionInv(b) /\ AttachInv(b)
    <2>1. /\ at[b] = "validate" /\ next[b] = 1 /\ ids[b] = << >> /\ Len(ids[b]) = 0
          /\ attached[b] = config[b].attached
      BY DEF Init
    <2>2. AttachedFirst(b, 0)
      BY <2>1 DEF AttachedFirst
    <2>3. QED BY <2>1, <2>2 DEF ResolutionInv, AttachInv, Resolving
  <1>4. CreatedInv
    BY DEF Init, CreatedInv
  <1>5. QED BY <1>2, <1>3, <1>4 DEF IInv

\* What is left alone is as before.
LEMMA OthersKept ==
  ASSUME NEW b \in Builds, Kept(b), NEW o \in Builds \ {b}, BuildInv(o)
  PROVE  BuildInv(o)'
  <1>1. /\ config' = config /\ at'[o] = at[o] /\ next'[o] = next[o]
        /\ ids'[o] = ids[o] /\ attached'[o] = attached[o]
    BY DEF Kept, Control, Data
  <1>2. QED BY <1>1, SameKeeps

LEMMA NextIInv == IInv /\ [Next]_vars => IInv'
  <1> SUFFICES ASSUME IInv, [Next]_vars PROVE IInv'
    OBVIOUS
  <1>1. CASE UNCHANGED vars
    <2>1. /\ config' = config /\ at' = at /\ next' = next /\ attempt' = attempt /\ ids' = ids
          /\ tagCache' = tagCache /\ categoryCache' = categoryCache /\ attachedSet' = attachedSet
          /\ failure' = failure /\ tags' = tags /\ attached' = attached
      BY <1>1 DEF vars, build, server
    <2>2. TypeOK'
      BY Zenon, <2>1 DEF IInv, TypeOK
    <2>3. \A b \in Builds : BuildInv(b)'
      BY <2>1, SameKeeps DEF IInv, BuildInv
    <2>4. CreatedInv'
      BY <2>1 DEF IInv, CreatedInv
    <2>5. QED BY <2>2, <2>3, <2>4 DEF IInv, BuildInv
  <1>2. ASSUME NEW b \in Builds, Step(b) PROVE IInv'
    <2>1. TypeOK /\ CreatedInv /\ \A o \in Builds : BuildInv(o)
      BY DEF IInv, BuildInv
    <2>2. Kept(b)
      BY <1>2, <2>1, StepKept
    <2>3. /\ config' = config /\ tags' \subseteq Ids
          /\ \A i \in tags' \ tags : ValidConfig(config[b]) /\ i \in Wanted(config[b])
      BY <1>2, <2>1, <2>2, TagsCreated DEF Kept, Control
    <2>4. TypeOK'
      BY Zenon, <2>1, <2>2, <2>3 DEF TypeOK, Kept, Control, Data, Places, Reasons
    <2>5. \A o \in Builds : BuildInv(o)'
      BY <2>1, <2>2, OthersKept DEF Kept
    <2>6. CreatedInv'
      BY <2>1, <2>3 DEF CreatedInv
    <2>7. QED BY <2>4, <2>5, <2>6 DEF IInv, BuildInv
  <1>3. QED BY <1>1, <1>2 DEF Next, Terminated

LEMMA Invariance == Spec => []IInv
  BY InitIInv, NextIInv, PTL DEF Spec

-----------------------------------------------------------------------------
(* The properties *)

\* The variables keep their types; no operation is attempted more than
\* MaxAttempts times, and a category that is not associable is never cached.
THEOREM TypeCorrect == Spec => []TypeOK
  <1>1. IInv => TypeOK
    BY DEF IInv
  <1>2. QED BY Invariance, <1>1, PTL

\* Success means that exactly the wanted tags were added, an error that the first
\* of the resolved ones were, and every created tag is asked for by a valid
\* configuration: for any number of builds that share the tags of the server.
THEOREM WantedIsApplied == Spec => []AppliesWhatIsWanted
  <1>1. IInv => AppliesWhatIsWanted
    <2> SUFFICES ASSUME IInv PROVE AppliesWhatIsWanted
      OBVIOUS
    <2>1. ASSUME NEW b \in Builds, at[b] = "applied"
          PROVE  /\ attached[b] = config[b].attached \cup Wanted(config[b])
                 /\ \A i \in DOMAIN Items(config[b]) : IdsFor(Items(config[b])[i]) # {}
      <3>1. ResolvedAll(b) /\ AttachedFirst(b, Len(ids[b]))
        BY <2>1 DEF IInv, ResolutionInv, AttachInv
      <3>2. /\ Wanted(config[b]) = {ids[b][k] : k \in DOMAIN ids[b]}
            /\ \A i \in DOMAIN Items(config[b]) : IdsFor(Items(config[b])[i]) # {}
        BY <3>1, AllIsWanted DEF IInv
      <3>3. DOMAIN ids[b] = 1 .. Len(ids[b])
        BY IdsSequence DEF IInv
      <3>4. QED BY <3>1, <3>2, <3>3 DEF AttachedFirst
    <2>2. ASSUME NEW b \in Builds
          PROVE  \E n \in 0 .. Len(ids[b]) :
                   attached[b] = config[b].attached \cup {ids[b][i] : i \in 1 .. n}
      BY SomeAttached DEF IInv, AttachedFirst
    <2>3. CreatedInv
      BY DEF IInv
    <2>4. QED BY <2>1, <2>2, <2>3 DEF AppliesWhatIsWanted, CreatedInv
  <1>2. QED BY Invariance, <1>1, PTL

\* Nothing is attached to a machine by a step before all its tags are resolved.
THEOREM ResolvedFirst == Spec => ResolvesBeforeAttaching
  <1> DEFINE Known == \A b \in Builds : attached'[b] # attached[b] =>
                           Wanted(config[b]) = {ids[b][i] : i \in DOMAIN ids[b]}
  <1>1. IInv /\ [Next]_vars => [Known]_vars
    <2> SUFFICES ASSUME IInv, Next, NEW b \in Builds, attached'[b] # attached[b]
                 PROVE  Wanted(config[b]) = {ids[b][i] : i \in DOMAIN ids[b]}
      OBVIOUS
    <2>1. PICK o \in Builds : Step(o)
      BY DEF Next, Terminated, vars, server
    <2>2. TypeOK /\ BuildInv(o)
      BY DEF IInv, BuildInv
    <2>3. o = b
      BY <2>1, <2>2, StepKept DEF Kept, Data
    <2>4. AttachTag(b)
      BY <2>1, <2>3 DEF Step, Start, GetTagByID, GetCategoryByName, FindTag, CreateTag,
                        ListAttachedTags, Finish, Error, server
    <2>5. ResolvedAll(b)
      BY <2>4 DEF AttachTag, IInv, ResolutionInv
    <2>6. QED BY <2>2, <2>5, AllIsWanted
  <1>2. QED BY Invariance, <1>1, PTL DEF Spec, ResolvesBeforeAttaching
=============================================================================
