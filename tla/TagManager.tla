------------------------------ MODULE TagManager ------------------------------
(***************************************************************************)
(* Builds that tag their machines.  Each resolves the tags of its           *)
(* configuration one after the other, creating those that do not exist, and *)
(* then attaches them.  Every operation is retried; the builds share the    *)
(* tags of the server and nothing else.                                     *)
(*                                                                          *)
(* An operation may meet a transient error, which withRetry retries, or a   *)
(* permanent one.  A request that changes something may take effect and     *)
(* report a transient error.  Nobody deletes tags.                          *)
(***************************************************************************)
EXTENDS Naturals, Sequences, SequencesExt

CONSTANTS
  Builds,
  TagOf,        \* the tag of each ID: a category and a name
  Existing,     \* IDs of the tags that exist before the builds
  Categories,   \* categories that exist
  Associable,   \* categories that are associable with virtual machines
  WellFormed,   \* IDs with the format of a tag URN
  Configs,      \* configurations, with the tags the machine already has
  MaxAttempts,  \* RetryConfig.MaxAttempts
  Faults        \* the kinds of errors the server may answer with

Ids == DOMAIN TagOf

ASSUME TagsAssumption ==
  /\ \A i, j \in Ids : TagOf[i] = TagOf[j] => i = j
  /\ Existing \subseteq Ids /\ Associable \subseteq Categories
  /\ Ids \subseteq WellFormed /\ "" \notin WellFormed

\* What a block of tags gives; a missing attribute is empty.
ItemType == [id : STRING, category : STRING, name : STRING]

ASSUME ConfigsAssumption ==
  \A c \in Configs :
    /\ c.tags \in Seq(STRING) /\ c.tag \in Seq(ItemType)
    /\ c.attached \subseteq Existing

ASSUME RetryAssumption ==
  /\ MaxAttempts \in Nat \ {0}
  /\ Faults \subseteq {"transient", "permanent"}

\* The wanted tags of a configuration: first the list of IDs, then the blocks.
Items(c) ==
  [i \in DOMAIN c.tags |-> [id |-> c.tags[i], category |-> "", name |-> ""]] \o c.tag

\* ValidateConfig: a well-formed ID or a category and a name, and none twice.
\* (Its key for a pair is unambiguous as long as no name has a colon.)
ValidConfig(c) ==
  LET items == Items(c)
      ids == SelectSeq(items, LAMBDA t : t.id # "")
      pairs == SelectSeq(items, LAMBDA t : t.id = "")
  IN /\ \A t \in {items[i] : i \in DOMAIN items} :
          \/ t.id \in WellFormed /\ t.category = "" /\ t.name = ""
          \/ t.id = "" /\ t.category # "" /\ t.name # ""
     /\ IsInjective(ids) /\ IsInjective(pairs)

\* The ID of the tag an item asks for, if there is or can be one.
IdsFor(t) ==
  IF t.id # "" THEN {t.id} \cap Ids
  ELSE {i \in Ids : TagOf[i] = [category |-> t.category, name |-> t.name]}

Wanted(c) == UNION {IdsFor(Items(c)[i]) : i \in DOMAIN Items(c)}

VARIABLES
  config,      \* per build: its configuration
  at,          \* per build: the operation it is at
  next,        \* per build: index of the item to resolve or of the tag to attach
  attempt,     \* per build: the attempt of withRetry, from 1
  ids,         \* per build: resolvedIDs
  tagCache,    \* per build: IDs of the tags it has looked up or created
  categoryCache, \* per build: names of the categories it has looked up
  attachedSet, \* per build: the tags that were attached when it listed them
  failure,     \* per build: why it failed
  tags,        \* IDs of the tags that exist
  attached     \* per build: IDs attached to its machine

server == <<tags, attached>>
build == <<config, at, next, attempt, ids, tagCache, categoryCache, attachedSet,
           failure>>
vars == <<build, server>>

Operations == {"lookup", "category", "find", "create", "list", "attach"}

Init ==
  /\ config \in [Builds -> Configs]
  /\ at = [b \in Builds |-> "validate"]
  /\ next = [b \in Builds |-> 1]
  /\ attempt = [b \in Builds |-> 1]
  /\ ids = [b \in Builds |-> << >>]
  /\ tagCache = [b \in Builds |-> {}]
  /\ categoryCache = [b \in Builds |-> {}]
  /\ attachedSet = [b \in Builds |-> {}]
  /\ failure = [b \in Builds |-> "none"]
  /\ tags = Existing
  /\ attached = [b \in Builds |-> config[b].attached]

-----------------------------------------------------------------------------
(* How an operation ends *)

Item(b) == Items(config[b])[next[b]]

GoTo(b, place) ==
  /\ at' = [at EXCEPT ![b] = place]
  /\ attempt' = [attempt EXCEPT ![b] = 1]
  /\ UNCHANGED <<config, failure>>

Fails(b, why) ==
  /\ at' = [at EXCEPT ![b] = "failed"]
  /\ failure' = [failure EXCEPT ![b] = why]
  /\ attempt' = [attempt EXCEPT ![b] = 1]
  /\ UNCHANGED <<config, next, ids, tagCache, categoryCache, attachedSet>>

\* Mutant: the last attempt is followed by a first one.
MutantRetries(b) ==
  /\ attempt' = [attempt EXCEPT ![b] = IF @ < MaxAttempts THEN @ + 1 ELSE 1]
  /\ UNCHANGED <<config, at, next, ids, tagCache, categoryCache, attachedSet, failure>>

\* Mutant: there is one attempt more.
MutantRetriesMore(b) ==
  \/ /\ attempt[b] <= MaxAttempts
     /\ attempt' = [attempt EXCEPT ![b] = @ + 1]
     /\ UNCHANGED <<config, at, next, ids, tagCache, categoryCache, attachedSet,
                    failure>>
  \/ attempt[b] > MaxAttempts /\ Fails(b, "exhausted")

\* withRetry after a transient error: another attempt, unless it was the last or
\* the context is cancelled during the delay.
Retries(b) ==
  \/ /\ attempt[b] < MaxAttempts
     /\ attempt' = [attempt EXCEPT ![b] = @ + 1]
     /\ UNCHANGED <<config, at, next, ids, tagCache, categoryCache, attachedSet,
                    failure>>
  \/ attempt[b] < MaxAttempts /\ Fails(b, "interrupted")
  \/ attempt[b] >= MaxAttempts /\ Fails(b, "exhausted")

\* The caches, or the tags that were attached already, spare the request.
NoRequest(b) ==
  \/ at[b] = "lookup" /\ Item(b).id \in tagCache[b]
  \/ at[b] = "category" /\ Item(b).category \in categoryCache[b]
  \/ /\ at[b] = "attach"
     /\ next[b] \in DOMAIN ids[b] => ids[b][next[b]] \in attachedSet[b]

\* A request fails and changes nothing, or a template of an item does not render.
Error(b) ==
  /\ at[b] \in Operations
  /\ \/ "transient" \in Faults /\ ~NoRequest(b) /\ Retries(b)
     \/ "permanent" \in Faults /\ ~NoRequest(b) /\ Fails(b, "permanent")
     \/ /\ "permanent" \in Faults /\ at[b] \in {"lookup", "category"}
        /\ attempt[b] = 1 /\ Fails(b, "template")
  /\ UNCHANGED server

\* Mutant: the last item is left out.
MutantFirst(b, n) ==
  IF n >= Len(Items(config[b])) THEN "list"
  ELSE IF Items(config[b])[n].id # "" THEN "lookup" ELSE "category"

\* The place of the first operation for the item with index n.
First(b, n) ==
  IF n > Len(Items(config[b])) THEN "list"
  ELSE IF Items(config[b])[n].id # "" THEN "lookup" ELSE "category"

\* The item is resolved; a tag that is wanted twice is resolved once.
Resolved(b, id) ==
  /\ ids' = [ids EXCEPT ![b] = IF Contains(@, id) THEN @ ELSE Append(@, id)]
  /\ next' = [next EXCEPT ![b] = @ + 1]
  /\ tagCache' = [tagCache EXCEPT ![b] = @ \cup {id}]
  /\ GoTo(b, First(b, next[b] + 1))

-----------------------------------------------------------------------------
(* StepApplyTags.Run and ResolveTagIDs *)

\* Without tags the step does nothing.
Start(b) ==
  /\ at[b] = "validate"
  /\ \/ /\ Items(config[b]) = << >>
        /\ GoTo(b, "applied")
        /\ UNCHANGED <<next, ids, tagCache, categoryCache, attachedSet>>
     \/ /\ Items(config[b]) # << >> /\ ValidConfig(config[b])
        /\ GoTo(b, First(b, 1))
        /\ UNCHANGED <<next, ids, tagCache, categoryCache, attachedSet>>
     \/ ~ValidConfig(config[b]) /\ Fails(b, "invalid")
  /\ UNCHANGED server

\* A tag in the cache is not looked up again.
GetTagByID(b) ==
  /\ at[b] = "lookup"
  /\ \/ /\ Item(b).id \in tagCache[b] \cup tags
        /\ Resolved(b, Item(b).id)
        /\ UNCHANGED <<categoryCache, attachedSet>>
     \/ Item(b).id \notin tagCache[b] \cup tags /\ Fails(b, "not found")
  /\ UNCHANGED server

\* The categories are read one by one, and one that cannot be read is skipped;
\* that none has the name is not retried.
GetCategoryByName(b) ==
  /\ at[b] = "category"
  /\ LET c == Item(b).category
     IN \/ /\ c \in Associable
           /\ categoryCache' = [categoryCache EXCEPT ![b] = @ \cup {c}]
           /\ GoTo(b, "find")
           /\ UNCHANGED <<next, ids, tagCache, attachedSet>>
        \/ c \in Categories \ Associable /\ Fails(b, "not associable")
        \/ c \notin Categories /\ Fails(b, "not found")
        \/ /\ c \in Categories \ categoryCache[b] /\ Faults # {}
           /\ Fails(b, "skipped")
  /\ UNCHANGED server

\* The tags of the category are read one by one, and one that cannot be read is
\* skipped, so that a tag that exists may be missed.
FindTag(b) ==
  /\ at[b] = "find"
  /\ \/ \E i \in IdsFor(Item(b)) \cap tags : Resolved(b, i)
     \/ /\ IdsFor(Item(b)) \cap tags = {} \/ Faults # {}
        /\ GoTo(b, "create")
        /\ UNCHANGED <<next, ids, tagCache>>
  /\ UNCHANGED <<categoryCache, attachedSet>>
  /\ UNCHANGED server

\* The server refuses a second tag of the same name, and this is not retried.
\* CreateTag and the GetTag after it are one retried operation: an error of the
\* second leaves a created tag behind.
CreateTag(b) ==
  /\ at[b] = "create"
  /\ \E i \in IdsFor(Item(b)) :
       \/ i \in tags /\ Fails(b, "already exists") /\ UNCHANGED tags
       \/ /\ i \notin tags
          /\ tags' = tags \cup {i}
          /\ \/ Resolved(b, i) /\ UNCHANGED <<categoryCache, attachedSet>>
             \/ "transient" \in Faults /\ Retries(b)
             \/ "permanent" \in Faults /\ Fails(b, "permanent")
  /\ UNCHANGED attached

-----------------------------------------------------------------------------
(* ApplyTags, after the resolution *)

ListAttachedTags(b) ==
  /\ at[b] = "list"
  /\ attachedSet' = [attachedSet EXCEPT ![b] = attached[b]]
  /\ next' = [next EXCEPT ![b] = 1]
  /\ GoTo(b, "attach")
  /\ UNCHANGED <<ids, tagCache, categoryCache, server>>

\* Mutant: the next tag is attached although the answer was an error.
MutantAttachTag(b) ==
  /\ at[b] = "attach" /\ next[b] <= Len(ids[b])
  /\ attached' = [attached EXCEPT ![b] = @ \cup {ids[b][next[b]]}] \/ UNCHANGED attached
  /\ next' = [next EXCEPT ![b] = @ + 1]
  /\ GoTo(b, "attach")
  /\ UNCHANGED <<ids, tagCache, categoryCache, attachedSet, tags>>

\* One tag, unless the listing has shown it; attaching is idempotent.
AttachTag(b) ==
  /\ at[b] = "attach" /\ next[b] <= Len(ids[b])
  /\ LET i == ids[b][next[b]]
     IN \/ /\ attached' = [attached EXCEPT ![b] = @ \cup {i}]
           /\ next' = [next EXCEPT ![b] = @ + 1]
           /\ GoTo(b, "attach")
           /\ UNCHANGED <<ids, tagCache, categoryCache, attachedSet>>
        \/ /\ i \notin attachedSet[b]
           /\ attached' = [attached EXCEPT ![b] = @ \cup {i}]
           /\ "transient" \in Faults /\ Retries(b)
  /\ UNCHANGED tags

Finish(b) ==
  /\ at[b] = "attach" /\ next[b] > Len(ids[b])
  /\ GoTo(b, "applied")
  /\ UNCHANGED <<next, ids, tagCache, categoryCache, attachedSet, server>>

-----------------------------------------------------------------------------

Ended(b) == at[b] \in {"applied", "failed"}

Terminated == (\A b \in Builds : Ended(b)) /\ UNCHANGED vars

Step(b) ==
  \/ Start(b) \/ GetTagByID(b) \/ GetCategoryByName(b) \/ FindTag(b)
  \/ CreateTag(b) \/ ListAttachedTags(b) \/ AttachTag(b) \/ Finish(b) \/ Error(b)

Next == (\E b \in Builds : Step(b)) \/ Terminated

Spec == Init /\ [][Next]_vars

\* Every operation ends: a request answers or fails, and attempts are counted.
FairSpec == Spec /\ \A b \in Builds : WF_vars(Step(b))

-----------------------------------------------------------------------------
(* Properties *)

\* Type invariant.
TypeOK ==
  /\ config \in [Builds -> Configs]
  /\ at \in [Builds -> Operations \cup {"validate", "applied", "failed"}]
  /\ next \in [Builds -> Nat \ {0}] /\ attempt \in [Builds -> 1 .. MaxAttempts]
  /\ ids \in [Builds -> Seq(Ids)]
  /\ tagCache \in [Builds -> SUBSET Ids] /\ categoryCache \in [Builds -> SUBSET Associable]
  /\ attachedSet \in [Builds -> SUBSET Ids] /\ attached \in [Builds -> SUBSET Ids]
  /\ failure \in [Builds -> {"none", "invalid", "not found", "not associable",
       "template", "skipped", "already exists", "permanent", "exhausted", "interrupted"}]
  /\ tags \subseteq Ids

\* A build that reports success has attached every tag its configuration asks
\* for, and no other, whatever was retried on the way; one that fails leaves the
\* first of the tags it resolved, in their order; and no tag is created that a
\* valid configuration does not ask for by its category and name.
AppliesWhatIsWanted ==
  /\ \A b \in Builds : at[b] = "applied" =>
       /\ attached[b] = config[b].attached \cup Wanted(config[b])
       /\ \A i \in DOMAIN Items(config[b]) : IdsFor(Items(config[b])[i]) # {}
  /\ \A b \in Builds : \E n \in 0 .. Len(ids[b]) :
       attached[b] = config[b].attached \cup {ids[b][i] : i \in 1 .. n}
  /\ \A i \in tags \ Existing : \E b \in Builds :
       ValidConfig(config[b]) /\ i \in Wanted(config[b])

\* A build attaches nothing before it has resolved everything, so that a tag
\* that cannot be resolved leaves the machine as it was.
ResolvesBeforeAttaching ==
  [][ \A b \in Builds : attached'[b] # attached[b] =>
        Wanted(config[b]) = {ids[b][i] : i \in DOMAIN ids[b]} ]_vars

\* Every build applies its tags or fails.
Ends == \A b \in Builds : <>Ended(b)

\* tags_manager.go:373: "List all categories and find by name with retry", and 491:
\* "Tag doesn't exist, create it with retry".  Then transient errors that stay
\* below the limit of the attempts do not fail the build.
TransientErrorsSurvived ==
  \A b \in Builds : failure[b] \notin {"already exists", "skipped"}

\* docs/builders/vsphere-iso.mdx:396: "The plugin will create tags within existing
\* categories".  Then builds that share a new tag all get it.
SharedTagsCreated == \A b \in Builds : failure[b] # "already exists"
=============================================================================
