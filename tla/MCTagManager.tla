----------------------------- MODULE MCTagManager -----------------------------
(***************************************************************************)
(* Servers and configurations for checking TagManager.                      *)
(***************************************************************************)
EXTENDS TagManager

Tag(c, n) == [category |-> c, name |-> n]
ById(i) == [id |-> i, category |-> "", name |-> ""]
ByName(c, n) == [id |-> "", category |-> c, name |-> n]
Config(list, blocks, before) == [tags |-> list, tag |-> blocks, attached |-> before]

\* Two categories with a tag of the same name in each; "site" is not associable
\* and "team" does not exist.
ServerTags == [t1 |-> Tag("os", "new"), t2 |-> Tag("env", "new"), t3 |-> Tag("os", "old")]
OldTags == {"t1"}
ServerCategories == {"os", "env", "site"}
VMCategories == {"os", "env"}
URNs == {"t1", "t2", "t3", "unknown"}

\* A tag asked for twice, by its ID and by its name; tags that two builds create;
\* a tag that is attached already; everything that cannot be resolved.
ValidConfigs ==
  { Config(<<"t1">>, <<ByName("os", "new"), ByName("env", "new")>>, {}),
    Config(<< >>, <<ByName("env", "new"), ByName("os", "old"), ById("t1")>>, {"t1"}),
    Config(<< >>, <<ByName("os", "old"), ByName("team", "new")>>, {}),
    Config(<< >>, <<ByName("env", "new"), ById("unknown")>>, {"t1"}),
    Config(<< >>, <<ByName("site", "new")>>, {}),
    Config(<< >>, << >>, {"t1"}) }

InvalidConfigs ==
  { Config(<<"t1">>, <<ById("t1")>>, {}),
    Config(<< >>, <<ByName("os", "old"), ByName("os", "old")>>, {}),
    Config(<<"not a URN">>, << >>, {}),
    Config(<< >>, <<ByName("os", "")>>, {}) }

AllConfigs == ValidConfigs \cup InvalidConfigs
SharingConfigs == { Config(<< >>, <<ByName("os", "old"), ByName("env", "new")>>, {}) }
=============================================================================
