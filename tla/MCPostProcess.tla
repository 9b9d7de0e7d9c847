---------------------------- MODULE MCPostProcess ----------------------------
(***************************************************************************)
(* Inventories and configurations for checking PostProcess.                 *)
(***************************************************************************)
EXTENDS PostProcess

\* At most one thing of each kind, the other one also at the template's path.
AllInventories ==
  {i \in [Paths -> {"ours", "old", None}] :
     /\ Cardinality({p \in Paths : i[p] = "ours"}) <= 1 /\ i["target"] # "ours"
     /\ Cardinality({p \in Paths : i[p] = "old"}) <= 1}

\* What a build and a template of an earlier build leave.
UsualInventories ==
  {i \in AllInventories : i["discovered"] = "ours" /\ i["folder"] = "old"}

\* remote and overwrite say nothing where nothing is uploaded.
AllConfigs ==
  {c \in ConfigType : c.artifact # "uploaded" => c.upload.remote = "uploads" /\ ~c.upload.overwrite}

OverrideConfigs == {c \in AllConfigs : c.artifact = "builder" /\ c.template.override /\ ~c.template.snapshot}
=============================================================================
