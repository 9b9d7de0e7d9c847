----------------------------- MODULE MCDeployment -----------------------------
(***************************************************************************)
(* Configurations and worlds for checking Deployment.                       *)
(***************************************************************************)
EXTENDS Deployment, FiniteSetsExt

NoOvf == [url |-> "", path |-> "", username |-> FALSE, password |-> FALSE, skipTlsVerify |-> FALSE]
Url(protocol, credentials, skip) ==
  [url |-> protocol, path |-> "", username |-> credentials, password |-> credentials,
   skipTlsVerify |-> skip]
LocalFile == [NoOvf EXCEPT !.path = "file"]

\* Up to two settings, and the three that depend on one another.
SomeSettings == UNION {kSubset(n, Settings) : n \in 0 .. 2} \cup {{"network", "mac", "vapp"}}

CloneConfigs ==
  [source : {"create", "template", "library"}, force : BOOLEAN, wants : SomeSettings, ovf : {NoOvf}]

\* Proper sources for all settings, all sources for the settings that matter.
OvfConfigs ==
  [source : {"ovf"}, force : BOOLEAN, wants : SomeSettings,
   ovf : {Url("https", TRUE, TRUE), LocalFile}]
  \cup [source : {"ovf"}, force : {TRUE}, wants : {{}, {"option"}}, ovf : OvfSources]

SmallWorld(before, same, item, files, has) ==
  [old |-> before, same |-> same, item |-> item, files |-> files, has |-> has]

Everything == {"networks", "adapter", "disk", "options", "properties", "snapshot"}

SomeWorlds ==
  { SmallWorld("none", FALSE, "ovf", 2, Everything),
    SmallWorld("on", FALSE, "vm-template", 1, {"adapter", "disk"}),
    SmallWorld("template", TRUE, "iso", 1, {"snapshot", "properties"}),
    SmallWorld("off", FALSE, "ovf", 0, {}) }

InvalidSources == [source : {"ovf"}, force : {TRUE}, wants : {{}}, ovf : OvfSources]
OneWorld == { SmallWorld("off", FALSE, "ovf", 1, {"disk"}) }
AllConfigs == CloneConfigs \cup OvfConfigs
=============================================================================
