------------------------------- MODULE MCExport -------------------------------
(***************************************************************************)
(* A machine and configurations for checking Export.                        *)
(***************************************************************************)
EXTENDS Export

MachineFiles == <<"disk1", "nvram", "disk2">>
MachineDisks == {"disk1", "disk2"}
AllConfigs == ConfigType
=============================================================================
