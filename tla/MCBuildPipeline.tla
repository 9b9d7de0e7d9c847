--------------------------- MODULE MCBuildPipeline ---------------------------
(***************************************************************************)
(* Configurations for checking BuildPipeline with TLC.  Together they set    *)
(* and leave out every option, and put next to each other the options whose  *)
(* steps and clean-ups meet.                                                 *)
(***************************************************************************)
EXTENDS BuildPipeline

Iso(o) == [builder |-> "iso", opts |-> o]
CloneOf(o) == [builder |-> "clone", opts |-> o]

\* An attended installation: media, floppy, a communicator, an import that
\* drops the machine; and a bare one without communicator.
IsoConfigs ==
  { Iso({"communicator", "boot_command", "ip_wait", "http_ip_discover",
         "iso_paths", "cd_files", "floppy_files", "remote_cache_cleanup",
         "reattach_cdroms", "create_snapshot", "content_library",
         "content_library_destroy", "force"}),
    Iso({"communicator", "boot_order", "boot_command", "ssh_key_pair",
         "iso_paths", "cd_files", "create_snapshot", "convert_to_template",
         "export"}),
    Iso({"floppy_files", "floppy_img_path", "iso_paths", "destroy", "export"}),
    Iso({"communicator", "ip_wait", "floppy_img_path", "content_library"}),
    Iso({"content_library", "content_library_destroy", "skip_import"}) }

CloneConfigs ==
  { CloneOf({"communicator", "boot_command", "ip_wait", "http_ip_discover",
             "customize", "iso_paths", "cd_files", "floppy_files",
             "reattach_cdroms", "create_snapshot", "convert_to_template",
             "force"}),
    CloneOf({"communicator", "cd_files", "floppy_files", "floppy_img_path",
             "destroy", "export", "content_library"}),
    CloneOf({"iso_paths", "create_snapshot", "convert_to_template"}),
    CloneOf({"customize", "content_library", "content_library_destroy"}) }

AllConfigs == IsoConfigs \cup CloneConfigs

\* One build of each builder, for the runs that look for a disagreement.
OneOfEach ==
  { Iso({"communicator", "boot_command", "ip_wait", "reattach_cdroms"}),
    CloneOf({"communicator", "boot_command", "ip_wait", "reattach_cdroms"}) }
=============================================================================
