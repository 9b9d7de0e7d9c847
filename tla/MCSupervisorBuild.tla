-------------------------- MODULE MCSupervisorBuild --------------------------
(***************************************************************************)
(* Configurations and shared namespaces for checking SupervisorBuild.       *)
(***************************************************************************)
EXTENDS SupervisorBuild

With(c, o) == [communicator |-> c, opts |-> o]

\* Every communicator; import, image name, both and neither; every object kept
\* and not kept; with and without publishing.
BuildConfigs ==
  { With("ssh", {"import", "clean_imported_image", "publish_location"}),
    With("ssh", {"import", "image_name", "keep_import_request",
                 "clean_imported_image", "tags"}),
    With("winrm", {"image_name", "publish_location", "keep_input_artifact"}),
    With("winrm", {"import", "keep_import_request", "keep_input_artifact",
                   "publish_location"}),
    With("none", {"image_name"}),
    With("none", {"publish_location"}) }

\* An empty namespace, and namespaces where one of the names is taken.
SharedNamespaces ==
  { {}, {"disk", "secret"}, {"vm"}, {"service"}, {"importRequest"},
    {"consoleRequest"}, {"publishRequest"} }

PublishingConfigs == { With("ssh", {"image_name", "publish_location"}) }
TaggingConfigs == { With("ssh", {"image_name", "tags"}) }
ImportingConfigs == { With("ssh", {"import", "clean_imported_image"}) }
EmptyNamespace == { {} }
TakenPublishRequest == { {"publishRequest"} }
=============================================================================
