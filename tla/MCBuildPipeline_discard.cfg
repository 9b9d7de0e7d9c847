SPECIFICATION Spec
CONSTANT Configs <- OneOfEach
INVARIANT ArtifactDestroysMachine
