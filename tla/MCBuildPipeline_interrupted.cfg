SPECIFICATION Spec
CONSTANT Configs <- OneOfEach
INVARIANT FinalizedArtifactOrError
