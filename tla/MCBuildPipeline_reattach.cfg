SPECIFICATION Spec
CONSTANT Configs <- OneOfEach
INVARIANT UninterruptedFinalizedOrError
