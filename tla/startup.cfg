SPECIFICATION Spec
CONSTANTS
    Texts = {"empty", "junk", "zero", "one", "nan", "inf", "1e10"}
    ModelIds = {"m", "n"}
    ProfileARNs = {"arn1", "arn2"}
    MaxEntries = 2
    MaxFaults = 2
INVARIANTS
    TypeOK
    MappedModelsAttributed
PROPERTIES
    PublishedHasAdapter
    SoundDeploymentServes
    AcceptedSettingsWork
