CONSTANTS
    PluginLists <- Complete
    FlowPackages <- FlowOnly
    Package <- SomePackages
SPECIFICATION Spec
INVARIANTS OnlyMistakesThrow Bundleable WorkletsCompiled
CHECK_DEADLOCK FALSE
