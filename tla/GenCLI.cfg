SPECIFICATION Spec
CONSTANTS
    Invocations <- SomeInvocations
    Names <- SomeNames
    Packages <- JavaThenKotlin
    Disks <- SomeDisks
    MaxRuns = 3
    GenError = GenError
    NilData = NilData
    Torn = Torn
INVARIANT SuccessIsComplete RefusalLeavesTarget
PROPERTY NeverThroughLink
CHECK_DEADLOCK FALSE
