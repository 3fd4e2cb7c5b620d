SPECIFICATION KSpec
CONSTANTS
    TimerSkippable <- MCTimerSkippable
    PrioritySkippable <- MCPrioritySkippable
    SpuriousIn <- MCSpuriousIn
    ModesSkippable <- MCModesSkippable
    FpuProcessors <- MCFpuProcessors
    FpuSkippable <- MCFpuSkippable
INVARIANTS  CasesLeaveNothing
PROPERTIES Finishes
CHECK_DEADLOCK FALSE
