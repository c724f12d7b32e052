SPECIFICATION Spec
CONSTANTS
    Millis <- MCMillis
    DurationWord <- MCDurationWord
    Alphabet <- MCAlphabet
    FileAt <- MCFileAt
    FlowOf <- MCFlowOf
    MaxDepth = 3
    Exports <- MCExports
    Digraphs <- MCDigraphs
INVARIANTS ExportComesBack MigrationValidates PassedMeansSameGraph ConditionsKeepMeaning FlatWays
