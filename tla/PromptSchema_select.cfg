CONSTANTS
    None = None
    MaxTables = 1
    RenderTables = 2
    RenderCols = 2
    SlimCols = 1
    MaxTokens = 20
    Reserve = 2
    Glue = 1
    Base = 5
    Catalogues <- MCCatalogues
    ExtraSizes = {0, 9}
    QuestionSizes = {1, 2, 3, 4, 6}
SPECIFICATION PromptSpec
INVARIANTS SelectionIsClosed OnlyRelevantTables PromptFits DroppedOnlyWhenNothingFits
PROPERTIES PromptIsBuilt
CHECK_DEADLOCK FALSE
