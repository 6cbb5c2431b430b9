CONSTANTS
    Sources = {"a", "b", "c"}
    Identifiers = {"x", "y"}
    WalletService = TRUE
    Accounts = {"0x1"}
    MaxSize = 2
    FieldValues <- MCFieldValues
    MaxLoads = 1
    Nothing = Nothing
    ParserAnswer <- MCParserAnswer
    FieldEffects <- Effects
    FieldInPlace <- InPlace
    FieldEdits <- UserEdits
    HasFclType <- IsFclType
    IsEncoded <- Encodes
SPECIFICATION FormFairSpec
INVARIANTS
    ParsedIsCurrent
    ArgumentsEncode
    AddKeepsEntries
PROPERTIES
    EffectsEnd
