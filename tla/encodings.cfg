\* Conversions of texts and messages, one call each.
SPECIFICATION Spec
CONSTANTS
    HexTexts <- MCHexTexts
    ArraySizes <- MCArraySizes
    Base64Texts <- MCBase64Texts
    Codes <- MCCodes
    Entities <- MCEntities
    Messages <- MCMessages
    Digests <- MCDigests
    BlockLength = 64
    Garbage <- MCGarbage
INVARIANTS
    TypeOK
    HexKeepsTheNumber
    Base64KeepsTheBits
    UTF8Decodes
    EntitiesDecode
    
    DigestsArePublished
\* Every call returns.
CHECK_DEADLOCK FALSE
