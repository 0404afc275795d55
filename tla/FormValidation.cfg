SPECIFICATION Spec
CONSTANTS
    Forms <- MCForms
    DataVal <- MCDataVal
    NumberType <- MCNumberType
    Initial <- MCInitial
    Offers <- MCOffers
    Passes <- MCPasses
    Native <- MCNative
    Binds <- MCBinds
INVARIANTS
    TypeOK
    OneMessage
    ErrorIsCurrent
    PostedSatisfiesRules
    DroppedOnlyUnseen
