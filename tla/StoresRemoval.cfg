SPECIFICATION Spec
CONSTANTS
    local = local
    global = global
    var = var
    temp = temp
    Value = {local, global, var, temp}
    NameOf <- MCNameOf
    NoName = ""
    MaxBlock = 4
CHECK_DEADLOCK FALSE
INVARIANTS
    TypeOK
    VectorCountsMentions
    UndefinedOnlyForNamedValues
    NoRepetitionLeft
    LastStoreKept
PROPERTIES
    ErasedForALaterMention
