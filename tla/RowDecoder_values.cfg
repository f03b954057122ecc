\* One row image of values the decoder reads differently from MySQL.
CONSTANTS
    Null = Null
    Table <- ValuesTable
    Domain <- ValuesDomain
    Nullable <- NoneNullable
    Event <- WriteEventV1
    Cuts = {0}
    NRows = 1
SPECIFICATION Spec
INVARIANT RowValues
\* Decoding one event is a finite computation: it ends done, short or panicked.
CHECK_DEADLOCK FALSE
