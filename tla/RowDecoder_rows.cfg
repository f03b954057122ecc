\* Two row images over twenty-two columns of every modelled type, the event
\* whole or cut by 4 bytes (the cut only exercises the short-read paths:
\* RowValues constrains the whole event).
CONSTANTS
    Null = Null
    Table <- RowsDateTable
    Domain <- RowsDateDomain
    Nullable <- RowsNullable
    Event <- UpdateEvent
    Cuts = {0, 4}
    NRows = 2
SPECIFICATION Spec
INVARIANT TypeOK
INVARIANT RowValues
\* Decoding one event is a finite computation: it ends done, short or panicked.
CHECK_DEADLOCK FALSE
