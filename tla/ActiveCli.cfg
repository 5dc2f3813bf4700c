CONSTANTS
    host = host
    cli = cli
    zcode = zcode
    other = other
    extra = extra
    Unreadable = Unreadable
    Nothing = Nothing
    Processes = {host, cli}
    Contents = {zcode, other, extra, Unreadable}
    Registry <- MCRegistry
    DefaultCli <- MCDefaultCli
    Retries = 2
    MaxFaults = 2
SPECIFICATION Spec
INVARIANTS
    TypeOK
    LitterTakesFaults
    AnswersAreRegistered
PROPERTIES
    ImplementsRegister
    SetReturnsItsOwn
    SelectionTakesEffect
