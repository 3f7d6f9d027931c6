\* Where the paths of a configuration file lead.
SPECIFICATION Spec
CHECK_DEADLOCK FALSE
CONSTANTS
    alice = alice  Bob = Bob  carol = carol  None = None
    Missing = Missing  NotNumber = NotNumber  Anonymous = anonymous
    LowerCase <- MCLowerCase
    CommandLines <- MCCommandLines
    ConfigFiles <- MCConfigFiles
    Homes <- MCHomes
    HOME <- MCHome
    MaxCount = 9  NoTime = None  NoInteger = NotNumber
    Zone <- MCZone
    Orders <- MCOrders
    RecordInputs <- MCRecordInputs
    Days <- MCDays
    AclInputs <- MCAclInputs
    People <- MCPeople
    FileInputs <- MCFileInputs
    WireInputs <- MCWireInputs
    MaxTimestampDifference = 2  Width = 5
INVARIANT ConfigPathsInHome
