SPECIFICATION Spec
CONSTANTS
    AnyProduct = 0
    FOLD_LIMIT = 8
    Apple = {"apple"}
    Octets <- MCOctets
    Capitals <- MCCapitals
    Days <- MCDays
    Clocks <- MCClocks
    Numbers <- MCNumbers
    Zones <- MCZones
    Plain <- MCPlain
    Profiles <- MCProfiles
    Lines <- MCLines
    Lists <- MCLists
    Calendars <- MCCalendars
    Edits <- MCEdits
    Events <- MCEvents
    Tasks <- MCTasks
    Moments <- MCMoments
    Durations <- MCDurations
    Cards <- MCCards
    Contacts <- MCContacts
    Foreign <- MCForeign
    UNKNOWN_COMPLETION_DATE = 5
    Today = 9
    OutsideCodePage = {"wide"}
    Ink = "{pwi"
    Models <- MCModels
    OnDevice <- MCOnDevice
    MaxEdits = 1
    MaxWrites = 2
    Buses <- MCBuses
    Pins <- MCPins
    Handhelds <- MCHandhelds
    UsbSerial <- MCUsbSerial
INVARIANTS TextReadsBack CalendarReadsBack CardReadsBack CutIsNoticed  RecordKept WrittenBackIsTheSame
CHECK_DEADLOCK FALSE
