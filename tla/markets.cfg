CONSTANTS
    NotChosen = "none"
    Instruments <- TwoInstruments
    SourcesOf <- TheirSources
    PeriodsOf <- TheirPeriods
    PageSize = 2
    FirstStored = 0
    MaxStored = 3
    MaxOlder = 2
SPECIFICATION Spec
INVARIANTS
    StatusIsOfTheSelection
    BusyMeansAsked
