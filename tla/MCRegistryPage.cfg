SPECIFICATION Spec
CONSTANTS
    Draft = {"tea"}
    MaxProducts = 4
    MaxCalls = 2
INVARIANTS
    DialogShowsItsOwnCode
    LoadingMeansBusy
PROPERTIES
    TableOnlyGrows
