SPECIFICATION PagingSpec
CONSTANTS
    Total = 9
    PageSize = 2
    MaxResidentPages = 2
    Height = 2
    FirstRows = {2, 3, 8}
    MaxScrolls = 4
    MaxResults = 2
INVARIANT RowsInSightAreShown
CHECK_DEADLOCK FALSE
