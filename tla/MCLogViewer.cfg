\* Three lines kept, two sent; one retry; two changes of the log.
CONSTANTS
    NULL = NULL
    Uploads <- MCUploads
    MaxLogLines = 3
    Tail = 2
    Retries = 1
    MaxChanges = 2
SPECIFICATION Spec
INVARIANTS ViewerTypeOK NumbersArePlaces
PROPERTIES LoadingEnds
