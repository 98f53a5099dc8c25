\* Two browsers, one connection each, upload a file of two blocks with the same name.
SPECIFICATION UploadSpec
CONSTANTS
    Browser = {1, 2}
    MaxConnects = 1
    MaxUploads = 1
    Sizes = {2}
    MaxUploadSize = 2
    MaxConcurrent = 1
    MaxMishaps = 0
    LastName = 2
CHECK_DEADLOCK FALSE
INVARIANT SuccessMeansStored
