CONSTANTS
    PageRecords = {"a"}
    UploadFiles = {"f1", "f2"}
    MaxClicks = 3
SPECIFICATION PagesSpec
CHECK_DEADLOCK FALSE
INVARIANT ReviewedFirst
