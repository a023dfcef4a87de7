\* Two templates, three changes of the form, two question rows.
CONSTANTS
    MaxTemplates = 2
    MaxRows = 2
    MaxEdits = 3
    MaxFresh = 2
SPECIFICATION LiveSpec
CHECK_DEADLOCK FALSE
INVARIANTS
    TypeOK
    LatestWorkIsSomewhere
    OneTemplatePerWork
PROPERTIES
    TypedIsKept
