SPECIFICATION MCSpec
CONSTANTS
    Null = Null
    Absent = Absent
    Message = {m1}
    Content = {a, b}
    Embed = {e}
    File = {f}
    EditTimes = {1, 2}
    MaxQuotes = 1
    Props <- MCProps
    Emoji = {x, y}
    ReactionType = {0}
    User = {u, v}
    MaxRows = 3
INVARIANTS
    ReactionsTypeOK
    AttachmentsStored
PROPERTIES
    ImplementsArchive
    ReactionHistoryGrows
