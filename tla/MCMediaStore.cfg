\* Two uploads and two deletes.
CONSTANTS
    Environments <- Settings
    Uploads = {u1, u2}
    Deletes = {d1, d2}
    Files <- FilesInUse
    ForeignKeys <- BucketKeys
    ForeignUrls <- UrlsInUse
    MaxName = 4
    Throws = Throws
    Null = Null
SPECIFICATION Spec
SYMMETRY Symmetry
CHECK_DEADLOCK FALSE
INVARIANTS
    UrlsLeadBack
    PlainNamesAreDeletable
    UploadsKeepTheirContent
PROPERTIES
    DeletesHitTheirUrl
