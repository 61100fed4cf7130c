SPECIFICATION Spec
CONSTANTS
    Texts <- MCTexts
    Titles <- MCTitles
    Names <- MCNames
    Hints <- MCHints
    Weight <- MCWeight
    Themes <- MCThemes
    EndpointsIn <- MCEndpointsIn
    MinBullet = 12
    MinParagraph = 40
    Length <- MCLength
    Opening <- MCOpening
    BulletTitle = 50
    TitleChars = 50
    KeyChars = 80
    DetailChars = 150
    Uploads <- MCUploads
    FieldKind <- MCFieldKind
    NameIn <- MCNameIn
    TitleIn <- MCTitleIn
    TitleStarts <- MCTitleStarts
    TitleEnds <- MCTitleEnds
    MaxDepth = 2
    MaxLeaves = 2
    MaxItemsPerUnit = 2
    MaxLines = 4
INVARIANTS
    TypeOK
    StackIsOutline
    ItemsTellTheFacts
    
    UnitsAreACut
