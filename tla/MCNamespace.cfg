SPECIFICATION Spec
CONSTANTS
    Part <- MCPart
    DecoderExt <- MCDecoderExt
    desttype = "mp3"
    Entries <- MCEntries
    Requests <- MCRequests
    MaxEntries = 2
INVARIANTS
    TypeOK
    ListedNameLeadsToItsEntry
    LinksLeadToListedNames
    PassThroughWins
    ListingIsComplete
    NothingComesOfNothing
