SPECIFICATION OSpec
CONSTANTS
    MinPeers = 20
    Peers <- MCPeers
    File <- MCFile
    MaxInfos = 3
    MaxIdents = 3
PROPERTIES
    BadFilesAreReported
