SPECIFICATION FairSpec
CONSTANTS
    p1 = p1
    p2 = p2
    h1 = h1
    h2 = h2
    h3 = h3
    long = long
    Nobody = Nobody
    NotFound = NotFound
    NoBlock = NoBlock
    short = short
    hdfs_block_size = 2
    ChunkSize = 1
    num_local_load_thread = 2
    Processes <- MCProcesses
    Hosts <- MCHosts
    Files <- MCFiles
    worker_host <- MCworker_host
    Directories <- MCDirectories
    Placements <- MCPlacements
INVARIANTS
    LoadingSound
PROPERTIES
    LoadingEnds
