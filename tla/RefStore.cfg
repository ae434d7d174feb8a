SPECIFICATION Spec
CONSTANTS
    main = main  dev = dev  rel = rel  s0 = s0  s1 = s1
    Refnames = {main, dev, rel}
    Oids = {o1}
    MaxRefs = 2
    ShardIds = {s0, s1}
    ShardKey <- MCShardKey
    DefaultBranch = main
    Pushers = {p1, p2}
    Resharders = {m1}
    None = None  Keep = Keep  NoShard = NoShard
SYMMETRY Symmetry
INVARIANTS TypeOK RootShardsStored  IndexesCoverRefs
PROPERTIES InlineDefaultBranchKept RefMapSpec
