SPECIFICATION Spec
CONSTANTS Keys = {k1, k2}
          NoKey = NoKey
          MaxSiteLines = 4
          MaxSiteEvents = 4
          SiteUrls <- SomeSiteUrls
          Tarifs = {0, 3}
          SiteIds = {1, 2}
          TrfCacheSize = 3
          Servers <- SomeServers
          Paths <- SomePaths
          MaxEdits = 3
          Scripts = {s1, s2}
          Pairs = {p1, p2}
          Files = {f1, f2}
          NoPair = NoPair
          NoFile = NoFile
          MaxFaults = 1
          MaxRuns = 2
SYMMETRY CountersSymmetry
INVARIANTS TypeOK OneRow NeverMore NeverLess BlocksLive TarifInForce SiteIsServer TrafficAddsUp AllFilesOnce
CHECK_DEADLOCK FALSE
