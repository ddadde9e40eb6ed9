CONSTANTS
  Calls = {c1, c2, c3, c4}
  Interval = 2
  Horizon = 4
  Urls <- MCUrls
  Web <- MCWeb
  Options <- MCOptions
  Pings = {"p", "q", "r"}
  Host <- MCHost
  Alive = {"h1"}
  Wrap = 2
  MaxStray = 1
  Space = 8
  Sizes = {1, 2, 4, 8}
  SweepPorts <- MCSweepPorts
  Accepting <- MCAccepting
  HostsAtOnce = 2
  PortsAtOnce = 2
  Sites = {"s", "t", "a", "b", "c", "x"}
  SitePage <- MCSitePage
  Fronts <- MCFronts
  SiteMaps = {"m", "n", "o", "w"}
  Sitemap <- MCSitemap
  RobotsTxt <- MCRobots
  FirstMap = "n"
  MaxSites = 4
  SiteWorkers = 2
  MaxSitemaps = 4
  MaxSitemapDepth = 1
  Endpoint = "a"
  EndpointLists <- MCEndpointLists
  Responses <- MCResponses
  FetchesAtOnce = 2
  MaxEndpoints = 2
  MaxAnalyses = 2
  MaxDialogs = 2
SPECIFICATION MCSpec
INVARIANTS
  Spaced
  CapsHold
  CrawlCovers
  PingsAreHonest
  DiscoveryIsExact
  LinksAreFollowed
  ListsAreCoherent
PROPERTIES
  RequestsEnd
CHECK_DEADLOCK FALSE
