SPECIFICATION Spec
CONSTANTS
  PageSize = 2
  MaxGames = 3
  MaxFetches = 2
INVARIANTS
  StatsMatchGames
  ListFits
PROPERTIES
  ReportedGameShown
