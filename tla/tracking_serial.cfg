SPECIFICATION Spec
CONSTANTS
  WithSpecial = TRUE
  WithTv = FALSE
  Shows <- McShows
  Seasons <- McSeasons
  Episodes <- McEpisodes
  SeasonShow <- McSeasonShow
  SeasonNumber <- McSeasonNumber
  EpisodeSeason <- McEpisodeSeason
  EpisodeNumber <- McEpisodeNumber
  ShowType <- McShowType
  TotalEpisodes <- McTotalEpisodes
  EpisodeCount <- McEpisodeCount
  Minutes <- McMinutes
  Achievements <- McCascade
  AchMetric <- McAchMetric
  AchThreshold <- McAchThreshold
  RewardOf <- McRewardOf
  MaxLevel = 4
  LevelXp <- McLevelXp
  MaxDay = 1
  AddStatuses <- McMenu
  AddPositions <- McPositions
  MaxLog = 2
  MaxVolume = 3
  MaxMinutes = 48
  RowLimit = 8
INVARIANTS
  TypeOK
  ProgressDerived
  CompletedMeansAllWatched
  StatusCountersAgree
  LedgerAgrees
  CompletedSeasonsPaid
  UnlocksUpToDate
  PagesAgree
PROPERTIES
  XpNeverRevoked
