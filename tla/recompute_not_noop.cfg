SPECIFICATION Spec
CONSTANTS
  WithSpecial = TRUE
  WithTv = FALSE
  Shows <- McShows
  Seasons <- McSeasons
  Episodes <- McEpisodes
  SeasonShow <- McSeasonShow
  SeasonNumber <- McSeasonNumber
  EpisodeSeason <- McEpisodeSeason
  EpisodeNumber <- McEpisodeNumber
  ShowType <- McShowType
  TotalEpisodes <- McTotalEpisodes
  EpisodeCount <- McEpisodeCount
  Minutes <- McMinutes
  Achievements <- McCascade
  AchMetric <- McAchMetric
  AchThreshold <- McAchThreshold
  RewardOf <- McRewardOf
  MaxLevel = 4
  LevelXp <- McLevelXp
  MaxDay = 2
  AddStatuses <- McMenu
  AddPositions <- McNoPositions
  MaxLog = 2
  MaxVolume = 2
  MaxMinutes = 48
INVARIANT
  RecomputeIsNoOp
