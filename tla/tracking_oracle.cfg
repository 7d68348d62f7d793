SPECIFICATION SeededSpec
CONSTANTS
  WithSpecial = FALSE
  WithTv = TRUE
  Shows <- McShows
  Seasons <- McSeasons
  Episodes <- McEpisodes
  SeasonShow <- McSeasonShow
  SeasonNumber <- McSeasonNumber
  EpisodeSeason <- McEpisodeSeason
  EpisodeNumber <- McEpisodeNumber
  ShowType <- McShowType
  TotalEpisodes <- McTotalEpisodes
  EpisodeCount <- McEpisodeCount
  Minutes <- McMinutes
  Achievements <- McNoAchievements
  AchMetric <- McAchMetric
  AchThreshold <- McAchThreshold
  RewardOf <- McRewardOf
  MaxLevel = 4
  LevelXp <- McLevelXp
  MaxDay = 3
  SeedDay = 2
  AddStatuses <- McNoStatuses
  AddPositions <- McNoPositions
  MaxLog = 2
  MaxVolume = 3
  MaxMinutes = 93
INVARIANTS
  RecomputeIsNoOp
  StreakCoversLog
