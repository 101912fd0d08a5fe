CONSTANTS
  hsts = hsts
  bola = bola
  users = users
  Titles <- MCTitles
  Sites <- MCSites
  Checks = 2
  Profiles <- MCProfiles
  Prompts = 2
  DryLimit = 3
  Global = Global
  Skipped = Skipped
  NoRow = NoRow
  Nobody = Nobody
SPECIFICATION CampaignSpec
INVARIANT FindingsSound
PROPERTIES AbortedIsQuiet CampaignEnds
