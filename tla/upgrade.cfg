SPECIFICATION FairSpec
CONSTANTS
  IMAGE = 2
  SECTOR6 = 2
  Image = {"old", "new"}
  LegalImage = {"old", "new"}
  IP = {"ip1"}
  Rest = {0, 2}
  Fault = {{"power", "restart", "loss", "corrupt", "retry"}, {"corrupt"}, {"power", "restart", "flash"}, {"odd", "loss"}, {"stray"}}
  NONE = NONE
INVARIANTS TypeOK RunsWholeImage FlagMeansWhole AcceptedIsWritten SettingsKept
PROPERTY RunningImageKept UpgradeEnds
