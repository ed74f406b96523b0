\* One page and its device, with two requests for the first setup.
SPECIFICATION Spec
CONSTANTS
  MaxSetups = 2
  Timeout = 2
  Buffer = 1
  Completed = 2
INVARIANTS TypeOK OneAdministrator
PROPERTIES SessionEndClosesStream SilenceReachesPage RevokedDeviceGoesOffline ClickReachesList
CONSTRAINT PagesAfterSetup
CHECK_DEADLOCK FALSE
