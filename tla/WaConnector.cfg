\* Four attempts, Redis refuses two heartbeat writes.  A session that is
\* logged out stops for good, but the periodic beat goes on.
CONSTANTS
  MaxDisconnects = 4
  MaxRefusals = 2
SPECIFICATION FairConnectorSpec
INVARIANTS
  ConnectorTypeOK
  LiveSocketIsLeftAlone
  ExposedSocketIsLive
PROPERTIES
  LoggedOutStaysOut
  LogoutIsReported
  ReconnectsUnlessRefused
