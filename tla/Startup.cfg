\* Two requests of two goroutines, two starts of the panel; the first seed's
\* port may be asked for as the API's.
SPECIFICATION FairSpec
CONSTANTS
  Req = {r1, r2}
  Main = main
  Port = {api, eph, panel, tcp4443, udp8443}
  Addr = {api, eph, tcp4443}
  Ephemeral = {eph}
  Default = api
  PanelPort = panel
  FirstSeed = tcp4443
  SecondSeed = udp8443
  NoAddr = NoAddr
  NoConfig = NoConfig
  Edited = Edited
  NoThread = NoThread
  MaxBoots = 2
  MaxRequests = 2
INVARIANTS
  TypeOK
  InStep
  MigratedForGood
  SeedsWhole
  SomebodyMoves
PROPERTIES
  PanelPortsKept
  WithinContract
  StartupEnds
CHECK_DEADLOCK FALSE
