SPECIFICATION Spec
CONSTANTS
    App = App
    Network = Network
    Cifs = Cifs
    Nfs = Nfs
    Web = Web
    Cli = Cli
    Worker = Worker
    None = None
    Processes = {Web, Cli, Worker}
    Containers = {App, Network}
    ContainerOf <- Overlay
    Shares = {Cifs, Nfs}
    CifsShares = {Cifs}
    MaxUses = 3
    MaxEdits = 1
    MaxEnds = 1
    MaxUmounts = 1
CHECK_DEADLOCK FALSE
INVARIANTS
  OperationsReachTheirShare
PROPERTY
  NothingIsCovered
