\* Sellers, buyers and the contract's owner between the steps of each other's
\* scripts; or long lists; or a deployment; or a factory's new owner; or NFTs
\* that are delegated and sold.
SPECIFICATION MCSpec
CONSTANTS
  ann = ann
  bob = bob
  Accounts <- MCAccounts
  NFTs = {1}
  Prices <- MCPrices
  Costs = {1, 2}
  Collectors <- MCCollectors
  Elsewhere = {2}
  GasBuffer = 1
  FirstHbar <- MCHbar
  FirstLazy <- MCLazy
  FirstOwner <- MCOwner
  TransferBatch = 10
  AllowanceBatch = 20
  MirrorPage = 3
  SendLengths <- MCLengths
  ReadLengths <- MCReadLengths
  EventNames = {"a", "b"}
  EventLogs <- MCLogs
  MaxContracts = 10
  Signers = {0, 1}
  FirstProfit = 2
  MaxAccounts = 2
  cid = cid
  Wallets <- MCWallets
  Nobody = Nobody
  Collections = {"gen1"}
  Serials = {1, 2}
  MaxDelegated = 2
INVARIANT ChecksSuffice
INVARIANT HelpersNeverMislead
INVARIANT DeploymentsAgree
INVARIANT RepeatsOnlyTheUnheard
INVARIANT RegistryAgrees
PROPERTY SpendsWhatWasConfirmed
CHECK_DEADLOCK FALSE
