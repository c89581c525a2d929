\* The files package is edited between two deploys, the agent is not.
CONSTANTS
  Provider = {"GITHUB"}
  ClientId <- MCClientId
  ClientSecret <- MCClientSecret
  ApiBindings <- MCApiBindings
  MaxEdits = 1
  Nowhere = Nowhere
SPECIFICATION DeploySpec
INVARIANT BundleIsCurrent
