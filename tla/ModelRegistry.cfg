\* All goroutines and a metadata list that is published once; or a list with a
\* second version and a provider in allowlist mode.
SPECIFICATION MCSpec
CONSTANTS
    Tasks = {"boot", "meta", "loop", "admin", "request"}
    Providers = {"east", "west"}
    Rank <- MCRank
    Models = {"m"}
    Offers <- MCOffers
    Configured <- MCConfigured
    Allowlist = FALSE
    Checkers = {"west"}
    Targets <- MCTargets
    MaxList = 1
    MaxRestarts = 1
    MaxBusy = 2
INVARIANTS
    RoutesAreFirst NeverOverwritesNewer OutageIsReported EnrichedUnlessRaced SavedAtRest
PROPERTIES
    OutageTakesNothing
