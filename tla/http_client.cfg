SPECIFICATION FairSpec
CONSTANTS
  Requests = {r1, r2}
  Keys = {http, https}
  Tls = {https}
  Duration = 2
INVARIANTS CallbackOnce OwedIsGuarded
PROPERTIES EveryRequestAnswered ClosedIsFreed
