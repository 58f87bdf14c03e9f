SPECIFICATION Spec
CONSTANTS
  Router = {r1}
  Dest = dest
  NoReply = noReply
  MaxHops = 2
  Counts <- MCCounts
  NoPort = noPort
  Port = {p1, p2}
  ProbesPerHop = 2
  AnsweredMax = 2
  MaxForeign = 1
  MaxFlying = 2
INVARIANTS HopIsOwn AggregateIsHonest SuccessIsEarned
PROPERTIES ImplementsRoute Terminates
