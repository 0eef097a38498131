\* Three requests, two keys, two routes of one rate limited provider; two refresh queries.
\* When every request has been answered only the refresh goes on.
SPECIFICATION FairSpec
CONSTANTS
  r1 = r1
  r2 = r2
  r3 = r3
  k1 = k1
  k2 = k2
  g1 = g1
  g2 = g2
  groq = groq
  luna = luna
  edu = edu
  q1 = q1
  q2 = q2
  NoRequest = NoRequest
  Requests <- ThreeRequests
  Keys = {k1, k2}
  Routes = {g1, g2}
  Providers = {groq}
  Circuits = {g1, g2}
  KeyOf <- MCKeyOf
  TeamOf <- MCTeamOf
  CostOf <- MCCostOf
  ChainOf <- MCChainOf
  ProviderOf <- MCProviderOf
  CircuitOf <- MCCircuitOf
  RateLimited = {groq}
  Routed = {r1}
  Teams = {luna, edu}
  Listed = {luna}
  Quota <- MCQuota
  GlobalLimit = 1
  Emergency = 3
  Queries = {q1, q2}
INVARIANTS
  OneCallPerKey
  OnlyLastFailureHidden
  NobodyPassedOver
PROPERTIES
  EveryoneAnswered
  LoggedCostsCounted
