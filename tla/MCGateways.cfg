\* Statuses: an answer with content, one that is no error, the two that are
\* translated, the one the cache retries, an error, and none of HTTP's.
CONSTANTS
  k1 = k1
  k2 = k2
  e1 = e1
  e2 = e2
  c1 = c1
  c2 = c2
  n1 = n1
  n2 = n2
  n3 = n3
  s1 = s1
  s2 = s2
  h1 = h1
  h2 = h2
  Keys = {k1, k2}
  EnvValues = {e1, e2}
  ControlValues = {c1, c2}
  MaxEnviron = 2
  Statuses = {200, 204, 401, 403, 429, 500, 600}
  Garbled = Garbled
  Blank = Blank
  Names = {n1, n2, n3}
  Fold <- MCFold
  Slugs = {s1, s2}
  DefaultSlug <- MCDefaultSlug
  Headers = {h1, h2}
  Authorization = h1
  ApiKey = k1
  UserId = k2
  Payloads <- MCPayloads
  Overlays <- MCOverlays
  UpstreamLists <- MCUpstreamLists
  None = None
SPECIFICATION RouterSpec
CONSTRAINT MCOneEndpoint
INVARIANTS
  RouterTypeOK
  RefusedRightly
  EnvWins
  
  AnswersAreUpstreams
