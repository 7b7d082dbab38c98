\* Client authentication, the stateless grants and /userinfo.
SPECIFICATION Spec
CONSTANTS
  spa = spa
  api = api
  job = job
  i1 = i1
  j1 = j1
  j2 = j2
  ClientId <- MCClientId
  Secret = {"s1", "s2"}
  Empty = "empty"
  GrantType <- MCGrantType
  Scope = {"openid", "profile", "email"}
  None = None
  User = {u1}
  Key = {k1, k2}
  IssuerKey = {j1, j2, j3}
  Issuer = {i1}
  Audience = {"endpoint", "registered", "elsewhere"}
  TokenEndpoint = "endpoint"
  Profile = "profile"
  Email = "email"
  OpenId = "openid"
  AccessTTL = 2
  IdTTL = 1
  Headers <- MCHeaders
  Forms <- MCForms
  Asked <- MCAsked
  Registration <- MCRegistration
  IssuerAudiences <- MCAudiences
  Foreign = {j3}
  MaxTime = 3
  MaxHops = 2
SYMMETRY Symmetric
INVARIANTS TypeOK ExchangeNeverWidens ChainIntact LifetimeEarned UserInfoWithinGrant SecretShown Vouched
CHECK_DEADLOCK FALSE
