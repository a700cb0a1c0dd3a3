CONSTANTS
  e = e x = x k = k r = r s = s
  Changes <- MCChanges
  Edits = {e}
  Majors = {x}
  Undos = {u}
  Others = {k}
  Harmful = {k}
  Requests = {r, s}
  Routed = {x}
  NoRequest = NoRequest
  MaxVersions = 5
  Pages = {p1, p2}
  Policies = {full, redacted}
  Redacting = {redacted}
SPECIFICATION Spec
INVARIANTS
  NothingUnconfirmed
  AcceptedIsItsPreview
  OncePerOperation
  OutdatedStaysOut
  OnePagePerVersionAndPolicy
  SharedIsSound
PROPERTY FollowsChain
SYMMETRY Interchangeable
CHECK_DEADLOCK FALSE
