SPECIFICATION Spec
CONSTANTS
  Tenants = {default, admin}
  Default = default
  Admin = admin
  Tokens = {api, adm, k1, k2}
  ApiToken = api
  AdminToken = adm
  Requests = {r1, r2}
  None = None
INVARIANTS
  TypeOK
  ScopesInherited
  AdminSeeded
PROPERTIES
  RevocationIsFinal
  DeletedStaysClosed
SYMMETRY Symmetry
