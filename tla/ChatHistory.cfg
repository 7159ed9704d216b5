SPECIFICATION Spec
CONSTANTS
    u1 = u1
    u2 = u2
    r1 = r1
    r2 = r2
    c1 = c1
    m1 = m1
    admin = admin
    member = member
    NoRole = NoRole
    NoUser = NoUser
    NoConv = NoConv
    NoMessage = NoMessage
    NoOwner = NoOwner
    Users = {u1, u2}
    Roles = {admin, member}
    Admin = admin
    Requests = {r1, r2}
    SerialAdmin = TRUE
    Convs = {c1}
    Messages = {m1}
    MaxLives = 1
SYMMETRY Symmetry
INVARIANT TypeOK
INVARIANT ThreadIsTheOwners
PROPERTY OwnerDecides
PROPERTY AdminsNeverVanish
