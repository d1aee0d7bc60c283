\* A list against a creation, redemption or revocation, and two redemptions
\* of one invite by two users.  Two invites: a list has an entry to remove and
\* one to show.  Two organizations: an invite may be named under the wrong one.
CONSTANTS
    o1 = o1
    o2 = o2
    u1 = u1
    u2 = u2
    r1 = r1
    r2 = r2
    Orgs = {o1, o2}
    Users = {u1, u2}
    Requests = {r1, r2}
    N = 2
    NoOrg = NoOrg
SYMMETRY Symmetry
SPECIFICATION Spec
INVARIANTS TypeOK IndexComplete IndexHasNoLeftovers
PROPERTIES ListShowsUsable EndedInviteAdmitsNobody
