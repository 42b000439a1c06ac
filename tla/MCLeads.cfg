SPECIFICATION FairLeads
CONSTANTS
    ip1 = ip1
    s1 = s1
    s2 = s2
    admin = admin
    operator = operator
    Client = {ip1}
    Key <- MCKey
    Limit = 2
    MaxLead = 2
    User = {admin, operator}
    RoleOf <- MCRoleOf
    Session = {s1, s2}
    MayCrash = TRUE
    None = None
INVARIANTS
    LeadsTypeOK
    WithinLimit
PROPERTIES
    StaffInformed
    CountersEnd
    LeadsAnnounced
    KeepsPromise
