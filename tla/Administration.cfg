SPECIFICATION FairSpec
CONSTANTS
    r1 = r1
    r2 = r2
    e1 = e1
    e2 = e2
    n1 = n1
    n2 = n2
    g1 = g1
    g2 = g2
    g3 = g3
    read = read
    write = write
    Unset = Unset
    Absent = Absent
    Deleted = Deleted
    RoleReqs = {e1, e2}
    RoleIds = {r1, r2}
    RoleNames = {n1, n2}
    Capabilities = {read, write}
    StartRoles <- RoleTable
    RoleDtos <- DtoSet
    MaxRoleReqs = 2
    Editors = {e1, e2}
    Logins = {e1}
    PersonNames = {n1, n2}
    StartName = n1
    Edits <- EditSet
    MaxChanges = 2
    Groups = {g1, g2, g3}
    StartGroups = {g1}
    MaxGroupEvents = 1
PROPERTIES
    RolesSound
    GrantsCatchUp
    PersonSound
    NamesSettle
    GroupsAllOrReported
CHECK_DEADLOCK FALSE
