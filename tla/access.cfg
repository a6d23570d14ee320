SPECIFICATION MCSpec
CONSTANTS
    Users = {owner, reader}
    Owner = owner
    Profiles <- MCProfiles
    Conditions <- MCConditions
    Depth <- MCDepth
    Levels <- MCLevels
    AllowedValues <- MCAllowedValues
    AtLeast <- MCAtLeast
    Satisfies <- Grants
    Parses <- WellFormed
    MaxRequests = 1
    MaxChanges = 2
INVARIANTS
    TypeOK
    NoStaleKey
    OnlyAdmitted
    AllAdmitted
    OwnerOpens
    RowNamesScheme
    GateFollowsAttributes
CHECK_DEADLOCK FALSE
