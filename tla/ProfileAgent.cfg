SPECIFICATION Spec
CONSTANTS
    Facts = {skill, project}
    Projects = {project}
    Gens = {g1}
    Edits = {edit}
    Lists = {skill}
    MAX_TURNS = 2
    MaxBatch = 2
    MaxSays = 4
    MaxMishaps = 1
INVARIANTS
    TypeOK
    NothingIsLost
    AppliedAsConfirmed
PROPERTIES
    StopHolds
CONSTRAINT
    Undisturbed
CHECK_DEADLOCK FALSE
