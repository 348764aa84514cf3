\* Two goroutines, images of three registries; one run may fail.
CONSTANTS
    hub = hub
    github = github
    public = public
    generic = generic
    Goroutines = {1, 2}
    Jobs = {hub, github, public, generic}
    Private = {hub, github, generic}
    Type <- MCType
    MaxRetries = 2
    MaxFaults = 1
SPECIFICATION Spec
INVARIANTS
    TypeOK
    CredentialsStay
    FailureExplained
CHECK_DEADLOCK FALSE
