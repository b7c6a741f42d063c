\* The claim that the migration CLI reads the database of the application.
CONSTANTS
    app = app
    cli = cli
    Missing = Missing
    Malformed = Malformed
    Binaries <- MCBoth
    Files <- MCHosts
    Environs <- MCPlain
    Default <- MCDefault
    Limit <- MCLimit
SPECIFICATION Spec
INVARIANTS SameDatabase
