\* The application loads from every combination of four sources.
CONSTANTS
    app = app
    cli = cli
    Missing = Missing
    Malformed = Malformed
    Binaries <- MCApp
    Files <- MCFiles
    Environs <- MCEnvirons
    Default <- MCDefault
    Limit <- MCLimit
SPECIFICATION Spec
INVARIANTS SourcesObeyed BootsUsable
