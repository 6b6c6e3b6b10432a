\* Any deploys, rollbacks, backups, restores and downgrades of three releases.
SPECIFICATION Spec
CONSTANTS
    alice = alice
    office = office
    NoTx = NoTx
    NoDump = NoDump
    FaceOrder <- TextOrder
    IpFaces <- AddressFaces
    Releases <- ThreeReleases
    Attempts = 2
    RowSets <- UsedRows
INVARIANTS
    ServedSchemaFits
    MigrationsCanBeUndone
    RowsKeepTheirMeaning
