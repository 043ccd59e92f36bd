SPECIFICATION Spec
CONSTANTS
    ProjectName <- Ours
    Additional = "list"
    Listed <- MCListed
    Missing = Missing
    Null = Null
    Ids <- MCIds
    InfoContents <- MCInfoContents
    ContainerContents <- MCContainerContents
    Registries <- MCRegistries
INVARIANT LinksAreServingContainers
INVARIANT FailsOnBadDocuments
INVARIANT RaisesAtFirstUnlinkable
