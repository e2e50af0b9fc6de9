CONSTANTS
    MaxVersions = 2
    MaxFaults = 1
    Attempts = 2
SPECIFICATION Spec
PROPERTY NeverPublishesOldNumber
