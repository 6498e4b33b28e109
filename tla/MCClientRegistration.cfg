SPECIFICATION Spec
CONSTANTS
    RedirectURIs <- MCRedirectURIs
    Https <- MCHttps
    DefaultRedirectURIs <- MCDefaults
    Settings <- MCSettings
    Unset = Unset
    KeyFiles <- MCKeyFiles
    None = None
    MaxRegistrations = 2
    MaxTime = 1
INVARIANTS
    TypeOK
    RegistrationsUsable
    AcceptedWasIssued
    RedirectsVetted
    SecretNeeded
