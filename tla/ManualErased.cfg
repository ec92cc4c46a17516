SPECIFICATION Spec
CONSTANTS
    cny = cny
    jpy = jpy
    krw = krw
    admin = admin
    Quotes = {cny, jpy, krw}
    ProviderOrder <- Alphabetical
    FallbackOrder <- Reversed
    Admins = {admin}
    Worker = Worker
    Seeder = Seeder
    NoJob = NoJob
    MaxEdition = 2
PROPERTIES ManualStands
