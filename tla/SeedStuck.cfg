SPECIFICATION FairSpec
CONSTANTS
    Sessions = {s1, s2}
    ProductIds = {1, 2, 3}
    CategoryIds = {1, 2, 3}
    Payloads <- SomePayloads
    Patches <- SomePatches
    Headings <- SomeHeadings
    MaxRequests = 2
    SeedCategories <- FirstCategory
    SeedProducts <- FirstProduct
    Answers <- SomeAnswers
    Tags <- SomeTags
    BaseOf <- FirstSubtag
    StartsWith <- SomePrefixes
PROPERTY StartsInTheEnd
