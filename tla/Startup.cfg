SPECIFICATION FairSpec
CONSTANTS
    Sessions = {s1, s2}
    ProductIds = {1, 2, 3, 4, 5}
    CategoryIds = {1, 2, 3, 4, 5}
    Payloads <- SomePayloads
    Patches <- SomePatches
    Headings <- SomeHeadings
    MaxRequests = 3
    SeedCategories <- FirstCategory
    SeedProducts <- FirstProduct
    Answers <- SomeAnswers
    Tags <- SomeTags
    BaseOf <- FirstSubtag
    StartsWith <- SomePrefixes
INVARIANTS TypeOK LinkOpensItsCard EveryVariantStocked SubtreeByPath SchemaAgrees SeededAsOne AnsweredInHosted
PROPERTIES SavedStands SeedOnlyAdds ServesInTheEnd
