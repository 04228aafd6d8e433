SPECIFICATION Spec
CONSTANTS
    Refs = {r1, r2, r3}
    GVKs <- MCGVKs
    Namespaces <- MCNamespaces
    Names <- MCNames
INVARIANTS
    TypeOK
    MapsMirrorEachOther
    NoEmptyBuckets
    LookupIsExact
PROPERTY
    ImplementsRelation
