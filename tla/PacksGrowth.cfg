SPECIFICATION Spec
CONSTANTS
    olga = olga
    dana = dana
    pc = pc
    fate = fate
    b1 = b1
    b2 = b2
    noir = noir
    b3 = b3
    base = base
    tale = tale
    coda = coda
    rival = rival
    pick = pick
    a1 = a1
    a2 = a2
    e1 = e1
    e2 = e2
    f1 = f1
    o1 = o1
    o2 = o2
    s1 = s1
    mA = mA
    mE = mE
    mF = mF
    mO = mO
    arc = arc
    r1 = r1
    r2 = r2
    Principal = {olga}
    Actor = {}
    Profile = {fate}
    Body = {}
    Pack = {base, tale, coda, rival}
    Content = {a1, a2, e1, e2, f1, o1, o2}
    ManifestId = {mA, mE, mF, mO}
    Entity = {}
    PlayRef = {r1}
    ProfileKey <- MCProfileKey
    PackKey <- MCPackKey
    Demands <- MCDemands
    Needs <- MCNeeds
    Manifest <- MCManifest
    Seed <- MCSeed
    EntityType <- MCEntityType
    Declared <- MCDeclared
    Opportunity <- MCOpportunity
    Linked <- MCLinked
    Founder = olga
    Absent = Absent
    NoManifest = NoManifest
    NoSeed = NoSeed
    NoSnapshot = NoSnapshot
    AnySum = AnySum
    Unsigned = Unsigned
    MaxBranch = 2
INVARIANTS
    TypeOK
    DependenciesHold
    DesignOfActivePacks
    EpisodesGrounded
