SPECIFICATION Spec
CONSTANTS
    skills = skills
    first_name = first_name
    a = a
    b = b
    Ann = Ann
    Bob = Bob
    sql = sql
    Handlers = {h1, h2}
    Fields = {skills, first_name}
    Baseline = {first_name}
    CVs = {a, b}
    Blank = Blank
    Typed = Typed
    Reads <- MCReads
    MAX_RETRIES = 1
    Regimes <- MCRegimes
    MaxDocs = 3
    MaxEvents = 3
INVARIANTS OnboardingTypeOK Provenance CurrentCv
PROPERTY ParseResolves
CHECK_DEADLOCK FALSE
