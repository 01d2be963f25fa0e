CONSTANTS
    t1 = t1
    t2 = t2
    c1 = c1
    h1 = h1
    h2 = h2
    h3 = h3
    NoSni = NoSni
    Txns = {t1, t2}
    Conns = {c1}
    Hosts = {h1, h2, h3}
    HostTls <- MCHostTls
    MaxChanges = 2
    CompileMayFail = FALSE

SPECIFICATION Spec

INVARIANT TypeOK
INVARIANT NoUseAfterFree
INVARIANT FreshWhenQuiet
INVARIANT ReenabledAtMostOnce
INVARIANT TlsVersionEnforced

PROPERTY RemapReenabled
PROPERTY EventuallyFresh
PROPERTY SlotRefinesAbstract
