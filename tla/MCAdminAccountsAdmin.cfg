SPECIFICATION Spec
CONSTANTS
    b1 = b1
    b2 = b2
    n1 = n1
    n2 = n2
    t1 = t1
    t2 = t2
    Browsers <- MCBrowsers
    Names <- MCNames
    Nobody = Nobody
    Tokens = {t1, t2}
    NoToken = NoToken
    NoSession = NoSession
    Lifetime = 1
    MaxClock = 2
PROPERTY NoSignupAfterAdmin
