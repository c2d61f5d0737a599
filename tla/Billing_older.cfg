\* The end of one subscription handled beside the purchase of another.
SPECIFICATION Spec
CONSTANTS
    s1 = s1
    s2 = s2
    h1 = h1
    h2 = h2
    Subs = {s1, s2}
    NoSub = NoSub
    Lines = 2
    Handlers = {h1, h2}
    Scenes <- AfterAnother
CHECK_DEADLOCK FALSE
PROPERTIES OlderEndIgnored
