CONSTANTS
    m1 = m1
    m2 = m2
    k1 = k1
    k2 = k2
    t1 = t1
    b1 = b1
    Empty = Empty
    Nil = Nil
    None = None
    Keep = Keep
    Null = Null
    Mount = {m1, m2}
    Key = {k1, k2}
    Text = {Empty, t1}
    Binary = {b1}
    KeysVanish = TRUE
    LenOf <- Lens
    MaxObjectBytes = 3
SPECIFICATION Spec
PROPERTY OwnWritesExact
