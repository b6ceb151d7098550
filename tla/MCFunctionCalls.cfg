CONSTANTS
    Site = {s1, s2}
    Acc = {a1, a2, a3}
    None = None
    Fault = {"err", "panic", "nomem", "to_sql"}
    MaxRows = 2
    Op = {"regexp", "f", "agg"}
    AggOp = {"agg"}
    pattern = pattern
    text = text
    literal = literal
    column = column
    Arg = {pattern, text, literal, column}
    OpOf <- MCOpOf
    ConstMask = {pattern, literal}
    Val = {v1, v2}
    Aux = {x1, x2}
SYMMETRY Symmetry
SPECIFICATION FSpec
INVARIANTS
    AccOnce
    NoNullDeref
    GivenRight
    AuxFresh
    AuxLive
CHECK_DEADLOCK FALSE
