SPECIFICATION Spec
CONSTANTS
    Children = {c1, c2, c3}
    MaxHeld = 4
    CounterMod = 16
    Rare = {"nested", "sigset"}
SYMMETRY Symmetry
INVARIANTS
    NeverUndercounted
    ReapedIsPosted
