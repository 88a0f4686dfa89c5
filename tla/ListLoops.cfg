CONSTANTS
    ListHead = {h1, h2}
    Node = {n1, n2, n3, n4}

SYMMETRY Symmetry

SPECIFICATION Spec

INVARIANTS
    KeepsContract
    AnswersRight
    LoopsVisitAll
