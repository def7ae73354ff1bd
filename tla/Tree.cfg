SPECIFICATION Spec
CONSTANT Key <- MCKey
INVARIANTS TreeSound SweepSeesAll
PROPERTY IsOrderedSet
