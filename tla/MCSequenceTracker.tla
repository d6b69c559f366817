------------------------- MODULE MCSequenceTracker -------------------------
EXTENDS SequenceTracker

Int1 == [type |-> "int", num |-> 1]
Float2 == [type |-> "float", num |-> 2]
EmptyList == [type |-> "list", num |-> 0]
IntList == [type |-> "list(int)", num |-> 0]
FloatList == [type |-> "list(float)", num |-> 0]

AllValues == {Int1, Float2, EmptyList, IntList, FloatList}
=============================================================================
