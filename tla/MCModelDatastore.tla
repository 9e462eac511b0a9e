-------------------------- MODULE MCModelDatastore --------------------------
EXTENDS ModelDatastoreHistory, TLC

CONSTANTS o1, o2, o3

ObjSymmetry == Permutations({o1, o2, o3})
=============================================================================
