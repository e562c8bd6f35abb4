----------------------- MODULE MCObliviousDictionary -----------------------
EXTENDS ObliviousDictionary, TLC

\* Nothing the encoder does depends on which key is which: where it takes the
\* key of a bucket, the bucket has one key.
KeySymmetry == Permutations(Keys)
=============================================================================
