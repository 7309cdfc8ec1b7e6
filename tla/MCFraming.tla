------------------------------ MODULE MCFraming ------------------------------
EXTENDS Framing

\* Bodies of every length up to the limit and beyond, with bytes that would read as lengths.
Bodies == {<<1>>, <<0, 0>>, <<0, 0, 1>>, <<2, 0, 0, 0, 1>>, <<0, 0, 0, 1, 0, 0>>}
=============================================================================
