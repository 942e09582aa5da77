------------------------------ MODULE MCJwtUtil ------------------------------
EXTENDS JwtUtil, TLC

Symmetry == Permutations(Tokens)
=============================================================================
