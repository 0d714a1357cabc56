----------------------------- MODULE MCProcess -----------------------------
EXTENDS Process, TLC

CONSTANTS u1, u2, u3, idle, init

Symmetric == Permutations(User)
=============================================================================
