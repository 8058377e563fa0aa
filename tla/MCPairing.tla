------------------------------ MODULE MCPairing ------------------------------
EXTENDS Pairing, TLC

CONSTANTS any, lan, dns, if1, if2

Few == [daemon |-> 2, other |-> 1, qr |-> 1, change |-> 1, failure |-> 2]

\* One address of the machine is as good as the other.
Either == Permutations(Interface)

Lists == {{}}
=============================================================================
