------------------------------- MODULE Sieve -------------------------------
(***************************************************************************)
(* A list comprehension with a condition, [x for x in s if x in T]: the    *)
(* elements of a sequence that are in a set, in their order.               *)
(***************************************************************************)
EXTENDS Integers, Sequences

Sieve(s, T) ==
    LET f[i \in 0 .. Len(s)] ==
            IF i = 0 THEN <<>> ELSE IF s[i] \in T THEN Append(f[i - 1], s[i]) ELSE f[i - 1]
    IN f[Len(s)]
=============================================================================
