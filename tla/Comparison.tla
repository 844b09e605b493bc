------------------------------ MODULE Comparison ------------------------------
(***************************************************************************)
(* internal/comparison/scripts.go: payloads are normalised and then either *)
(* compared or hashed.  Each payload gets an evaluator of its own.         *)
(***************************************************************************)
EXTENDS Normalisation, Difference

\* normalise: an untyped payload is left as it is.
normalise(types, typeName, targets, payload) ==
    IF typeName = None THEN payload
    ELSE IF typeName \notin DOMAIN types THEN Error
    ELSE Normalise(types, payload, typeName, targets)

\* Mutant: payloads are compared before they are normalised.
CompareRaw(types, typeName, targets, reference, candidate) ==
    IF Error \in {normalise(types, typeName, targets, p) : p \in {reference, candidate}} THEN Error
    ELSE Diff(types, reference, candidate, IF typeName = None THEN None ELSE Object(typeName))

Compare(types, typeName, targets, reference, candidate) ==
    LET left == normalise(types, typeName, targets, reference)
        right == normalise(types, typeName, targets, candidate)
    IN  IF Error \in {left, right} THEN Error
        ELSE Diff(types, left, right, IF typeName = None THEN None ELSE Object(typeName))

\* Hash over an identity and canonical JSON, in which a removed root is null.
Hash(types, identity, typeName, targets, payload) ==
    LET normalised == normalise(types, typeName, targets, payload)
    IN  IF normalised = Error THEN Error
        ELSE <<identity, IF normalised = None THEN <<"null">> ELSE normalised>>

\* Ingress compares and egress hashes, and the two agree: payloads of the same identity
\* hash alike exactly when comparing them finds no difference, and one cannot be hashed
\* exactly when it cannot be compared with itself.
HashAgreesWithCompare(types, typeName, targets, reference, candidate) ==
    LET hash(p) == Hash(types, "i", typeName, targets, p)
        compared == Compare(types, typeName, targets, reference, candidate)
    IN  IF compared = Error THEN Error \in {hash(reference), hash(candidate)}
        ELSE (hash(reference) = hash(candidate)) <=> compared.differences = <<>>

=============================================================================
