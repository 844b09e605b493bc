----------------------------- MODULE ServiceOutput -----------------------------
(***************************************************************************)
(* What the supervisor makes of a service's stdout (servicelog.go), and    *)
(* how it divides memory between the services (config.go).                 *)
(*                                                                         *)
(* Output is a sequence of bytes: NL, blanks, braces, and Char for any     *)
(* other, of which one or more make the members of a JSON object.  The     *)
(* writer is [pending, lines]: the unfinished line and what was written.   *)
(* Writes to the supervisor's own stdout are taken to succeed.             *)
(***************************************************************************)
EXTENDS Integers, Sequences, SequencesExt

CONSTANTS
    NL, Blank, Char, Label, Role, Comma,  \* bytes, and what annotate adds
    MaxServiceLine                        \* maxServiceLine

\* json.Valid of a line that starts with a brace.
ValidObject(line) ==
    LET solid == SelectSeq(line, LAMBDA b : b # Blank)
    IN  /\ Len(solid) >= 2 /\ solid[1] = "{" /\ Last(solid) = "}"
        /\ \A i \in 2..Len(solid)-1 : solid[i] = Char

\* The label becomes the first member of a JSON object; another line gets the role, unless
\* it is blank.
annotate(line) ==
    LET open == SelectInSeq(line, LAMBDA b : b # Blank)
        rest == SubSeq(line, open + 1, Len(line))
        next == SelectInSeq(rest, LAMBDA b : b # Blank)
    IN  CASE open = 0 -> line
          [] open > 0 /\ ValidObject(line) ->
                SubSeq(line, 1, open) \o <<Label>> \o (IF rest[next] # "}" THEN <<Comma>> ELSE <<>>) \o rest
          [] OTHER -> <<Role>> \o line

emit(w) == [pending |-> <<>>, lines |-> Append(w.lines, annotate(w.pending))]

\* Mutant: the remainder is held beyond the limit.
holdAll(w, fragment) == [w EXCEPT !.pending = @ \o fragment]

\* A line that reaches the limit is passed through in pieces.
hold(w, fragment) ==
    FoldLeft(LAMBDA v, byte : LET held == [v EXCEPT !.pending = Append(@, byte)]
                              IN  IF Len(held.pending) = MaxServiceLine THEN emit(held) ELSE held,
             w, fragment)

\* Complete lines are passed through, the remainder is held.
RECURSIVE Write(_, _)
Write(w, data) ==
    LET end == SelectInSeq(data, LAMBDA b : b = NL)
    IN  IF end = 0 THEN hold(w, data)
        ELSE Write(emit(hold(w, SubSeq(data, 1, end - 1))), SubSeq(data, end + 1, Len(data)))

Flush(w) == IF w.pending = <<>> THEN w ELSE emit(w)

Written(writes) == Flush(FoldLeft(Write, [pending |-> <<>>, lines |-> <<>>], writes)).lines

-----------------------------------------------------------------------------
\* LimitConfig.Validate, of shares that are not negative.
ValidateLimits(c) ==
    c.enabled =>
        /\ \A weight \in {c.candidateWeight, c.referenceWeight} : weight \in 1..10000
        /\ c.candidateShare + c.referenceShare # 0
        /\ c.memoryMax >= 0

memorySplit(c, budget) ==
    LET total == c.candidateShare + c.referenceShare
        candidate == (budget * c.candidateShare) \div total
    IN  IF budget <= 0 \/ total = 0 THEN [candidate |-> 0, reference |-> 0]
        ELSE [candidate |-> candidate, reference |-> budget - candidate]

-----------------------------------------------------------------------------
\* The bytes of a service, without what annotate adds.
Unlabelled(line) == SelectSeq(line, LAMBDA b : b \notin {Label, Role, Comma})

\* However the output is cut into writes, the lines are the same; no byte of the service is
\* lost or moved, no piece is longer than the limit, every line that is not blank is labelled
\* once, and an object stays an object.
OutputIntact(writes) ==
    LET lines == Written(writes)
        data == FlattenSeq(writes)
        labels(line) == SelectSeq(line, LAMBDA b : b \in {Label, Role})
        object(line) == SelectSeq(line, LAMBDA b : b # Blank)
    IN  /\ lines = Written(<<data>>)
        /\ FlattenSeq([i \in DOMAIN lines |-> Unlabelled(lines[i])]) = SelectSeq(data, LAMBDA b : b # NL)
        /\ \A i \in DOMAIN lines :
              /\ Len(Unlabelled(lines[i])) <= MaxServiceLine
              /\ Len(labels(lines[i])) = IF \A b \in ToSet(lines[i]) : b = Blank THEN 0 ELSE 1
              /\ ValidObject(Unlabelled(lines[i])) =>
                    IF object(Unlabelled(lines[i])) = <<"{", "}">> THEN object(lines[i]) = <<"{", Label, "}">>
                    ELSE SubSeq(object(lines[i]), 1, 4) = <<"{", Label, Comma, Char>>

\* A valid split hands out the whole budget, each part within one byte of its share.
SplitWhole(c, budget) ==
    LET split == memorySplit(c, budget)
        total == c.candidateShare + c.referenceShare
    IN  ValidateLimits(c) /\ c.enabled /\ budget > 0 =>
            /\ split.candidate + split.reference = budget
            /\ split.candidate >= 0 /\ split.reference >= 0
            /\ split.candidate * total <= budget * c.candidateShare
            /\ split.reference * total < budget * c.referenceShare + total

=============================================================================
