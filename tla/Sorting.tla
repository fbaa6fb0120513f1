------------------------------- MODULE Sorting -------------------------------
(***************************************************************************)
(* Choosing the elements of a list and sorting it by a key that has few    *)
(* values, as the conversions of recipients and of alert rules do.         *)
(***************************************************************************)
EXTENDS SequencesExt

\* The elements of a list that are in S, in their order.
Among(s, S) ==
    LET kept[i \in 0..Len(s)] ==
            IF i = 0 THEN <<>>
            ELSE IF s[i] \in S THEN Append(kept[i - 1], s[i])
            ELSE kept[i - 1]
    IN  kept[Len(s)]

\* A stable sort: classes are the sets of elements of equal key, in order.
Grouped(s, classes) ==
    LET sorted[k \in 0..Len(classes)] ==
            IF k = 0 THEN <<>> ELSE sorted[k - 1] \o Among(s, classes[k])
    IN  sorted[Len(classes)]
=============================================================================
