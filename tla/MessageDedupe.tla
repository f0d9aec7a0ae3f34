----------------------------- MODULE MessageDedupe -----------------------------
(***************************************************************************)
(* How a tab joins the stored history of a conversation with the messages  *)
(* it has streamed (messageDedupe.ts).                                     *)
(***************************************************************************)
EXTENDS Naturals, Sequences, FiniteSets

Places(seq, m) == {i \in DOMAIN seq : seq[i] = m}
Count(seq, m)  == Cardinality(Places(seq, m))

\* How many of these places come up to this one.
Rank(places, i) == Cardinality({j \in places : j <= i})

\* Mutant of Unmatched: a message of the history matches every repetition.
UnmatchedAsSet(history, stream) ==
  {i \in DOMAIN stream : Count(history, stream[i]) = 0}

\* Each message of the history uses up one equal message of the stream, the
\* earliest.
Unmatched(history, stream) ==
  {i \in DOMAIN stream :
     Rank(Places(stream, stream[i]), i) > Count(history, stream[i])}

\* mergeMessageHistory: the history, then what it lacks of the stream, in order.
MergeMessageHistory(history, stream) ==
  LET new == Unmatched(history, stream)
  IN  history \o [k \in 1..Cardinality(new) |->
                    stream[CHOOSE i \in new : Rank(new, i) = k]]

=============================================================================
