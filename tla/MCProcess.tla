------------------------------ MODULE MCProcess ------------------------------
(* Process, with the metric flags put together from a few fragments.        *)
EXTENDS Process
LOCAL INSTANCE SequencesExt

CONSTANT MaxFragments   \* bound: fragments of a flag

Label == <<"letter", "equals", "letter">>
Fragment == {<<c>> : c \in Symbol} \cup {<<"letter", "open">> \o Label, <<"comma">> \o Label}
MCFlagValues == {FlattenSeq(f) : f \in UNION {[1..n -> Fragment] : n \in 0..MaxFragments}}
=============================================================================
