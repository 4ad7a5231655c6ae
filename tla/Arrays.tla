-------------------------------- MODULE Arrays --------------------------------
(***************************************************************************)
(* The array methods that the handlers of the rule builder are written     *)
(* with, on sequences of records that have an id.                          *)
(*                                                                         *)
(* filter is stated by the places it keeps and not with SelectSeq: the     *)
(* enumeration of a set of places in order is determined by a predicate,   *)
(* which is what the proofs reason from.  MCRuleBuilder compares the two.  *)
(***************************************************************************)
EXTENDS Integers, Sequences, FiniteSets, SequencesExt

\* findIndex by id; 0 where JavaScript has -1.
IndexOf(s, id) ==
    IF \E i \in DOMAIN s : s[i].id = id
    THEN CHOOSE i \in DOMAIN s : s[i].id = id /\ \A j \in 1..(i - 1) : s[j].id # id
    ELSE 0

\* prev.map((x) => x.id === id ? Change(x) : x)
MapId(s, id, Change(_)) ==
    [i \in DOMAIN s |-> IF s[i].id = id THEN Change(s[i]) ELSE s[i]]

\* The places of a set, the lowest first.
InOrder(places) ==
    LET n == Cardinality(places)
    IN  CHOOSE f \in [1..n -> places] : \A i, j \in 1..n : i < j => f[i] < f[j]

\* What filter makes of s when it keeps the elements at the given places.
Keep(s, places) ==
    [i \in 1..Cardinality(places) |-> s[InOrder(places)[i]]]

FilterId(s, id) == Keep(s, {i \in DOMAIN s : s[i].id # id})

\* dnd-kit's arrayMove.
arrayMove(s, from, to) == InsertAt(RemoveAt(s, from), to, s[from])
================================================================================
