---------------------------- MODULE StreamLemmas ----------------------------
(***************************************************************************)
(* What the streams of the bus hold when an entry is taken or put on, for  *)
(* the proofs about the modules that keep them as sequences.               *)
(***************************************************************************)
EXTENDS Sequences, Functions, SequenceTheorems, TLAPS

\* An empty stream holds nothing.
LEMMA EmptyHolds == Range(<< >>) = {}
BY DEF Range

\* Putting an entry on a stream adds that entry and no other.
LEMMA AppendHolds ==
  ASSUME NEW S, NEW s \in Seq(S), NEW e \in S
  PROVE  /\ Append(s, e) \in Seq(S)
         /\ Range(Append(s, e)) = Range(s) \cup {e}
<1>1. /\ Append(s, e) \in Seq(S)
      /\ DOMAIN Append(s, e) = 1..Len(s) + 1
      /\ \A i \in 1..Len(s) : Append(s, e)[i] = s[i]
      /\ Append(s, e)[Len(s) + 1] = e
  BY AppendProperties
<1>2. DOMAIN s = 1..Len(s) /\ Len(s) \in Nat
  OBVIOUS
<1> QED
  BY <1>1, <1>2 DEF Range

\* Taking the head leaves entries that were there, and the head was one.
LEMMA TailHolds ==
  ASSUME NEW S, NEW s \in Seq(S), s # << >>
  PROVE  /\ Head(s) \in S /\ Head(s) \in Range(s)
         /\ Tail(s) \in Seq(S)
         /\ Range(Tail(s)) \subseteq Range(s)
<1>1. /\ Tail(s) \in Seq(S) /\ Len(Tail(s)) = Len(s) - 1
      /\ \A i \in 1..Len(Tail(s)) : Tail(s)[i] = s[i + 1]
      /\ Head(s) = s[1] /\ 1 \in DOMAIN s /\ DOMAIN Tail(s) = 1..Len(Tail(s))
  BY HeadTailProperties
<1>2. DOMAIN s = 1..Len(s) /\ Len(s) \in Nat
  OBVIOUS
<1> QED
  BY <1>1, <1>2 DEF Range

\* An entry handed out once more is one that was there.
LEMMA AgainHolds ==
  ASSUME NEW S, NEW s \in Seq(S), s # << >>
  PROVE  /\ Append(Tail(s), Head(s)) \in Seq(S)
         /\ Range(Append(Tail(s), Head(s))) \subseteq Range(s)
<1>1. ASSUME NEW t \in Seq(S), NEW e \in S, Range(t) \subseteq Range(s), e \in Range(s)
      PROVE  Append(t, e) \in Seq(S) /\ Range(Append(t, e)) \subseteq Range(s)
  <2>1. Append(t, e) \in Seq(S) /\ Range(Append(t, e)) = Range(t) \cup {e}
    BY AppendHolds
  <2> QED
    BY <1>1, <2>1
<1>2. /\ Head(s) \in S /\ Head(s) \in Range(s)
      /\ Tail(s) \in Seq(S) /\ Range(Tail(s)) \subseteq Range(s)
  BY TailHolds
<1> QED
  BY <1>1, <1>2

\* An entry of a stream is of the stream's kind.
LEMMA HeldType ==
  ASSUME NEW S, NEW s \in Seq(S), NEW e \in Range(s)
  PROVE  e \in S
BY DEF Range

=============================================================================
