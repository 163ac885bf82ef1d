------------------------------ MODULE Counting ------------------------------
(***************************************************************************)
(* The facts about finite sets and cardinalities that the proofs use, each *)
(* under a name of its own.  The lemmas of the proof modules have Counting *)
(* as a hypothesis, and the end of each proof proves it from the theorems  *)
(* of the library: until there a step is given the facts it cites and not  *)
(* the library.                                                            *)
(***************************************************************************)
EXTENDS Integers, FiniteSets

Least == \A T \in SUBSET Nat : T # {} => \E x \in T : \A y \in T : x <= y

Sizes == \A S : IsFiniteSet(S) => Cardinality(S) \in Nat

EmptySets ==
  /\ IsFiniteSet({}) /\ Cardinality({}) = 0
  /\ \A S : IsFiniteSet(S) => (Cardinality(S) = 0 <=> S = {})

Singletons == \A x : IsFiniteSet({x}) /\ Cardinality({x}) = 1

Intervals ==
  \A a, b \in Int : /\ IsFiniteSet(a..b)
                    /\ Cardinality(a..b) = IF a > b THEN 0 ELSE b - a + 1

Subsets ==
  \A S : IsFiniteSet(S) =>
    \A T \in SUBSET S : /\ IsFiniteSet(T) /\ Cardinality(T) <= Cardinality(S)
                        /\ Cardinality(S) = Cardinality(T) => S = T

Additions ==
  \A S, x : IsFiniteSet(S) =>
    /\ IsFiniteSet(S \cup {x})
    /\ Cardinality(S \cup {x}) = IF x \in S THEN Cardinality(S) ELSE Cardinality(S) + 1

Removals ==
  \A S, x : IsFiniteSet(S) =>
    /\ IsFiniteSet(S \ {x})
    /\ Cardinality(S \ {x}) = IF x \in S THEN Cardinality(S) - 1 ELSE Cardinality(S)

Unions ==
  \A S, T : IsFiniteSet(S) /\ IsFiniteSet(T) =>
    /\ IsFiniteSet(S \cup T)
    /\ Cardinality(S \cup T) = Cardinality(S) + Cardinality(T) - Cardinality(S \cap T)

Products ==
  \A S, T : IsFiniteSet(S) /\ IsFiniteSet(T) =>
    IsFiniteSet(S \X T) /\ Cardinality(S \X T) = Cardinality(S) * Cardinality(T)

Onto(f, S, T) == f \in [S -> T] /\ \A t \in T : \E s \in S : f[s] = t

(* The image of a finite set is no larger, and as large when no two        *)
(* elements have the same image.                                           *)
Images ==
  \A S, T, f : IsFiniteSet(S) /\ Onto(f, S, T) =>
    /\ IsFiniteSet(T) /\ Cardinality(T) <= Cardinality(S)
    /\ (\A a, b \in S : f[a] = f[b] => a = b) => Cardinality(T) = Cardinality(S)

Counting ==
  /\ Least /\ Sizes /\ EmptySets /\ Singletons /\ Intervals /\ Subsets
  /\ Additions /\ Removals /\ Unions /\ Products /\ Images
=============================================================================
