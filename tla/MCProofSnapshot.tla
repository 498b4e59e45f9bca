---------------------------- MODULE MCProofSnapshot ----------------------------
(***************************************************************************)
(* An instance of ProofSnapshot for TLC: a tree, the same with one more    *)
(* test, one whose suite fails, and one whose list of invariants is empty. *)
(***************************************************************************)
EXTENDS ProofSnapshot, TLC

OneValidator == <<"review:validate">>

\* No action or property tells one key from another.
KeySymmetry == Permutations(SigningKeys)

Trees == {"base", "more tests", "failing", "no invariants"}

Passing(read) == [ok |-> TRUE, read |-> read]

Reports ==
    [tree \in Trees |->
        [n \in DOMAIN Commands |->
            CASE n = 1 /\ tree = "failing"       -> [ok |-> FALSE, read |-> 0]
              [] n = 1 /\ tree = "more tests"    -> Passing(2)
              [] n = 2 /\ tree = "no invariants" -> Passing(0)
              [] OTHER                           -> Passing(1)]]

================================================================================
