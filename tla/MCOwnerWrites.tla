--------------------------- MODULE MCOwnerWrites ---------------------------
(***************************************************************************)
(* Bounds for OwnerWrites.  Of the tools that OwnerWrites does not tell    *)
(* apart, one is tried.                                                    *)
(***************************************************************************)
EXTENDS OwnerWrites, FiniteSets, TLC

AnyInput == [flags |-> {}, mode |-> "run", key |-> TRUE, price |-> TRUE, ref |-> "id"]

\* Everything the specification asks of a tool; the fields only by their number.
Behaviour(t) ==
  <<[t EXCEPT !.family = None, !.op = None, !.own = Cardinality(@), !.inner = Cardinality(@),
              !.decides = Cardinality(@ \cap (t.own \cup t.inner))],
    EarlyRights(t, AnyInput), EarlyRights(t, [AnyInput EXCEPT !.price = FALSE]),
    EarlyRights(t, [AnyInput EXCEPT !.mode = "prepare"]),
    RunsAgain(t), GivesKeyBack(t), Subject(t, {}),
    {t.family} \cap CommercialFamilies # {}, {t.family} \cap OpenFamilies # {},
    {t.family} \cap TwoConfirmations # {}, {t.family} \cap RepeatableFamilies # {}>>

OneOfEach ==
  {CHOOSE t \in OwnerTools : Behaviour(t) = b : b \in {Behaviour(t) : t \in OwnerTools}}
  \ AssignDevice

CallSymmetry == Permutations(Calls)
=============================================================================
